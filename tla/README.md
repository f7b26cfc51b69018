# Reposhift: a TLA+ development of the migration operator

Reposhift is a Kubernetes operator that moves Azure DevOps (ADO) repositories, work items and
pipelines to GitHub. Users write custom resources; reconcilers in one or more operator processes
read them from an informer cache, call ADO and GitHub, and write status back through the API server
with optimistic concurrency. This directory holds TLA+ models of that program, the TLC
configurations that check them, and proofs about them for every value of the constants.

Paths below are relative to the repository; every definition of the models is listed in
`PROJECT.json` under `map` with the lines it stands for.

## 1. Inventory

For each part: the state it keeps, what it does, what is hard, what makes it correct, and the section
that models it.

| Part | State | Operations | What is hard | Correct when | § |
|---|---|---|---|---|---|
| AdoToGitMigration reconciler (`internal/controller/adotogitmigration_controller.go`, `predicates.go`) | spec, generation, annotations, finalizer, status (phase, entries per resource, counters) in the API server; the informer's copy; the work queue; repositories on GitHub | one handler per phase; pause, cancel and trigger annotations; finalizer and deletion; restart merge of a changed spec; continuous sync | cached copies, refused writes, crashes between GitHub and the status write, several replicas without leader election, a predicate that drops status events, merging by id what is looked up by name | counters agree with entries, a Completed entry has its repository, user edits survive, finished work is not redone, the migration settles | 3, 9 |
| WorkItemMigration reconciler and work-item service (`workitemmigration_controller.go`, `services/workitem*.go`) | phase, progress, migrated items, generation; the map of active goroutines; issues on GitHub; rows in PostgreSQL | phases; a background goroutine per migration; resume after five minutes; retry of transient failures; restart of a changed spec | the goroutine and the reconciler write one status, the first overwriting the second on conflict, from copies of the cache; resume while another process still works; the list of migrated items is written at the end only | one issue per work item up to mishaps and races; lists stay true; a Running migration ends unless a mishap abandons it; a deleted one goes | 4, 7 |
| MonoRepoMigration reconciler (`monorepomigration_controller.go`, `services/monorepo_migration.go`) | phase, phase per repository, workspace on the local disk, the repository on GitHub | clone, rewrite, merge, push; retry, pause, resume, cancel | the workspace belongs to a process and is lost with it; the repositories are in different phases; work that was cut short is told from work that was done by a directory's name | what is reported Completed is on GitHub; no repository is merged before it was rewritten | 5 |
| BatchMigration reconciler (`batchmigration_controller.go`) | phase, claim (owner, lease), retry count, entries | claim, renew, process, complete, retry, mark stale | workers compete; the owner alone looks at its lease; reads come from an informer cache and a refused write is only logged; outcomes are found by source name | one worker can write; recorded work is kept; work repeated at most once per edit or mishap; the batch ends unless its holder's pod is replaced | 6 |
| GitHubProject reconciler (`githubproject_controller.go`, `services/githubproject.go`) | phase, project id, owner, observed generation | create once, adopt, refuse later changes | Creating is written before the call and nothing leaves it after a crash; several migrations name one project | no second project without an order; who waits for it is served or told | 7 |
| PipelineToWorkflow reconciler (`pipelinetoworkflow_controller.go`, `services/pipeline_*.go`, `workflow*.go`) | phase, entry per pipeline, counters, workflows; the kept connections to ADO | discover, analyse, convert, validate, restart | the phases move by counters that survive restarts; pipelines are found by id | counters agree with entries; every pipeline gets its own workflow | 8 |
| AdoDiscovery reconciler (`adodiscovery_controller.go`) | phase, steps | simulated steps | the number of steps is that of the spec first seen | it settles | 8 |
| MigrationJob reconciler (`migrationjob_controller.go`) | phase, progress | validation, children | the functions that create and inspect children are stubs | it settles, or waits for children that never come | 8 |
| Code migration (`services/migration.go`, `repository.go`, and their callers in the AdoToGit reconciler) | clones on the disk of a replica; references on GitHub and ADO; the kept clients of GitHub Apps | find or create, clone, filter, push, default branch, mirror | what a failure leaves on the disk and on GitHub; replicas with disks of their own; keys that rotate | what was to be migrated is there; nothing of the users is taken back; the mirror converges | 9 |
| Operator HTTP API (`internal/api`) | secrets and objects in the cluster | create with an inline token, pause, resume, cancel, retry, update, delete | several calls per request; reads from a cache; one secret for three kinds | an object finds its secret; an order fits the phase | 10 |
| Platform (`internal/platform`) | migration rows, secrets, credentials per migration | store, validate, create, pause, resume, cancel, retry, delete | two stores and no transaction | credentials and rows match up to failed calls | 10 |
| WebSocket manager, former hub, event stream (`internal/websocket`, `internal/server/websocket.go`, `internal/api/sse_handlers.go`) | clients, channels, locks | register, unregister, broadcast, stop | one end of a client is asked for from three sides; locks held while sending | a channel is closed once, nothing is sent into a closed one by the loop | 10 |
| Migration cache (`internal/cache`) | entries with completion times | set, delete, complete, evict, expire | eviction at the limit | running migrations are kept while there is a choice | 10 |
| GitHub App token (`services/github_app.go`) | token and expiry | get, refresh | two refreshes at once, the older answer stored last | a served token is good for the margin | 10 |
| Status updater and batcher, retry handler, parallel processor, rate limiters, advisor, metrics, main, web interface, charts | — | — | — | — | 11 |

**How they interact.** Users, the operator API and the platform write custom resources; the API
server raises `metadata.generation` on a change of the spec or a deletion and refuses a write that
carries an old resource version. The informer delivers objects to the caches of the processes and
puts keys into their work queues; the AdoToGit and MonoRepo controllers filter status-only updates
out, the others do not. Reconcilers call GitHub and ADO, send progress to the WebSocket manager and
write status. `cmd/main.go` registers the controllers for AdoToGit, AdoDiscovery, PipelineToWorkflow,
WorkItem, GitHubProject and MonoRepo; BatchMigration and MigrationJob have code but are not
registered. Leader election is off by default, and `config/manager/worker-deployment.yaml` runs two
workers without it. The API server of the operator reads through the manager's cache.

The hazards found in the survey, each at its line and with the properties that watch it, are in
`PROJECT.json` under `hazards`.

## 2. Plan, and what became of it

| Order | Modules | Abstract specification | Theorems |
|---|---|---|---|
| 1 | `MigrationObject`, `AtomicMigration`, `AdoMigration` | `AtomicMigration`: each handler in one step on the object itself | types, faithful copies, refinement, counters, repositories, edits kept |
| 2 | `WorkItemMigration`: replicas, goroutines, issues, database | — | types, no list names an item without an issue, completed work is whole, issues within mishaps and races |
| 3 | `MonoRepoMigration`: stages, disks, GitHub | — | inductive invariant, what is Completed is pushed, what is merged is rewritten |
| 4 | `BatchClaim`, `BatchMigration`: workers, caches, leases, retries, edits | `BatchClaim`: a lock with a holder, what is wanted, and progress | inductive invariant, one writer, refinement, work repeated only for edits and mishaps |
| 5 | `WorkItemIssues`, `ProjectDependency`: two migrations and the project they share | — | one project for each custom resource and order, completed work is in it |
| 6 | `StatusObject`, `PipelineDiscovery`, `PipelineConversion`, `AdoDiscovery`, `MigrationJob`, `Controllers` | — | inductive invariant of a conversion, counters agree with entries, a workflow for each converted pipeline |
| 7 | `GitHosting`, `BranchFilter`, `MigrationAccess`, `RepositoryTransfer`, `RepositorySync`, `CodeMigration` | — | inductive invariant, what was pushed is on GitHub, nothing is taken back |
| 8 | `OperatorApi`, `PlatformApi`, `EventHub`, `MigrationCache`, `GitHubAppToken`, `Services` | — | secrets before objects, orders that fit, credentials that match, channels closed once, running migrations kept, tokens good |

Every module has an `MC...` module of its own or shares one, and the runs are one for each distinct
question.

Modules meant for proofs use no RECURSIVE operators; parameters are CONSTANTS with named
assumptions; there is one action per handler. "Mutant:" in a comment marks a definition that is not
part of the model: it is what a plausible mistake would have made of the definition after it, and it
shows that a property notices.

## 3. The AdoToGitMigration reconciler

### Modules

* `MigrationObject` — the object a user writes, and what each handler makes of a copy of it.
  Records stand for the Go structs: `spec.resources` with id, name, target and kind; `status` with
  phase, observed generation, entries (`statuses`), `total`, `completed`, `failed`, `skipped` and
  `processing`. `Restarts`, `PastFinalizer`, `PastTrigger`, `PastPause`, `PastAnnotations` and
  `InPhase` are the early returns of `Reconcile` in their order. `Restarted` is the merge of a
  changed spec: new, modified and removed resources are told apart by id against the *last* entry
  with that id, and applied to the *first*, as in the code. `EntryAt` finds entries by source name,
  as `checkResourceStatus` does. It has no state.
* `AtomicMigration` — the promise: every handler as one step on the object in the API server,
  user changes between any two of them, GitHub advancing on its own. A resource is recorded as
  Completed only when its repository is there.
* `AdoMigration` — the program: `obj` in the API server; per replica the informer's `cache`,
  whether it has caught up (`synced`), the work queue (`queued`), the place in the reconcile (`pc`),
  the working copy (`mem`) and whether that copy carries the current resource version (`current`);
  `repos` on GitHub; bounds `edits`, `crashes`, `errors`. `Put` is a write of the API server: taken
  only when the copy is current, and it makes all other copies outdated. `Refused` is a conflict or
  an error. `Begin` is the cached Get. A repository passes through `MarkProcessing`,
  `CheckRepository`, `CreateRepository`, `MigrateCode`, `SaveResource` or `SaveFailure`, each a step
  between which other replicas, the user and crashes may act. The outcome of a call to GitHub is a
  choice, partial pushes included. `Crash` loses queue and working copy and relists.
* `MCAdoMigration` — the specs a user chooses from in each run.

### Runs

| Run | What it explores | Checked |
|---|---|---|
| `AdoSafety` | one replica, outdated reads, two user changes of any kind, one crash, one failed write, specs that grow, shrink, retarget and switch continuous sync, fair specification | `TypeOK`, `CompletedHasRepository`, `UserEditsKept`, `ObservedAdvances`, `CompletedWorkKept`, `AtomicSpec`, `Settles`, `EditsObserved` |
| `AdoReplicas` | two replicas on one object without leader election, a resource retargeted or renamed under its id | `CountersMatchStatuses`, `CopiesFaithful` |

What they show. The status write at the end of a resource is guarded by the resource version, so two
replicas that process the same resource do the work on GitHub twice, but only one of them records
it, and the counters are right (`CountersMatchStatuses`). Whole-object updates (finalizer, trigger
annotation) never carry an old spec into the API server (`UserEditsKept`). A restart keeps the
entries of resources that did not change (`CompletedWorkKept`), unless sources are renamed. The
migration settles when the user stops (`Settles`), and the last edit is taken notice of
(`EditsObserved`), with outdated reads, a refused write and a crash anywhere, but for the two endings
that `Forgotten` names: a reconcile that ends on the refused record of a failure, or on an outdated
copy that was still terminal when the migration had been restarted, asks for nothing more, and the
status event that would wake it is filtered out. The phase is then Running with an empty queue. The
history variable `lost` says that one of the two happened; any other way to be left behind violates
`Settles`.

Places where a name or a sentence promises more than the code does, seen while modelling and part of
the model:

* a Failed resource counts as processed, so a restarted migration skips it and completes
  (`docs/migration-patterns.md:620` has Completed mean that all resources are migrated);
* a deletion raises the generation, so a terminal migration takes its deletion for a changed spec,
  notes it, and keeps its finalizer until another event comes (the test for a changed spec at
  `adotogitmigration_controller.go:203` comes before the one for a deletion, and the filter of
  `predicates.go` lets no status write wake the reconciler);
* the one write that records a failure is dropped when it is refused
  (`adotogitmigration_controller.go:1297`): the phase stays Running with nothing queued, although
  `docs/migration-patterns.md:621` has Failed mean that a resource failed; a restarted migration whose
  next reconcile still reads the terminal copy stays Running in the same way (`:709`);
* after a rename two entries share an id, and a restart resets the first, the finished one
  (`adotogitmigration_controller.go:566`); `CompletedWorkKept` is therefore checked, and proved, for specs
  without renaming;
* `Total` is set at the initialization and by the restart (`:218`, `:520`); resources added while the
  migration runs are not in it;
* a resource that was removed is counted as skipped again by each later restart (`:558`), and one
  that is listed again stays Skipped;
* nothing leaves Paused (`:1883`): removing the annotation does not resume the migration.

### Bounds

Two resources are the least for which "the next resource waits for a requeue" differs from "the last
one completes", for a resource added, removed or modified next to one that is not, and for two
entries with one id. Two user changes are the least that undo each other (remove and add again,
annotate and remove). One crash and one failed write can each fall on any step. Two replicas are the least that compete. The
generation grows with each edit and is bounded by `MaxEdits`.

### Fairness

`CacheSync`, `Begin` and `Handle` are weakly fair per replica: while a process runs, its watch
delivers, a queued key is taken, a started reconcile goes on (calls have time-outs). `Sync` is
strongly fair because its interval elapses while the phase is Syncing, although the action is
disabled between reconciles. Users owe nothing. Crashes and failed writes are bounded and unfair.

### Proofs

`AdoMigrationProofs` proves, for any sets of ids, names, targets, specs and replicas and any bounds:

* `AtomicTypeCorrect`, `AtomicCounters`, `AtomicRepositories` — of the atomic handlers: types, the
  counters are the numbers of Completed and Failed entries, a Completed repository entry has its
  repository. The counters need an argument about positions: replacing one entry changes the number
  of entries with a status by one, and the merge of a restart takes exactly the dropped ones off.
* `TypeCorrect` — the type invariant of the program.
* `Faithful` — the inductive invariant `TypeOK /\ CopiesFaithful`: a copy whose write would be
  accepted *is* the object, up to the processing mark, and what the reconcile found out about the
  resource it works on still holds of the copy. Without it no handler's guard, evaluated on the copy,
  says anything about the object.
* `Implements` — `Spec => AtomicSpec`: a write that lands came from a faithful copy, so it is a
  handler of `AtomicMigration` on the object; every other step stutters or advances GitHub.
* `Counters`, `Repositories` — by refinement from the atomic theorems.
* `EditsKept`, `ObservedGrows` — the action properties `UserEditsKept` and `ObservedAdvances`.
* `WorkKept` — `CompletedWorkKept`, under the hypothesis `NamesFollowIds` that the specs the user
  writes never rename a resource: over all of them, a source id goes with one source name. The
  invariant it needs is `EntriesInOrder`: no two entries have the same id, and an uninitialized
  status has none. It holds because an outcome is recorded in the entry of the resource's *name*
  while a restart compares by *id*: under the hypothesis both find the same entry. A restart then
  touches no entry whose resource the spec lists unchanged, and no outcome is recorded in a
  Completed one. The specs of `AdoSafety` satisfy the hypothesis; without it the property is false.

They rest on `SpecsAssumption` (specs are sequences of resources with distinct ids),
`OccupiedAssumption` and `BoundsAssumption`, and `WorkKept` on `NamesFollowIds` besides.

Only model-checked: the liveness properties, which are out of the prover's reach.

### Abstractions

The outcome of the validation is a choice; so are the answers of GitHub. Conditions, percentages,
statistics, events, log messages and metrics are left out, except the counters. A status write
that changes nothing still makes other copies outdated. A write whose answer is lost is counted as a
crash or as refused before it reached the server, not as one that landed and failed at once. The map
`activeMigrations` is written and never decides anything.


## 4. The WorkItemMigration reconciler and its goroutines

### Modules

`WorkItemMigration` models `workitemmigration_controller.go` with the part of the work-item service
(`services/workitem_progress.go`) that decides which items get an issue, and the rows of
`services/database.go`. `MCWorkItemMigration` has the filters of each run.

| Model | Code |
|---|---|
| `obj` | the custom resource: filters (the set of work items they select), generation, finalizer, status |
| `cache`, `synced`, `queued` | informer copy, whether it is current, the work queue of each process |
| `active` | `activeMigrations`, a map of the process |
| `worker` | the goroutines: host, place, copy of the status from their start, items left, result |
| `issues`, `rows` | issues on GitHub per item; rows of `work_item_migrations` |
| `raced` | not in the code: issues that were created while another goroutine had created the item's and not yet written its row |
| `Reconcile` | one action per early return and per phase, from the cached Get to the one write |
| `Work` | `performMigration`: `Start`, `Connect`, per item `SkipRecorded`, `CreateIssue`, `CreateFails`, `RecordItem`, callbacks (`Report`, `FinishItems`), `AddToProject`, `Complete`; it ends early in `StartGone`, `ServiceFails` and `TimeOut` |
| `Write` | a status update of the reconciler: refused when its copy is outdated |
| `ForceStatus` | `statusUpdateWithRetry`: after a conflict the whole status of the caller is put over the latest version |

The model's centre is the difference between the last two. A goroutine writes the status it read at
its start, or the one it found in the cache for a callback, over whatever the reconciler has written
since. Both read the informer's cache of their process, which may be outdated (`ReadCache`): the
reconciler at each reconcile, a goroutine at its start and at each callback.

A *mishap* is a crash of a process, a time-out of the migration, a failed or lost call to GitHub,
PostgreSQL or the API server. `mishaps` counts them so that properties can say what one of them may
cost. `MaxEdits`, `MaxLags` and `MaxMishaps` bound the user's changes, the outdated reads and the
mishaps, `MaxUpsets` all of them together.

### Runs

| Run | What it explores | Checked |
|---|---|---|
| `WorkSafety` | one replica, two items, a filter that widens or narrows, PostgreSQL; any two of a user's change (filter or deletion), an outdated read and a mishap, at any step | `TypeOK`, `IssuesWithinMishaps`, `CopiesHaveIssues`, `CompletedCovers` |
| `WorkLiveness` | one item, the same changes, outdated reads and mishaps, fair specification | `RunningEnds`, `DeletionFinishes` |
| `WorkDuplicates` | one outdated read, no change and no mishap | `OneWorker`, which TLC finds violated |

What they show. An item gets a second issue only for a mishap between its creation and its row, one
issue per mishap, or from a second goroutine in that window (`IssuesWithinMishaps`): neither a
restart nor a retry nor an outdated list costs one. Whatever is forced over what, an item that is
listed as migrated has its issue (`CopiesHaveIssues`). When the migration is Completed with its
present filter observed, items without an issue are those whose creation failed (`CompletedCovers`).
A Running migration ends, with outdated copies forced back and after a crash too, unless a mishap has
abandoned it in one of the ways that `Abandoned` lists. A deleted migration goes in every phase,
unlike the one of section 3: the restart of a changed spec comes first here too, but it leaves a
phase that is requeued.

**`OneWorker` does not hold.** The comment on `activeMigrations` says that it tracks goroutines "to
prevent duplicates" (`workitemmigration_controller.go:31`). In the run the goroutine starts right
after the phase was written, reads a copy from before (`:623`), and `statusUpdateWithRetry` (`:872`)
forces its phase, Validating, over Running. The next reconcile validates once more and starts a second
goroutine (`:259`, which stores the key without looking for it). Both work on the same items, and the
rows of PostgreSQL are looked up before the issue is created and written after it: that is why `raced`
stands in `IssuesWithinMishaps`, although `cmd/main.go:189` announces "duplicate prevention enabled".
Two replicas that resume one migration do the same without an outdated read (`:291`).

What else the code does, seen while modelling: an older list of migrated items can be forced over a
newer one in the same way, and later runs then rely on the rows alone; a Running migration whose filter
was edited is never resumed after its goroutine died, because each reconcile sets the time of the last
reconcile in memory first (`:72` to `:76` before `:277` to `:282`), and one at 100 per cent is not
either (`:272`, `:275`), where the comment at `:828` expects as much; a failure of the
run is retried when its text happens to hold a word such as "waiting" (`:142`); a filter that selects
nothing ends in an empty list of migrated items (`:1540`); the list is written at the end only (`:789`),
although `workitem_progress.go:34` speaks of checkpoints; the final status counts no failures
(`workitemmigration_controller.go:787`); items skipped because of their row are missing in
`MigratedItems` (`workitem_progress.go:475`).

### Bounds

Two items are the least for which "some of them" differs from "none" and "all": one created and one
left, one failed and one recorded, a filter that widens or narrows. Liveness asks nothing of the
number of items, so one is enough there, and an edit is a new generation with the same filter. Two
names for goroutines are the least that race; a name is free again when its goroutine ends, so any
number run one after the other. Two upsets at any steps are an edit and a crash, an outdated read and
an edit, an outdated read and a lost write: each pair of kinds meets in every order. `mishaps`, `lags`
and `edits` are bounded one by one at 1; the theorems have no bound.

### Fairness

`CacheSync` and `Reconcile` are weakly fair: a process that runs gets its watch events and takes its
keys. `Resume` is strongly fair: the reconcile of a Running migration without a goroutine is requeued
every thirty seconds until five minutes have passed, which they do, as nothing else writes
LastReconcileTime while the generation is observed. Where it is not observed `Resume` is disabled, as
in the code, and fairness says nothing. `Advance`, a step of a goroutine that changes the goroutine,
is strongly fair: its calls have time-outs, and a callback cannot be the only thing it does for ever.
Dependencies need not ever get ready, so nothing is claimed of Validating.

### Proofs

`WorkItemMigrationProofs` proves for any replicas, goroutines, items, filters, edits, outdated reads
and mishaps:

* `WorkTypeCorrect` — the type invariant.
* `WorkCopies` — `CopiesHaveIssues`. That the list in the object is true is not inductive: a goroutine
  may force a copy of the status it took long ago, a callback one from the cache. The invariant says
  it of every copy there is (caches, statuses and results of goroutines, the item between creation and
  record, and the rows, since an item with a row is not created again). Issues are never taken back,
  so each write, forced or not, only moves a true list.
* `WorkCovers` — `CompletedCovers`. The invariant `Covering` follows the promise from the object into
  every copy from which a status may be written: a copy of generation *g* that says Completed covers
  the filter of *g* (a generation has one filter), and what a goroutine still has to do, together with
  what has an issue, leaves out no more items than there were mishaps.
* `WorkBudget` — `IssuesWithinMishaps`, with PostgreSQL (`Tracked`). The invariant `Budget` is stronger
  by one: all issues of an item are paid for with mishaps and races, except the one that its row, or a
  goroutine between creation and row, remembers. It needs no assumption on how many goroutines there
  are or on what they have read.

They rest on `WorkConstants`. Only model-checked: the liveness properties.

### Abstractions

The outcome of the validation is a choice, as are tokens and connections (`Start`, `ServiceFails`) and
whether the text of a failure holds a word that makes it transient (`FailTo`).
The counts of `Progress`, statistics, cleanup of secrets, batches and their delays are left out, and so are the
additions to a project beyond the write they make (section 7 has them). The lookup of a row and the creation of the issue
are one step; two of them interleave between creation and record. A goroutine that has looked up the
row and waits for the answer of GitHub while another one writes its row is counted there as well.
PostgreSQL failing to answer a lookup is a mishap per item (`Unseen`). The second callback, before the
items are discovered, writes what the first one wrote. A forced write that is refused five times is a
mishap that loses it. A goroutine whose time is over ends at once: all its writes carry the context
that is over.


## 5. The MonoRepoMigration reconciler

### Modules

`MonoRepoMigration` models `monorepomigration_controller.go` with the git commands of
`services/monorepo_migration.go` and the handlers of `internal/api/monorepo_handlers.go`.

| Model | Code |
|---|---|
| `obj` | the custom resource: generation, finalizer, annotations (`notes`), `continueOnError`, phase, phase per repository, the counters of `updateProgressSummary` |
| `cache`, `synced`, `queued` | informer copy, whether it is current, the work queue of each replica |
| `disk` | the workspace `/tmp/migrations/monorepo-<name>` of each replica: bare clones, working copies (not there, cloned, rewritten), the monorepo with what was merged into it, the remotes that a failed command left behind, and whether the process remembers the workspace |
| `hub` | the repository on GitHub: what was pushed into it |
| `Reconcile` | one action per early return and per phase: `AddFinalizer`, `RemoveFinalizer`, `Trigger`, `Pause`, `Cancel`, `Retry`, `InitializeStatus`, `ProcessPending` … `ProcessPushing` |
| `Crash`, `CrashAtWork` | the container is killed, between two reconciles or between two git commands; with the pod the disk goes too |

A reconcile is one step over the cached copy: what it does on disk and on GitHub, then one write of
the status, which lands or is refused; the effects of a refused write stay. The event filter passes
changes of generation, finalizers and the deletion only, so `queued` tells who wakes the reconciler.

### Run

`MonoSafety`: one replica, two repositories, outdated reads, two calls of users, three mishaps, fair
specification. `PushedHoldsCompleted`: a Completed migration has every repository that it reports as
Completed in the monorepo on GitHub, although the stages are driven by the status and the content is
on a disk. `MergedAreRewritten`: a working copy left by a rewrite that was cut short is never merged
as it is. `Settles`: every migration comes to an end, is paused or is deleted.

Two repositories are the least that can be in different stages, three mishaps let one command be cut
short, its write be refused and the repetition fail, and two calls of users pause and resume, or
cancel and retry. With two replicas, as in
`config/manager/worker-deployment.yaml` without leader election, both safety properties are false:
each replica has a part of the work on its own disk, and the status of one drives the merge and the
push of the other. The run and the proofs are about one replica. `Nested` (repositories that contain a directory named like
their own subdirectory) is empty in the run: for such a repository the test of
`RewriteRepoToSubdirectory` takes a clone for a rewritten one, and `MergedAreRewritten` does not
hold. `CacheSync` and `Reconcile` are weakly fair: watches deliver, queues are worked off. Calls of
users, crashes and refused writes are bounded and unfair.

### Proofs

`MonoRepoMigrationProofs` proves for one process (`OneProcess`) and any repositories, parallelism,
outdated reads, calls of users and mishaps:

* `MonoInvariant` — the inductive invariant `MonoInv`. That GitHub has what a Completed migration
  reports says nothing of the steps that lead there. `Local` says what the disk has to hold for what
  the object reports, and for what the cached copy is about to make it report: the monorepo on the
  disk holds every repository that is Completed, and is there unless the stage that begins it is yet to
  run from a copy that reports nothing; a working copy that counts as rewritten is. `Published` says it
  of GitHub, `Fresh` that a copy which counts as current is the object, so that a write that is
  accepted is one over the object that was read.
* `MonoPushed` — `PushedHoldsCompleted`, the part of `Published` about GitHub.
* `MonoRewritten` (`Nested` empty) — `MergedAreRewritten`.

They rest on `MonoAssumption`. `Settles` is only model-checked.

Seen while modelling: the workspace is removed before the write of Completed, so a refused write ends
in Failed although GitHub has everything; a retry removes the workspace and lets the repositories
that were already cloned, rewritten or merged keep their phase, so the work on them fails.

Abstracted: the history that git-filter-repo writes, contents, sizes and percentages.

## 6. The BatchMigration reconciler

### Modules

* `BatchClaim` — the promise: a batch has at most one holder, changes hands by way of nobody, only
  a holder records progress, progress is never lost, and a batch completes with everything done that
  is wanted of it then. What is wanted may change at any time (`Ask`).
* `BatchMigration` — the program: workers with names of host and process (`WorkerID`), the Get from
  the informer cache, the claim, the loop over the resources with a write after each, renewal,
  staleness, retry. This controller has no event filter, so every version that reaches a cache
  (`CacheSync`) wakes its worker. `User` edits the spec, which adds, removes or replaces resources,
  or changes something the worker does not read. Outcomes are recorded by source name. Time is
  `Tick`: a lease is fresh, due for renewal or expired. `Crash` restarts a container under its name
  or replaces the pod, which has another.

| Model | Code |
|---|---|
| `obj`, `cache`, `synced` | the custom resource, each worker's informer copy of it, whether that is the latest version |
| `mem`, `current` | the copy of each reconcile, whether the API server would accept its write |
| `Get`, `InitializeStatus`, `ClaimBatch`, `LeaveAlone`, `ProcessClaimed`, `EnterLoop`, `ProcessResource`, `CompleteBatch`, `MarkStale`, `ProcessStale`, `ProcessRetrying` | the functions of these names in `batchmigration_controller.go` (`Get`: the read at line 69); `EnterLoop` with `renewLease`, `ProcessResource` with `markResourceCompleted`, `markResourceFailed` and `updateProgress` |
| `statuses`, `Processed`, `Marked` | `resourceStatuses`, found by `SourceName` alone as in `isResourceProcessed` |
| `ran` | how often a resource of that name was migrated |

The retry policy is a constant: it is read from the spec, but an edit of it is not modelled. The
resources of a spec are a set in a fixed order.

### Run

`BatchSafety`, of a fair specification: two workers; three resources, of which the batch is created
with the first two, which share a source name, and an edit replaces the first by the third, which
has another name; one retry; one replaced pod; one trouble (`MaxTroubles`), which is an edit, a
failed call, a crash, or an outdated read that shows a worker a batch to work on. Outdated reads of
another kind are not bounded. There are 1,156,845 states.

* `OneWriter`: a worker in the loop whose writes would be accepted holds the batch and has every
  recorded outcome in its copy. Two workers may be in the loop at once: a worker whose lease
  expired and was retried by itself after a restart, or that reads its cache before its own last
  write has arrived there, works on an outdated copy next to the new holder. Only its writes are
  refused.
* `RunsWithinMishaps`: the resources of one name are migrated once between them, and once more for
  each edit, failed call, crash and outdated read that leads into the loop, because a refused status
  write is only logged there.
* `ClaimSpec`: the refinement, with `wanted` the source names of the spec, `holder <- obj.owner` and
  `done` the Completed entries. It says that nothing recorded is lost to an outdated copy, and that
  a batch completes with every name its spec has at that moment, edits included.
* `Ends`: every batch ends unless the pod of its holder is replaced.

Two workers are the least that compete; with three resources there are names that two share, and
one that only an edit brings. `CacheSync`, `Reconcile` of each worker and `Tick` are weakly fair:
events arrive, queues are worked off and time passes.

Seen while modelling: only the holder looks at its lease (`batchmigration_controller.go:206`), so a
lease protects nothing and a batch whose pod was replaced is never taken over (`Orphaned`). A Failed
resource counts as processed, so a retry repeats nothing and ends as it began. Of two resources with
one source name the second is never migrated (line 470), though their types or ids differ; the
properties speak of names for that reason.

### Proofs

`BatchMigrationProofs` proves for any workers, resources, names, specs, retries, pods, edits and
mishaps, from `BatchAssumption` (finitely many workers, every resource has a name):

* `ExclusiveAlways` — the inductive invariant `Exclusive`. `OneWriter` is not inductive: a reconcile
  may have read the batch long ago, from a cache that was behind then. The invariant says who may
  hold a version of the batch in which phase; that a cache which is not behind is the batch; that a
  copy whose write would be accepted is still the batch, or, in the loop, covers every outcome of it
  and has its spec; and nothing about copies that are outdated, except that they show their worker
  the batch as its own.
* `OneWriterAlways` — `OneWriter`, from it.
* `Implements` — `ClaimSpec`: what is written over the object comes from a copy that covers it, so
  each write is a step of a holder, an acquisition or a stutter, and an edit is `Ask`.
* `RunsBounded` — `RunsWithinMishaps`. The runs of a name are a sum over a history that no copy
  keeps, so the invariant `Paid` counts what is left of it. For every name, the runs so far and the
  workers that are at it with an outdated copy (`Due`, a cardinality: each of them may run it once
  more) are at most the edits and mishaps, and one if the outcome is remembered: by the object, or
  by the copy of the worker at work whose write would be accepted. Each step is free, charged to an
  edit or a mishap, or a migration by a worker that was due or that makes the name remembered.

The liveness property `Ends` is only model-checked.

## 7. Migrations that share a project

### Modules

* `WorkItemIssues` — pure operators: which work items a filter selects (`WIQLQuery`), in which
  requests they are read (`QueryWorkItems`), whether an issue is closed (`MapState`) and which column
  it gets (`MapAdoStateToProjectStatus`).
* `ProjectDependency` — the GitHubProject reconciler and two work-item migrations that name its
  project: `project`, `cache`, `synced`, `queued`, `pc`, `mem`, `current` are the custom resource and
  the reconciles of each replica; `wi` the phase of each migration and what it waits for; `repo` the
  target repository, which a repository migration may still bring; `made`, `fields`, `joined` what is
  on GitHub. `StartCreation` writes Creating before `CreateProject` calls GitHub; `RecordProject`
  writes what came of it. `CreateProjectObject`, `CheckRepository`, `CreateTargetRepository`,
  `RetryFailed`, `FailMigration` and `AddIssuesToProject` are the validation, the retry of a failed
  dependency and the additions of a migration. `CollectGarbage` is the cluster, which removes what a
  deleted migration owned.

### Run

`ProjectSafety`: two replicas, two migrations, three items (one for each rule about states), one
trouble: something a user does, a failed call or a crash. `ProjectsWithinAttempts`: replicas,
outdated copies and crashes never create a second project, because Creating is written first.
`CompletedJoined`: with no trouble a completed migration has an issue, closed or in its column where
that is asked for, for each item its filter selects — no matter how items fall into requests
(`FetchSize`) and chunks (`ChunkSize`, 195 and 25 in the code, 2 here: one more than one item, one
less than three). `Proceeds`: a migration that waits starts or gives up, unless the project failed or
was cut short, the repository is still on its way, or its token is missing. `MCInit` leaves out
combinations that differ in nothing: one migration at least still validates, and either the project
is there or both migrations can do everything else. Fair are watches, queues, waiting migrations and
the garbage collection; users and the migration that brings the repository owe nothing.

Seen while modelling: the team filter selects the project's own area instead of the team's
(`workitem_progress.go:58` has "team as area path"); filters by iteration, tag and assignee are
accepted and not part of the query; a project that a migration created asks for no status field, so
columns are never set in it; a status field is looked up by the name in the present spec; state
"Done" is put into column Resolved and its issue stays open; a service principal passes the
validation and fails the run; issues of a run before a restart are not added to the project; one
failed request ends the additions, and the migration completes.

### Proofs

`ProjectDependencyProofs` proves for any finite set of replicas, any migrations, items and bound on
troubles, from `ProjectAssumption`:

* `BudgetKept` — the inductive invariant `Budgeted`. That no more projects are made than asked for is
  not inductive: two replicas may both have read the custom resource before either begins. The
  invariant counts: the projects made, the replicas about to make one (`AtWork`) and the custom
  resource while it lets a replica begin (`Open`) are together no more than the custom resources
  created and the attempts asked for. A replica that begins turns Open into AtWork because the write
  of Creating is accepted for the latest version only, and of that `Faithful` says that the copy
  agrees with the object in what decides.
* `OneProjectEach` — `ProjectsWithinAttempts`, which follows.

* `IssuesJoined` — `CompletedJoined`, for any items, filters, `FetchSize` and `ChunkSize`. Its
  invariant `Undisturbed` says what there is as long as nobody makes trouble. Every version of the
  custom resource, cached or being worked on, however old, is `Quiet` (never edited or deleted) and
  belongs to the one project: a version that is Ready carries that project's number, and has a status
  field just when the project on GitHub has one (`Version`). A replica that has created the project
  and not yet written Ready holds the same facts in its copy (`CreatesWell`). A migration that runs
  was started from a Ready version, so its cached copy is Ready still, and one that is completed has
  its issues joined (`RunsWell`). That nothing is Ready before the project is made (`NothingReady`)
  and that it is made only once (`MadeOnce`, from `Budgeted`) carry the step of `CreateProject`; that
  no owner is gone rules out the garbage collection. Once there was trouble the invariant claims
  nothing, and trouble is never taken back (`KnownKeeps`).

What the requests and chunks amount to needs no induction over sequences: the positions are counted.
Every position lies in the batch that begins at its multiple of `FetchSize` (`BatchesCover`), the
members of a finite set of positions are put in order by counting the smaller ones (`AllInOrder`),
so `QueryWorkItems` returns the wanted items, all of them (`FetchesWanted`), and
`BatchAddIssuesToProject` has room for all issues (`AllAdded`).

The theorems rest on `ProjectAssumption` and `WorkItemIssuesAssumption`; the set of replicas has to be
finite because replicas are counted. `IssuesJoined` has the hypothesis `ColumnsForStates`: the options
of the status field have a column for the state of every item but Blocked, as in the run. With other
options an issue without a column of its own is left without one, which is what the code does. Only
model-checked: the liveness property `Proceeds`.

## 8. Controllers that follow one pattern

### Modules

* `StatusObject` — an object with a status and the replicas that reconcile it: cached copies, work
  queues, `Handle` (at most one new version per reconcile), `Ignore`, the finalizer, edits, deletions
  and crashes.
* `PipelineConversion` — `pipelinetoworkflow_controller.go`: entries per pipeline, the phases
  Pending, Analyzing, Converting, Validating, the restart of an edited conversion.
* `PipelineDiscovery` — how its pipelines are found: by token or as a service principal, the folder
  and name filters, the limit shared between builds and releases, and the connection a process keeps.
* `AdoDiscovery`, `MigrationJob` — the two small ones.
* `Controllers` — an object of one of the three kinds, with the handlers of the API.

### Run

`Controllers`: two replicas with cached reads; an object of any kind with a spec of a list that has
each mistake a validation looks for, pipelines of both types and two that share an id; one trouble
(an edit, a deletion, a refused write, a crash, an expired token). `EntriesCounted`: the counters are
the numbers of entries and workflows through refused writes, repetitions and restarts, and a
conversion that goes on to the validation has converted every entry. `OwnWorkflow`: a pipeline's workflow
is of its own type although it is found by its id, as long as an id stands for one type among the
entries and the pipelines of the spec, and the spec was not edited.
`Settles`: what users and failures leave alone ends, is deleted, or waits for what never comes
(`Waiting` names it). Two pipelines are the least for "one converted, one not"; one trouble falls on
any step. Reconciles and watches are weakly fair.

Seen while modelling: pipelines that a discovery found are not stored, so one whose entry exists is
converted from the entry; a restart keeps the entries and adds none, so pipelines that an edit added
are never converted and the phase stays Converting; two workflow names may collide after
sanitizing; `ConvertPipeline` never reports an error; the workflows are pushed with the text
"placeholder-token"; a connection to ADO is kept with its first token until the process ends, under
the organization, the principal and the first four letters of the secret; the folder filter "/Team/*"
also takes "/Teams"; a discovered pipeline whose id a listed one of the other type has gets the
workflow of that one, as do two listed pipelines of both types with one id. The job's children are
made and counted by stubs.

### Proofs

`ControllersProofs` proves of a conversion, for any specs, projects and replicas and any number of
troubles, from `ConversionSpecsAssumption` and `ProjectsAssumption` (the shape of specs and of what a
project holds):

* `ConversionCorrect` — the inductive invariant `ConversionInv`. Counters that agree with the entries
  are not inductive by themselves: a reconcile writes what it makes of its *copy*. The invariant says
  that a copy whose write would be accepted is the object (`CopiesCurrent`), so every status that is
  stored is one step away from the stored one (`NextStatus` lists the steps, `ReconcileStores` shows
  that there are no others); that entries are entries, whatever was discovered; and that as long as
  the spec is the first one, a converted entry has the workflow of the pipeline its id finds.
* `CountersAgree` — `EntriesCounted`. An entry moves from one state to another at one position, which
  changes two numbers of entries by one; the conversion ends when the counters reach the total, and
  while the total is the number of positions, a set of positions with that many members has them
  all. After an edit that names new pipelines (`restartConversionForSpecChange`, lines 748-752) the
  total is another number: then the theorem keeps the counters and promises nothing of the entries.
* `WorkflowsOwned` — `OwnWorkflow`: the pipeline an id finds has the id, and the type when an id
  stands for one.

The filters are defined by the positions they keep, so that what they give is a list without an
induction. `Settles` is a liveness property and stays with TLC. The discovery and the job have no
invariant worth a theorem: their status is one counter.

## 9. The way of the code

### Modules

* `GitHosting` — repositories at both ends: branches as numbers of commits, forced and plain pushes,
  what users do meanwhile (commit, remove branches, commit on GitHub).
* `BranchFilter` — the include and exclude patterns of the settings.
* `MigrationAccess` — where a token comes from: a secret read at every use, the inline token, or a
  GitHub App whose client is kept under the App's numbers.
* `RepositoryTransfer` — one repository after another: `HandleDefaultBranchSetup`,
  `ValidateRepositoryState`, `CreateRepository`, `CloneRepository`, `PrepareForGitHub`,
  `PushBranches`, `PushTags`, `SetDefaultBranch`, `Cleanup`, `SaveResource`, `SaveFailure`. Each
  replica has directories of its own, which outlive a killed container.
* `RepositorySync` — the synchronization: `StartSync`, `SyncClone`, `SyncFetch`, `SyncPush` with a
  kept clone.
* `CodeMigration` — all of them, with crashes.

The reconciler's object is reduced to what these steps read and write; sections 3 and 9 model the
same handlers from two sides.

### Runs

`CodeMigration` (one repository, two branches and a tag, two replicas, two changes, two mishaps; six
settings: two replicas, a default branch, a GitHub App, an inline token, an exclusion of everything,
an inclusion). `MigratedWhole`: when a push has succeeded, GitHub has each kept branch and tag at the
clone's commit or a later one, and none that the patterns exclude. `NothingTakenBack`: only the
synchronization mirrors; a migration never moves a branch back or overwrites a user's commit.
`Converges`: GitHub ends as ADO is, deleted branches included, however two replicas mirror before
each other. `MCInit` gives two replicas one change and one mishap less. `Transfer` and `Synchronize`
are weakly fair for each replica that is deployed; calls have time-outs.

`CodeDefaults` (two repositories with different default branches) finds `DefaultMatchesSource`
violated: the default branch detected for the first repository is remembered for the migration and
set on the second (`adotogitmigration_controller.go:1445`), although `docs/migration-patterns.md:20`
says it is detected from the source.

Seen while modelling: a clone for the synchronization that was killed leaves a directory with a
"config" but without references, and later rounds then delete the branches on GitHub (`Converges`
leaves this case out); the mirror ignores the settings for force pushes, branches and tags; the
synchronization asks for a token of a secret, so with a GitHub App it never works; an inline token
passes the validation and fails the migration; without an ADO token no code is migrated and the
resource counts as Completed; a rotated key of an App is not read before the process restarts. A
crash during a clone leaves a directory that fails the next attempt, whose cleanup frees it.

Abstracted: large files, submodules, history rewriting, sizes, verification that only logs.

### Proofs

`CodeMigrationProofs` proves for any repositories, branches, tags, settings, replicas and bounds, from
`GitAssumption` and `AccessAssumption`:

* `CodeInvariant` — the inductive invariant `CodeInv`. `MigratedWhole` speaks of the end of a push;
  what makes it true was done before, while other replicas pushed clones of the same repository that
  may be older or newer, and users moved branches. So the invariant follows a replica from the clone
  to the end: its repository is there and its clone is of that repository (`Prepared`); each kept
  branch that is no longer left to be pushed, and then each tag, is on GitHub at the clone's commit,
  at a later one, or at one of GitHub's users (`Pushed`); a repository that is not there is empty, and
  one that is there has no branches but those the patterns keep (`Admitted`). All of this holds until
  the migration is over, for then a replica may mirror; `Latest` says that a copy from which the phase
  could be written is one of a running migration, so that nobody turns Syncing back.
* `MigratedAlways` — `MigratedWhole`, which follows.
* `NeverTakenBack` — the action property `NothingTakenBack`: creating a repository empties nothing
  because there was none (`Admitted`), a push moves what it moves forward (`PushMoves`), and only
  the repository a replica mirrors may lose what it has.

The argument for other replicas is one lemma (`Stays`): what has arrived stays arrived as long as
references only move forward. `Converges`, a liveness property, is only model-checked.

## 10. Services

### Modules

`OperatorApi`, `PlatformApi`, `EventHub`, `MigrationCache` and `GitHubAppToken` share nothing with
one another; `Services` has one of them take steps in each behaviour, so one run and one set of
theorems serve all.

| Model | Code |
|---|---|
| `OperatorApi`: `object`, `secret` in the cluster, `cache`, `cachedSecret` of the operator, `request` of each client; `CreateSecret`, `UpdateSecret`, `CreateObject`, the orders, `Finalize` | `internal/api/migration_handlers.go` and the like; reads through the manager's cache |
| `OperatorApi.AdoPhase`, `NextPhases`, `Restarts`, `Trigger` | the phases of `adotogitmigration_controller.go`, in short: a changed spec (lines 209–217) or a trigger (353–368) starts an ended migration again, pause and cancel are obeyed in every phase (388–397), and `processPaused` stays paused. `AdoMigration` has the handlers |
| `PlatformApi`: `vault` (secrets of users), `rows` (the table), `creds` (credentials per migration), `job` of each request | `internal/platform`: store, validate, create, pause, resume, cancel, retry, delete. `cmd/platform/main.go` gives the orchestrator no client for a cluster, so `client` is a choice |
| `EventHub`: `hub` (which of the three), `loop`, `members`, `todo`, `buffer`, `closes`, `reader`, `writer` | the loops, read and write pumps of `internal/websocket`, `internal/server/websocket.go` and `internal/api/sse_handlers.go` |
| `MigrationCache`: `entries`, `clock` | `internal/cache/migration_cache.go` |
| `GitHubAppToken`: `expiry`, `user`, `time` | `services/github_app.go` |

### Run

`Services`: two creations of one name with orders, edits, deletions and a failed call; three requests
to the platform; two browsers with a buffer of one; three migrations in a cache for two; two
goroutines that use a token. The requests differ in their names only, so they are symmetric.
`SecretFirst`, `OrdersFitPhase` (of the operator's API), `CredentialsMatch` (of the platform),
`ClosedOnce` (of the hubs), `RunningKept` (of the cache), `TokenGood` (of the token). Two clients are
the least that share a secret; three requests let a deletion run between a creation's two writes
while a secret changes; a buffer of one is full after one message; no liveness is claimed, since the
manager's loop may be stuck and requests may fail.

Seen while modelling: the manager's broadcast asks, for a client whose buffer is full, for the write
lock while it holds the read lock, and its loop is stuck for good (`websocket/manager.go:115`); a
message read from a client whose channel is closed ends the process (`crashed`); the platform writes
rows and no custom resources; nothing in the program fills the migration cache; a cleanup of a
work-item migration removes the secret that migrations of other kinds with its name refer to.

### Proofs

`ServicesProofs` proves for any clients, requests, browsers, goroutines, buffers and bounds, from
`ApiAssumption`, `PlatformAssumption` (a key that is stored is not one that is absent) and
`TokenAssumption` (a refresh is answered within `MaxDelay`, and a token lives longer than that and the
margin together):

* `ServicesInvariant` — the conjunction of four inductive invariants, each kept by the steps of its
  service and left alone by those of the others.
* `SecretAlwaysFirst` — `SecretFirst`. The invariant says it also of who is about to refer to the
  secret and of the cached copies that handlers write back.
* `CacheCoherent` — a cached object of the operator that is the latest version is the object. From it,
  `OrdersAlwaysFit` — `OrdersFitPhase`: a write that is accepted is one over the phase that the handler
  has looked at.
* `CredentialsAlwaysMatch` — `CredentialsMatch`. The invariant `PlatformInv` follows a creation and a
  deletion through their calls: who goes on to store credentials has read a secret that has a key
  (`VaultFilled`, `Prepared`), what is in the table was made and keeps its credentials until it is
  withdrawn, and a deletion that is past them has deleted them or seen a call fail (`Matched`).
* `CacheWithinCapacity` and `CacheKeepsRunning` — with room for one entry or more, the cache stays
  within its capacity and keeps what runs (`RunningKept`). With `MaxEntries` 0 the eviction finds
  nothing and the property is false; nothing in the code refuses that capacity.
* `HubClosesOnce` — `ClosedOnce`: who is registered, or about to be, has an open channel, and only a
  loop that broadcasts has anybody left to reach.
* `TokenAlwaysGood` — `TokenGood`: what others store while a goroutine refreshes cannot be older than
  the time it has waited.

## 11. Not modelled

* **Status updater and batcher, retry handler, parallel processor** (`status.go`, `retry_handler.go`,
  `errors.go`, `parallel_processor.go`): no production code builds or calls them.
* **Migration advisor** (`internal/smart`): nothing imports it.
* **Rate limiting**: delays only; time is abstracted in every model.
* **Logging and naming helpers, metrics, events, percentages and statistics**: they decide nothing.
* **Clients of GitHub and ADO**: the calls reconcilers make are choices of the actions that make them,
  failures and lost answers included; decoding and read-only listings are left out.
* **Operator process** (`cmd/main.go`): flags and wiring. Which controllers run, and that there is no
  leader election, are assumptions of the models.
* **Generated code** (`zz_generated.deepcopy.go`), the web interface, charts and deployment files.

Parts marked "partly" in `PROJECT.json` have their controlling state modelled; the note of each names
what is left out.
