-------------------------- MODULE WorkItemMigration --------------------------
(***************************************************************************)
(* The WorkItemMigration reconciler and the goroutines it starts.  The     *)
(* reconciler moves the phase with writes the API server refuses when its  *)
(* copy is outdated.  A goroutine creates the issues and writes the status *)
(* through a retry that puts its own copy over whatever is there.  Both    *)
(* read the informer's cache of their process.                             *)
(***************************************************************************)
EXTENDS Integers, FiniteSets

CONSTANTS
    Replicas,    \* operator processes, without leader election
    Workers,     \* names for goroutines; as many may be alive at once
    Items,       \* work items in Azure DevOps
    Specs,       \* filters the user may write: the items each of them selects
    Tracked,     \* PostgreSQL tracking is enabled and reachable
    MaxEdits,    \* bound on user changes
    MaxLags,     \* bound on reads of an outdated copy
    MaxMishaps,  \* bound on crashes, time-outs, failed calls and lost writes
    MaxUpsets    \* bound on all of these together

ASSUME WorkConstants ==
    /\ Replicas # {} /\ IsFiniteSet(Items)
    /\ Specs \subseteq SUBSET Items /\ Specs # {}
    /\ Tracked \in BOOLEAN
    /\ MaxEdits \in Nat /\ MaxLags \in Nat /\ MaxMishaps \in Nat /\ MaxUpsets \in Nat

VARIABLES
    obj,      \* the WorkItemMigration in the API server
    cache,    \* per replica: the informer's copy
    synced,   \* per replica: the copy is the current version
    queued,   \* per replica: the key is in the work queue
    active,   \* per replica: activeMigrations holds the key
    worker,   \* the goroutines
    issues,   \* per item: issues created for it on GitHub
    rows,     \* per item: its row in work_item_migrations
    raced,    \* issues created while another goroutine's was still unrecorded
    lags,     \* reads of an outdated copy so far
    edits, mishaps

vars == <<obj, cache, synced, queued, active, worker, issues, rows, raced, lags, edits, mishaps>>

Phases == {"", "Pending", "Validating", "Running", "Completed", "Failed"}
Terminal == {"Completed", "Failed"}

\* full: Progress.Percentage is 100; items: MigratedItems; retry: ErrorMessage
\* has words of a failure that passes.  The counts of Progress are left out.
Status == [phase : Phases, obs : Nat, full : BOOLEAN,
           items : SUBSET Items, retry : BOOLEAN]

Object == [exists : BOOLEAN, gen : Nat, spec : Specs, fin : BOOLEAN,
           deleting : BOOLEAN, st : Status]

NoStatus == [phase |-> "", obs |-> 0, full |-> FALSE, items |-> {},
             retry |-> FALSE]

\* A goroutine: its process, its place, its copy of the status and the filter,
\* the items left, those in the result and the item at hand.
Goroutine == [host : Replicas, st : Status, spec : SUBSET Items,
              at : {"free", "start", "connect", "work", "record", "project", "final"},
              todo : SUBSET Items, done : SUBSET Items, item : SUBSET Items]

NoWork == [host |-> CHOOSE r \in Replicas : TRUE, at |-> "free", st |-> NoStatus,
           spec |-> {}, todo |-> {}, done |-> {}, item |-> {}]

Init ==
    /\ \E s \in Specs : obj = [exists |-> TRUE, gen |-> 1, spec |-> s, fin |-> FALSE,
                               deleting |-> FALSE, st |-> NoStatus]
    /\ cache = [r \in Replicas |-> obj]
    /\ synced = [r \in Replicas |-> TRUE]
    /\ queued = [r \in Replicas |-> TRUE]
    /\ active = [r \in Replicas |-> FALSE]
    /\ worker = [w \in Workers |-> NoWork]
    /\ issues = [i \in Items |-> 0]
    /\ rows = [i \in Items |-> "none"]
    /\ raced = 0 /\ lags = 0 /\ edits = 0 /\ mishaps = 0

-----------------------------------------------------------------------------
(* The API server, the user, the informers.                                *)

\* An edit, an outdated read or a mishap more is within the common bound.
CanUpset == edits + lags + mishaps < MaxUpsets

Mishaps(n) ==
    /\ mishaps + n <= MaxMishaps /\ (n > 0 => CanUpset)
    /\ mishaps' = mishaps + n
Mishap == Mishaps(1)

\* A write that lands makes every copy outdated.
Store(o) == obj' = o /\ synced' = [r \in Replicas |-> FALSE]

EditFilters ==
    /\ obj.exists /\ edits < MaxEdits /\ CanUpset
    /\ \E s \in Specs : Store([obj EXCEPT !.spec = s, !.gen = @ + 1])
    /\ edits' = edits + 1
    /\ UNCHANGED <<cache, queued, active, worker, issues, rows, raced, lags, mishaps>>

Delete ==
    /\ obj.exists /\ ~obj.deleting /\ edits < MaxEdits /\ CanUpset
    /\ Store([obj EXCEPT !.deleting = TRUE, !.gen = @ + 1, !.exists = obj.fin])
    /\ edits' = edits + 1
    /\ UNCHANGED <<cache, queued, active, worker, issues, rows, raced, lags, mishaps>>

\* The watch delivers the object and the event; there is no event filter.
CacheSync(r) ==
    /\ ~synced[r]
    /\ cache' = [cache EXCEPT ![r] = obj]
    /\ synced' = [synced EXCEPT ![r] = TRUE]
    /\ queued' = [queued EXCEPT ![r] = TRUE]
    /\ UNCHANGED <<obj, active, worker, issues, rows, raced, lags, edits, mishaps>>

\* The process restarts: queue, goroutines and activeMigrations are lost.
Crash(r) ==
    /\ Mishap
    /\ cache' = [cache EXCEPT ![r] = obj]
    /\ synced' = [synced EXCEPT ![r] = TRUE]
    /\ queued' = [queued EXCEPT ![r] = TRUE]
    /\ active' = [active EXCEPT ![r] = FALSE]
    /\ worker' = [w \in Workers |-> IF worker[w].host = r THEN NoWork ELSE worker[w]]
    /\ UNCHANGED <<obj, issues, rows, raced, lags, edits>>

\* A cached Get returns the copy, outdated or not.
ReadCache(r) ==
    \/ synced[r] /\ UNCHANGED lags
    \/ ~synced[r] /\ lags < MaxLags /\ CanUpset /\ lags' = lags + 1

-----------------------------------------------------------------------------
(* Reconcile: from the cached Get, which may return an outdated copy, to   *)
(* its one write.                                                          *)

Taken(r) == queued[r] /\ ReadCache(r)
Restarts(o) ==
    o.exists /\ o.st.obs # 0 /\ o.st.obs # o.gen /\ o.st.phase \in Terminal
PastRestart(o) == o.exists /\ ~Restarts(o)
InPhase(o, phase) ==
    PastRestart(o) /\ ~o.deleting /\ o.fin /\ o.st.phase = phase

\* The status with the generation observed, in memory until the next write.
Observed(o) == [o.st EXCEPT !.obs = o.gen]

Refused(r) ==
    /\ \/ ~synced[r] /\ UNCHANGED mishaps
       \/ Mishap
    /\ UNCHANGED <<obj, synced>>

\* Write and return; a refused write is returned as an error and retried.
Write(r, o, again) ==
    /\ \/ synced[r] /\ Store(o) /\ UNCHANGED mishaps
          /\ queued' = [queued EXCEPT ![r] = again]
       \/ Refused(r) /\ UNCHANGED queued
    /\ UNCHANGED <<cache, active, worker, issues, rows, raced, edits>>

WriteStatus(r, s, again) == Write(r, [cache[r] EXCEPT !.st = s], again)

ReturnOnly(r, again) ==
    /\ queued' = [queued EXCEPT ![r] = again]
    /\ UNCHANGED <<obj, cache, synced, active, worker, issues, rows, raced, edits, mishaps>>

\* activeMigrations.Store and the go statement.
Spawn(r) ==
    /\ \E w \in Workers :
          /\ worker[w].at = "free"
          /\ worker' = [worker EXCEPT ![w] = [NoWork EXCEPT !.host = r, !.at = "start"]]
    /\ active' = [active EXCEPT ![r] = TRUE]

NotFound(r) == Taken(r) /\ ~cache[r].exists /\ ReturnOnly(r, FALSE)

RestartForSpecChange(r) ==
    /\ Taken(r) /\ Restarts(cache[r])
    /\ WriteStatus(r, [Observed(cache[r]) EXCEPT !.phase = "Pending", !.retry = FALSE], TRUE)

AddFinalizer(r) ==
    /\ Taken(r) /\ PastRestart(cache[r]) /\ ~cache[r].deleting /\ ~cache[r].fin
    /\ Write(r, [cache[r] EXCEPT !.fin = TRUE], FALSE)

\* Mutant: the finalizer is removed with a status update, which ignores it.
RemoveFinalizerInStatus(r) ==
    /\ Taken(r) /\ PastRestart(cache[r]) /\ cache[r].deleting
    /\ IF cache[r].fin THEN Write(r, cache[r], FALSE) ELSE ReturnOnly(r, FALSE)

RemoveFinalizer(r) ==
    /\ Taken(r) /\ PastRestart(cache[r]) /\ cache[r].deleting
    /\ IF cache[r].fin THEN Write(r, [cache[r] EXCEPT !.fin = FALSE, !.exists = FALSE], FALSE)
       ELSE ReturnOnly(r, FALSE)

InitializeStatus(r) ==
    /\ Taken(r) /\ InPhase(cache[r], "")
    /\ WriteStatus(r, [Observed(cache[r]) EXCEPT !.phase = "Pending", !.full = FALSE], TRUE)

ProcessPending(r) ==
    /\ Taken(r) /\ InPhase(cache[r], "Pending")
    /\ WriteStatus(r, [Observed(cache[r]) EXCEPT !.phase = "Validating"], TRUE)

\* Validation waits for a dependency, or fails, for good or with a message
\* that is taken for a transient one later.
ValidationFails(r) ==
    /\ Taken(r) /\ InPhase(cache[r], "Validating")
    /\ \/ WriteStatus(r, [Observed(cache[r]) EXCEPT !.retry = FALSE], TRUE)
       \/ \E transient \in BOOLEAN :
             WriteStatus(r, [Observed(cache[r]) EXCEPT !.phase = "Failed", !.retry = transient],
                         FALSE)

\* The goroutine is started only when the write of the phase has landed.
ValidationPasses(r) ==
    /\ Taken(r) /\ InPhase(cache[r], "Validating") /\ synced[r]
    /\ Store([cache[r] EXCEPT !.st = [Observed(cache[r]) EXCEPT !.phase = "Running",
                                                              !.retry = FALSE]])
    /\ Spawn(r)
    /\ UNCHANGED <<cache, queued, issues, rows, raced, edits, mishaps>>

\* processRunning before five minutes have passed, or with a goroutine.
StillRunning(r) ==
    /\ Taken(r) /\ InPhase(cache[r], "Running") /\ ~cache[r].st.full
    /\ ReturnOnly(r, TRUE)

\* Five minutes after LastReconcileTime and without a goroutine here: resume,
\* whether the write lands or not.  While the observed generation is not the
\* current one, each reconcile sets LastReconcileTime in memory first.
Resume(r) ==
    /\ Taken(r) /\ InPhase(cache[r], "Running") /\ ~cache[r].st.full /\ ~active[r]
    /\ cache[r].st.obs = cache[r].gen
    /\ \/ synced[r] /\ Store(cache[r]) /\ UNCHANGED mishaps
       \/ Refused(r)
    /\ Spawn(r)
    /\ UNCHANGED <<cache, queued, issues, rows, raced, edits>>

\* 100 per cent: the goroutine is expected to write the end of the migration.
RunningFull(r) ==
    /\ Taken(r) /\ InPhase(cache[r], "Running") /\ cache[r].st.full
    /\ ReturnOnly(r, FALSE)

RetryValidation(r) ==
    /\ Taken(r) /\ InPhase(cache[r], "Failed") /\ cache[r].st.retry
    /\ WriteStatus(r, [Observed(cache[r]) EXCEPT !.phase = "Validating", !.retry = FALSE], TRUE)

StayTerminal(r) ==
    /\ Taken(r)
    /\ InPhase(cache[r], "Completed") \/ (InPhase(cache[r], "Failed") /\ ~cache[r].st.retry)
    /\ ReturnOnly(r, FALSE)

Reconcile(r) ==
    \/ NotFound(r) \/ RestartForSpecChange(r) \/ AddFinalizer(r) \/ RemoveFinalizer(r)
    \/ InitializeStatus(r) \/ ProcessPending(r) \/ ValidationFails(r) \/ ValidationPasses(r)
    \/ StillRunning(r) \/ Resume(r) \/ RunningFull(r) \/ RetryValidation(r) \/ StayTerminal(r)

-----------------------------------------------------------------------------
(* performMigration.                                                       *)

Host(w) == worker[w].host

\* Mutant: a conflict ends the write.
ForceStatusOnce(s) ==
    \/ obj.exists /\ Store([obj EXCEPT !.st = s]) /\ UNCHANGED mishaps
    \/ UNCHANGED <<obj, synced, mishaps>>

\* statusUpdateWithRetry: after a conflict the status is put over the latest
\* version all the same.  The write is lost when the object is gone or the API
\* server fails.
ForceStatus(s) ==
    \/ obj.exists /\ Store([obj EXCEPT !.st = s]) /\ UNCHANGED mishaps
    \/ ~obj.exists /\ UNCHANGED <<obj, synced, mishaps>>
    \/ obj.exists /\ Mishap /\ UNCHANGED <<obj, synced>>

GoOn(w, next) ==
    /\ worker' = [worker EXCEPT ![w] = next]
    /\ UNCHANGED active

\* The deferred activeMigrations.Delete.
End(w) ==
    /\ worker' = [worker EXCEPT ![w] = NoWork]
    /\ active' = [active EXCEPT ![Host(w)] = FALSE]

\* The error's text may hold a word that is taken for a transient failure.
FailTo(w, s) ==
    /\ \E transient \in BOOLEAN :
          ForceStatus([s EXCEPT !.phase = "Failed", !.retry = transient])
    /\ End(w)
    /\ UNCHANGED <<cache, queued, issues, rows, raced, edits>>

\* The cached Get, the tokens and the first status write, whose answer brings
\* the latest filter when it lands.  What is left to do is what the filter
\* selects and MigratedItems does not list; a filter that selects nothing makes
\* the result empty.
Start(w) ==
    LET view == cache[Host(w)]
    IN /\ worker[w].at = "start" /\ ReadCache(Host(w)) /\ view.exists
       /\ \/ FailTo(w, view.st)
          \/ /\ ForceStatus(view.st)
             /\ \E s \in {obj.spec, view.spec} :
                   GoOn(w, [worker[w] EXCEPT !.at = "connect", !.st = view.st, !.spec = s,
                               !.todo = s \ view.st.items,
                               !.done = IF s = {} THEN {} ELSE view.st.items])
             /\ UNCHANGED <<cache, queued, issues, rows, raced, edits>>

StartGone(w) ==
    /\ worker[w].at = "start" /\ ReadCache(Host(w)) /\ ~cache[Host(w)].exists
    /\ End(w)
    /\ UNCHANGED <<obj, cache, synced, queued, issues, rows, raced, edits, mishaps>>

\* A progress callback: a cached Get, the new progress, and a forced write of
\* the whole status.  Items found or migrated clear the error message.  It does
\* nothing when the object is not in the cache.
Callback(w, items, full) ==
    LET view == cache[Host(w)].st
    IN /\ ReadCache(Host(w))
       /\ IF cache[Host(w)].exists
          THEN ForceStatus([view EXCEPT !.full = full, !.retry = @ /\ items = {}])
          ELSE UNCHANGED <<obj, synced, mishaps>>

NoCallback == UNCHANGED <<obj, synced, lags, mishaps>>

\* The first callback is never rate limited.
Connect(w) ==
    /\ worker[w].at = "connect"
    /\ Callback(w, {}, FALSE)
    /\ GoOn(w, [worker[w] EXCEPT !.at = "work"])
    /\ UNCHANGED <<cache, queued, issues, rows, raced, edits>>

\* The service returns an error: a connection or the repository before the
\* first item, a token before a batch.
ServiceFails(w) ==
    /\ worker[w].at = "work"
    /\ worker[w].todo # {} \/ worker[w].done \subseteq worker[w].st.items
    /\ FailTo(w, worker[w].st)
    /\ UNCHANGED lags

Report(w) ==
    /\ worker[w].at = "work"
    /\ Callback(w, worker[w].spec \cup worker[w].done, FALSE)
    /\ UNCHANGED <<cache, queued, active, worker, issues, rows, raced, edits>>

SkipRecorded(w) ==
    /\ worker[w].at = "work"
    /\ \E i \in worker[w].todo :
          /\ Tracked /\ rows[i] = "success"
          /\ GoOn(w, [worker[w] EXCEPT !.todo = @ \ {i}])
    /\ UNCHANGED <<obj, cache, synced, queued, issues, rows, raced, lags, edits, mishaps>>

\* Mutant: the rows are not asked.
UnseenAlways(i) == 0

\* The number of mishaps it takes not to see an item's success row.
Unseen(i) == IF Tracked /\ rows[i] = "success" THEN 1 ELSE 0

\* Another goroutine has created the item's issue and not yet its row.
Racing(w, i) == \E v \in Workers \ {w} : i \in worker[v].item

\* A history variable counts the issues that are created in that window.
CountRace(w, i) == raced' = IF Racing(w, i) THEN raced + 1 ELSE raced

CreateIssue(w) ==
    /\ worker[w].at = "work"
    /\ \E i \in worker[w].todo :
          /\ Mishaps(Unseen(i))
          /\ issues' = [issues EXCEPT ![i] = @ + 1] /\ CountRace(w, i)
          /\ GoOn(w, [worker[w] EXCEPT !.at = "record", !.item = {i}, !.todo = @ \ {i}])
    /\ UNCHANGED <<obj, cache, synced, queued, rows, lags, edits>>

\* The creation fails, or its answer is lost.
CreateFails(w) ==
    /\ worker[w].at = "work"
    /\ \E i \in worker[w].todo :
          /\ Mishaps(1 + Unseen(i))
          /\ issues' \in {issues, [issues EXCEPT ![i] = @ + 1]}
          /\ rows' = IF Tracked THEN [rows EXCEPT ![i] = "failed"] ELSE rows
          /\ GoOn(w, [worker[w] EXCEPT !.todo = @ \ {i}])
    /\ UNCHANGED <<obj, cache, synced, queued, raced, lags, edits>>

\* Mutant: the row has a status that nobody looks for.
RecordAsCompleted(w) ==
    /\ worker[w].at = "record"
    /\ \/ /\ rows' = [i \in Items |-> IF Tracked /\ i \in worker[w].item
                                      THEN "Completed" ELSE rows[i]]
          /\ UNCHANGED mishaps
       \/ Tracked /\ Mishap /\ UNCHANGED rows
    /\ GoOn(w, [worker[w] EXCEPT !.at = "work", !.done = @ \cup worker[w].item, !.item = {}])
    /\ UNCHANGED <<obj, cache, synced, queued, issues, raced, lags, edits>>

\* The item joins the result; its row is written, and an error only logged.
RecordItem(w) ==
    /\ worker[w].at = "record"
    /\ \/ /\ rows' = [i \in Items |-> IF Tracked /\ i \in worker[w].item
                                      THEN "success" ELSE rows[i]]
          /\ UNCHANGED mishaps
       \/ Tracked /\ Mishap /\ UNCHANGED rows
    /\ GoOn(w, [worker[w] EXCEPT !.at = "work", !.done = @ \cup worker[w].item, !.item = {}])
    /\ UNCHANGED <<obj, cache, synced, queued, issues, raced, lags, edits>>

\* All items seen: the last callback says 100 per cent unless it is limited.
FinishItems(w) ==
    /\ worker[w].at = "work" /\ worker[w].todo = {}
    /\ \/ Callback(w, worker[w].spec \cup worker[w].done, TRUE)
       \/ NoCallback
    /\ GoOn(w, [worker[w] EXCEPT !.at = "project"])
    /\ UNCHANGED <<cache, queued, issues, rows, raced, edits>>

\* With a project to fill, the status of the start is written once more.
AddToProject(w) ==
    /\ worker[w].at = "project"
    /\ ForceStatus(worker[w].st) \/ UNCHANGED <<obj, synced, mishaps>>
    /\ GoOn(w, [worker[w] EXCEPT !.at = "final"])
    /\ UNCHANGED <<cache, queued, issues, rows, raced, lags, edits>>

\* Mutant: the filter of the start counts as the one observed.
CompletedAsObserved(w) ==
    [worker[w].st EXCEPT !.phase = "Completed", !.full = TRUE, !.items = worker[w].done,
                         !.obs = obj.gen]

\* Mutant: the items of the filter are listed, created or not.
CompletedWhole(w) ==
    [worker[w].st EXCEPT !.phase = "Completed", !.full = TRUE, !.items = worker[w].spec]

\* The status a goroutine ends with: that of its start, with the result.
CompletedStatus(w) ==
    [worker[w].st EXCEPT !.phase = "Completed", !.full = TRUE, !.items = worker[w].done]

Complete(w) ==
    /\ worker[w].at = "final"
    /\ ForceStatus(CompletedStatus(w))
    /\ End(w)
    /\ UNCHANGED <<cache, queued, issues, rows, raced, lags, edits>>

\* The migration's time is over: nothing can be written any more.
TimeOut(w) ==
    /\ worker[w].at \in {"connect", "work", "record", "project", "final"} /\ Mishap
    /\ End(w)
    /\ UNCHANGED <<obj, cache, synced, queued, issues, rows, raced, lags, edits>>

Work(w) ==
    \/ Start(w) \/ StartGone(w) \/ Connect(w) \/ ServiceFails(w) \/ Report(w)
    \/ SkipRecorded(w) \/ CreateIssue(w) \/ CreateFails(w) \/ RecordItem(w)
    \/ FinishItems(w) \/ AddToProject(w) \/ Complete(w) \/ TimeOut(w)

Next ==
    \/ EditFilters \/ Delete
    \/ \E r \in Replicas : CacheSync(r) \/ Crash(r) \/ Reconcile(r)
    \/ \E w \in Workers : Work(w)

Spec == Init /\ [][Next]_vars

Advance(w) == Work(w) /\ worker'[w] # worker[w]

\* A running process takes its queued keys, its watch delivers, a goroutine
\* goes on (its calls have time-outs), and five minutes pass: LastReconcileTime
\* stays as it is while the generation is observed.  Nothing is assumed of the
\* user, of dependencies or of failures.
FairSpec ==
    /\ Spec
    /\ \A r \in Replicas :
          WF_vars(CacheSync(r)) /\ WF_vars(Reconcile(r)) /\ SF_vars(Resume(r))
    /\ \A w \in Workers : SF_vars(Advance(w))

-----------------------------------------------------------------------------
(* Properties.                                                             *)

\* The type invariant of the object, the caches, the goroutines and GitHub.
TypeOK ==
    /\ obj \in Object
    /\ cache \in [Replicas -> Object]
    /\ synced \in [Replicas -> BOOLEAN]
    /\ queued \in [Replicas -> BOOLEAN]
    /\ active \in [Replicas -> BOOLEAN]
    /\ worker \in [Workers -> Goroutine]
    /\ issues \in [Items -> Nat]
    /\ rows \in [Items -> {"none", "success", "failed"}]
    /\ raced \in Nat /\ edits \in 0 .. MaxEdits /\ lags \in 0 .. MaxLags
    /\ mishaps \in 0 .. MaxMishaps

Alive == {w \in Workers : worker[w].at # "free"}

\* activeMigrations is there "to prevent duplicates": a process never has two
\* goroutines for one migration, through resumes, restarts and retries.
OneWorker ==
    \A v, w \in Alive : Host(v) = Host(w) => v = w

\* With the rows of PostgreSQL an item gets a second issue only through a mishap
\* between its creation and its row (a crash, a time-out, a lost answer or a
\* failed write costs one issue at most), or from a second goroutine in that
\* window: never from a restart, a retry or an outdated list alone.
IssuesWithinMishaps == \A i \in Items : issues[i] <= 1 + mishaps + raced

Created == {i \in Items : issues[i] > 0}

\* Whatever is lost or written twice: every item MigratedItems lists, and every
\* item with a success row, has an issue on GitHub.  So has every item in a
\* copy of the list, in the caches, the goroutines and their results, any of
\* which may be written over the object later.
CopiesHaveIssues ==
    /\ obj.st.items \subseteq Created
    /\ \A r \in Replicas : cache[r].st.items \subseteq Created
    /\ \A w \in Workers :
          worker[w].st.items \cup worker[w].done \cup worker[w].item \subseteq Created
    /\ \A i \in Items : rows[i] = "success" => i \in Created

\* Completed with the filter observed: an item the filter selects is without an
\* issue only if creating it failed.
CompletedCovers ==
    obj.st.phase = "Completed" /\ obj.st.obs = obj.gen
      => Cardinality(obj.spec \ Created) <= mishaps

\* What a crash or a lost write can leave behind without a goroutine: Running
\* with the filter edited meanwhile or the progress at 100 per cent, neither of
\* which is ever resumed, or an earlier phase that an outdated copy put back.
Abandoned ==
    /\ mishaps > 0 /\ Alive = {}
    /\ \/ obj.st.phase = "Running" /\ (obj.st.full \/ obj.st.obs # obj.gen)
       \/ obj.st.phase \in {"", "Pending", "Validating"}

\* A Running migration ends, however outdated the copies are that are read and
\* forced back, and after a crash too: Completed, Failed, or gone, unless the
\* crash or a lost write abandons it.
RunningEnds ==
    obj.st.phase = "Running" ~> obj.st.phase \in Terminal \/ ~obj.exists \/ Abandoned

\* A deleted migration loses its finalizer in the end, in every phase, a
\* terminal one with an unobserved generation included.
DeletionFinishes == obj.deleting ~> ~obj.exists
==================================================
