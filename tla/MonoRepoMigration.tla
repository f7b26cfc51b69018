--------------------------- MODULE MonoRepoMigration ---------------------------
(***************************************************************************)
(* The MonoRepoMigration reconciler, the workspaces on the disks of the    *)
(* operator replicas, the repository on GitHub and the API handlers that   *)
(* edit the object: several repositories are cloned, rewritten to a        *)
(* subdirectory each, merged into one repository and pushed.               *)
(*                                                                         *)
(* A reconcile is one step over the copy in the replica's cache: what it   *)
(* does on disk and on GitHub, then one status write, which lands or is    *)
(* refused (an outdated copy, a failed call).  The effects of a refused    *)
(* write stay.  Time is abstracted: a requeue is a key in the work queue.  *)
(***************************************************************************)
EXTENDS Integers, FiniteSets

CONSTANTS
    Replicas,       \* operator processes that run this controller
    RepoCount,      \* source repositories, in the order of their priority
    Nested,         \* those with a directory named like their subdirectory
    Parallel,       \* spec.settings.parallelClones
    CleanBetween,   \* spec.settings.cleanupBetweenRepos
    StaleReads,     \* may a Get return less than the latest version?
    MaxEdits,       \* bound on the calls of the API's users
    MaxMishaps      \* bound on failed calls, failed git commands and crashes

Repos == 1 .. RepoCount

ASSUME MonoAssumption ==
    /\ RepoCount \in Nat \ {0}
    /\ Nested \subseteq Repos
    /\ Parallel \in Nat \ {0}
    /\ CleanBetween \in BOOLEAN
    /\ StaleReads \in BOOLEAN
    /\ MaxEdits \in Nat
    /\ MaxMishaps \in Nat

VARIABLES
    obj,        \* the MonoRepoMigration in the API server
    cache,      \* cache[r]: the object in replica r's informer cache
    synced,     \* synced[r]: cache[r] is the latest version
    queued,     \* queued[r]: the object's key is in r's work queue
    disk,       \* disk[r]: the workspace on r's disk
    hub,        \* the repository on GitHub
    edits,      \* calls of users so far
    mishaps     \* mishaps so far

vars == <<obj, cache, synced, queued, disk, hub, edits, mishaps>>

Terminal == {"Completed", "Failed", "Cancelled"}

\* The phase, status.repoStatuses, and completedRepos and failedRepos of
\* status.progress.
NewStatus == [phase |-> "", repos |-> [k \in Repos |-> "Pending"], done |-> 0, failed |-> 0]

\* cont: spec.settings.continueOnError; notes: the annotations that the
\* reconciler reads, "trigger", "pause", "cancel" and "retry".
NewObject == [exists |-> TRUE, gen |-> 0, fin |-> FALSE, deleting |-> FALSE,
              notes |-> {}, cont |-> TRUE, st |-> NewStatus]

\* What the git commands of the service leave on a disk.  known: the process
\* remembers the workspace in its map; bare: repos/<name>; work: repos/<name>-work,
\* "none", "plain" or "moved"; mono: the directory monorepo, with the repositories
\* that were merged, the ones among them whose files are not in a subdirectory,
\* and its remotes.
NoWorkspace == [known |-> FALSE, bare |-> {}, work |-> [k \in Repos |-> "none"],
                mono |-> FALSE, merged |-> {}, asIs |-> {},
                remotes |-> {}, origin |-> FALSE]

Init ==
    /\ obj = NewObject
    /\ cache = [r \in Replicas |-> obj]
    /\ synced = [r \in Replicas |-> TRUE]
    /\ queued = [r \in Replicas |-> TRUE]
    /\ disk = [r \in Replicas |-> NoWorkspace]
    /\ hub = [used |-> FALSE, content |-> {}, asIs |-> {}]
    /\ edits = 0
    /\ mishaps = 0

-----------------------------------------------------------------------------
(* The API server, the cache and the work queue.                           *)

Mishaps(n) == mishaps + n <= MaxMishaps /\ mishaps' = mishaps + n

Turn(r) == queued[r] /\ (synced[r] \/ StaleReads)

\* The handler went from the working copy m to the object o, at the expense of
\* cost mishaps.  m differs from the cached copy when an annotation was removed
\* by a write before: then the refused status write leaves m.
Write(r, m, o, again, cost) ==
    /\ \/ /\ synced[r]
          /\ Mishaps(cost)
          /\ obj' = o
          /\ queued' = [queued EXCEPT ![r] = again]
       \/ /\ Mishaps(cost + IF synced[r] THEN 1 ELSE 0)
          /\ obj' = IF m = cache[r] THEN obj ELSE m
          /\ queued' = [queued EXCEPT ![r] = TRUE]
    /\ synced' = IF obj' = obj THEN synced ELSE [q \in Replicas |-> FALSE]
    /\ UNCHANGED <<cache, edits>>

\* GenerationChangedWithLogging: the events that reach the work queue.
EventPasses(old, new) ==
    \/ ~new.exists
    \/ old.gen # new.gen
    \/ old.fin # new.fin
    \/ ~old.deleting /\ new.deleting

CacheSync(r) ==
    /\ ~synced[r]
    /\ cache' = [cache EXCEPT ![r] = obj]
    /\ synced' = [synced EXCEPT ![r] = TRUE]
    /\ queued' = [queued EXCEPT ![r] = @ \/ EventPasses(cache[r], obj)]
    /\ UNCHANGED <<obj, disk, hub, edits, mishaps>>

\* The process starts again: its map of workspaces is lost, and with the pod
\* the disk (lost).
Restarted(r, d, lost) ==
    /\ cache' = [cache EXCEPT ![r] = obj]
    /\ synced' = [synced EXCEPT ![r] = TRUE]
    /\ queued' = [queued EXCEPT ![r] = obj.exists]
    /\ disk' = [disk EXCEPT ![r] = IF lost THEN NoWorkspace
                                   ELSE [d EXCEPT !.known = FALSE]]
    /\ UNCHANGED <<obj, edits>>

Crash(r) ==
    /\ Mishaps(1)
    /\ \E lost \in BOOLEAN : Restarted(r, disk[r], lost)
    /\ UNCHANGED hub

-----------------------------------------------------------------------------
(* The users of the API.                                                   *)

Edited(o) ==
    /\ obj.exists
    /\ edits < MaxEdits
    /\ edits' = edits + 1
    /\ obj' = o
    /\ synced' = [r \in Replicas |-> FALSE]
    /\ UNCHANGED <<cache, queued, disk, hub, mishaps>>

UpdateMonoRepoMigration == Edited([obj EXCEPT !.cont = ~@, !.gen = @ + 1])
PauseMonoRepoMigration == Edited([obj EXCEPT !.notes = @ \cup {"pause"}])
ResumeMonoRepoMigration == Edited([obj EXCEPT !.notes = @ \ {"pause"}])
CancelMonoRepoMigration == Edited([obj EXCEPT !.notes = @ \cup {"cancel"}])
RetryMonoRepoMigration ==
    /\ obj.st.phase = "Failed"
    /\ Edited([obj EXCEPT !.notes = @ \cup {"retry"}])
\* kubectl annotate.
TriggerReconcile == Edited([obj EXCEPT !.notes = @ \cup {"trigger"}])
\* An object without the finalizer is gone at once.
DeleteMonoRepoMigration ==
    /\ ~obj.deleting
    /\ Edited([obj EXCEPT !.deleting = TRUE, !.exists = obj.fin, !.gen = @ + 1])

User == \/ UpdateMonoRepoMigration \/ DeleteMonoRepoMigration
        \/ PauseMonoRepoMigration \/ ResumeMonoRepoMigration
        \/ CancelMonoRepoMigration \/ RetryMonoRepoMigration \/ TriggerReconcile

-----------------------------------------------------------------------------
(* The reconcile up to the phase handlers.                                 *)

Cleaned(d) == IF d.known THEN NoWorkspace ELSE d    \* cleanupWorkspace
Known(d) == [d EXCEPT !.known = TRUE]               \* getWorkspace

WithoutNote(o, note) == [o EXCEPT !.notes = @ \ {note}]

\* The copy the handlers get: the retry annotation is removed by a write of its
\* own when the migration has not failed.
Copy(r) == WithoutNote(cache[r], "retry")

Alive(r) == Turn(r) /\ cache[r].exists /\ ~cache[r].deleting
PastFinalizer(r) == Alive(r) /\ cache[r].fin
PastNotes(r) ==
    /\ PastFinalizer(r)
    /\ cache[r].notes \subseteq {"retry"}
    /\ "retry" \in cache[r].notes => synced[r] /\ cache[r].st.phase # "Failed"
InPhase(r, phase) == PastNotes(r) /\ cache[r].st.phase = phase

NoWork == UNCHANGED <<disk, hub>>

\* Not found, or deleted without a finalizer: nothing to do.
Gone(r) ==
    /\ Turn(r)
    /\ ~cache[r].exists \/ (cache[r].deleting /\ ~cache[r].fin)
    /\ queued' = [queued EXCEPT ![r] = FALSE]
    /\ UNCHANGED <<obj, cache, synced, edits, mishaps, disk, hub>>

AddFinalizer(r) ==
    /\ Alive(r) /\ ~cache[r].fin
    /\ Write(r, cache[r], [cache[r] EXCEPT !.fin = TRUE], TRUE, 0)
    /\ NoWork

\* The workspace is removed first, whatever becomes of the write.
RemoveFinalizer(r) ==
    /\ Turn(r)
    /\ cache[r].exists /\ cache[r].deleting /\ cache[r].fin
    /\ disk' = [disk EXCEPT ![r] = Cleaned(@)]
    /\ Write(r, cache[r], [cache[r] EXCEPT !.fin = FALSE, !.exists = FALSE], FALSE, 0)
    /\ UNCHANGED hub

\* retryMigration: failed repositories start again, the others keep the phase
\* they reached although the workspace is removed; the counters stay.
AfterRetry(m) ==
    [m EXCEPT !.st.phase = "Pending",
              !.st.repos = [k \in Repos |-> IF @[k] = "Failed" THEN "Pending" ELSE @[k]]]

\* An annotation is removed by a first write, then the migration is retried
\* with a second one; the first write may be all that happens.
RemoveNoteThenRetry(r, note) ==
    LET m == WithoutNote(cache[r], note)
    IN \/ /\ synced[r]
          /\ disk' = [disk EXCEPT ![r] = Cleaned(@)]
          /\ Write(r, m, AfterRetry(m), TRUE, 0)
       \/ /\ obj' = obj /\ synced' = synced
          /\ Mishaps(IF synced[r] THEN 1 ELSE 0)
          /\ queued' = [queued EXCEPT ![r] = TRUE]
          /\ UNCHANGED <<cache, edits, disk>>

Trigger(r) ==
    /\ PastFinalizer(r) /\ "trigger" \in cache[r].notes
    /\ IF cache[r].st.phase \in Terminal
       THEN RemoveNoteThenRetry(r, "trigger")
       ELSE Write(r, cache[r], WithoutNote(cache[r], "trigger"), TRUE, 0) /\ UNCHANGED disk
    /\ UNCHANGED hub

\* Pausing overwrites the phase, whatever it was.
Pause(r) ==
    /\ PastFinalizer(r) /\ "trigger" \notin cache[r].notes /\ "pause" \in cache[r].notes
    /\ Write(r, cache[r], [cache[r] EXCEPT !.st.phase = "Paused"], TRUE, 0)
    /\ NoWork

Cancel(r) ==
    /\ PastFinalizer(r) /\ cache[r].notes \cap {"trigger", "pause"} = {}
    /\ "cancel" \in cache[r].notes
    /\ Write(r, cache[r], [cache[r] EXCEPT !.st.phase = "Cancelled"], FALSE, 0)
    /\ NoWork

Retry(r) ==
    /\ PastFinalizer(r) /\ cache[r].notes = {"retry"}
    /\ cache[r].st.phase = "Failed"
    /\ RemoveNoteThenRetry(r, "retry")
    /\ UNCHANGED hub

\* The removal of the retry annotation is refused.
KeepRetryNote(r) ==
    /\ PastFinalizer(r) /\ cache[r].notes = {"retry"}
    /\ cache[r].st.phase # "Failed"
    /\ Mishaps(IF synced[r] THEN 1 ELSE 0)
    /\ UNCHANGED <<obj, cache, synced, queued, edits>>
    /\ NoWork

-----------------------------------------------------------------------------
(* The phase handlers.                                                     *)

\* A paused migration looks again later; one that has ended does not.
Stay(r) ==
    /\ PastNotes(r)
    /\ Copy(r).st.phase \in Terminal \cup {"Paused"}
    /\ IF Copy(r) = cache[r]
       THEN /\ queued' = [queued EXCEPT ![r] = Copy(r).st.phase = "Paused"]
            /\ UNCHANGED <<obj, cache, synced, edits, mishaps>>
       ELSE Write(r, cache[r], Copy(r), Copy(r).st.phase = "Paused", 0)
    /\ NoWork

To(m, phase) == [m EXCEPT !.st.phase = phase]

InitializeStatus(r) ==
    /\ InPhase(r, "")
    /\ Write(r, Copy(r), To(Copy(r), "Pending"), TRUE, 0)
    /\ NoWork

\* Mutant: the status write is expected to wake the reconciler.
ProcessPendingUnqueued(r) ==
    /\ InPhase(r, "Pending")
    /\ Write(r, Copy(r), To(Copy(r), "Validating"), FALSE, 0)
    /\ NoWork

ProcessPending(r) ==
    /\ InPhase(r, "Pending")
    /\ Write(r, Copy(r), To(Copy(r), "Validating"), TRUE, 0)
    /\ NoWork

\* failMigration: written once, no requeue.
FailMigration(r, m, cost) == Write(r, m, To(m, "Failed"), FALSE, cost)

\* A secret that cannot be read, or an exchange for a token that fails.
TokenUnresolved(r, m) == FailMigration(r, m, 1)

\* An invalid configuration and an unresolved token fail the migration.
ProcessValidating(r) ==
    /\ InPhase(r, "Validating")
    /\ \/ Write(r, Copy(r), To(Copy(r), "Cloning"), TRUE, 0)
       \/ FailMigration(r, Copy(r), 0)
       \/ TokenUnresolved(r, Copy(r))
    /\ NoWork

CountOf(repos, phase) == Cardinality({k \in Repos : repos[k] = phase})

\* updateProgressSummary
Recounted(m) == [m EXCEPT !.st.done = CountOf(m.st.repos, "Completed"),
                          !.st.failed = CountOf(m.st.repos, "Failed")]

InRepoPhase(m, phase) == {k \in Repos : m.st.repos[k] = phase}

\* One repository went to another phase and the migration goes on.
Advanced(m, k, phase) == Recounted([m EXCEPT !.st.repos[k] = phase])

\* handleRepoError: without continueOnError the migration fails, and the
\* summary is not counted again.
AfterRepoError(m, k) ==
    IF m.cont THEN Advanced(m, k, "Failed")
    ELSE [m EXCEPT !.st.repos[k] = "Failed", !.st.failed = @ + 1, !.st.phase = "Failed"]

RepoError(r, m, k, cost) == Write(r, m, AfterRepoError(m, k), m.cont, cost)

\* The workspace is wiped while no repository has been cloned.
CloneDisk(r, m) ==
    IF \A k \in Repos : m.st.repos[k] = "Pending" THEN Known(NoWorkspace)
    ELSE Known(disk[r])

\* The first Parallel of the repositories that wait to be cloned.
Batch(m) == LET todo == InRepoPhase(m, "Pending")
            IN {k \in todo : Cardinality({j \in todo : j <= k}) <= Parallel}

\* The results that came before the failure that ends the migration (last, or
\* 0 if none does), in any order; every failure with continueOnError.
AfterBatch(m, failed, seen) ==
    Recounted([m EXCEPT !.st.repos = [k \in Repos |->
        IF k \notin seen THEN @[k] ELSE IF k \in failed THEN "Failed" ELSE "Rewriting"]])

ProcessCloning(r) ==
    LET m == Copy(r)
        batch == Batch(m)
        d == CloneDisk(r, m)
    IN /\ InPhase(r, "Cloning")
       /\ IF batch = {}
          THEN /\ Write(r, m, To(m, "Rewriting"), TRUE, 0)
               /\ disk' = [disk EXCEPT ![r] = d]
          ELSE \/ /\ TokenUnresolved(r, m)
                  /\ disk' = [disk EXCEPT ![r] = d]
               \/ \E failed \in SUBSET batch :
                 /\ disk' = [disk EXCEPT ![r] = [d EXCEPT !.bare = (@ \cup batch) \ failed]]
                 /\ IF failed = {} \/ m.cont
                    THEN Write(r, m, AfterBatch(m, failed, batch), TRUE, Cardinality(failed))
                    ELSE \E last \in failed, seen \in SUBSET (batch \ failed) :
                           Write(r, m, To(AfterBatch(m, failed, seen \cup {last}), "Failed"),
                                 FALSE, Cardinality(failed))
       /\ UNCHANGED hub

\* The first repository in a phase.
Next1(m, phase) == {k \in InRepoPhase(m, phase) : \A j \in InRepoPhase(m, phase) : k <= j}

\* Mutant: any working copy counts as rewritten.
RewrittenIfPresent(d, k) == d.work[k] # "none"

\* RewriteRepoToSubdirectory skips the work when the working copy has a
\* directory named like the subdirectory.
Rewritten(d, k) == d.work[k] = "moved" \/ (d.work[k] = "plain" /\ k \in Nested)

WithoutBare(d, k) == [d EXCEPT !.bare = IF CleanBetween THEN @ \ {k} ELSE @]

\* The working copies a rewrite can leave: not cloned, cloned only, rewritten.
Rewriting(d, k, work) ==
    /\ ~Rewritten(d, k)
    /\ work # "none" => k \in d.bare
    /\ work \in {"none", "plain", "moved"}

ProcessRewriting(r) ==
    LET m == Copy(r)
        d == Known(disk[r])
    IN /\ InPhase(r, "Rewriting")
       /\ \/ /\ Next1(m, "Rewriting") = {}
             /\ Write(r, m, To(m, "Merging"), TRUE, 0)
             /\ UNCHANGED disk
          \/ \E k \in Next1(m, "Rewriting") :
                \/ /\ Rewritten(d, k)
                   /\ disk' = [disk EXCEPT ![r] = WithoutBare(d, k)]
                   /\ Write(r, m, Advanced(m, k, "Merging"), TRUE, 0)
                \/ \E work \in {"none", "plain", "moved"} :
                      /\ Rewriting(d, k, work)
                      /\ IF work = "moved"
                         THEN /\ disk' = [disk EXCEPT ![r] =
                                    WithoutBare([d EXCEPT !.work[k] = work], k)]
                              /\ Write(r, m, Advanced(m, k, "Merging"), TRUE, 0)
                         ELSE /\ disk' = [disk EXCEPT ![r].known = TRUE, ![r].work[k] = work]
                              /\ RepoError(r, m, k, IF k \in d.bare THEN 1 ELSE 0)
       /\ UNCHANGED hub

\* Mutant: every reconcile starts a new monorepo.
NeedsInitAlways(m) == TRUE

\* The monorepo is initialised while no repository is Completed.
NeedsInit(m) == InRepoPhase(m, "Completed") = {}

\* An empty monorepo is not pushed.
HasCompleted(m) == InRepoPhase(m, "Completed") # {}

\* InitMonoRepo keeps a monorepo that is already there.
Initialised(d, m) == IF NeedsInit(m) THEN [d EXCEPT !.mono = TRUE] ELSE d

\* MergeRepoIntoMonoRepo: no monorepo or a remote left behind fails `git remote
\* add`, no working copy fails `git fetch`, and the remote stays behind.
CanMerge(d, k) == d.mono /\ k \notin d.remotes /\ d.work[k] # "none"
Merged(d, k) == [d EXCEPT !.merged = @ \cup {k},
                          !.asIs = IF d.work[k] = "plain" THEN @ \cup {k} ELSE @]
LeftRemote(d, k) == [d EXCEPT !.remotes = IF d.mono THEN @ \cup {k} ELSE @]

ProcessMerging(r) ==
    LET m == Copy(r)
        d == Initialised(Known(disk[r]), m)
    IN /\ InPhase(r, "Merging")
       /\ \/ /\ NeedsInit(m)
             /\ FailMigration(r, m, 1)
             /\ disk' = [disk EXCEPT ![r].known = TRUE]
          \/ /\ Next1(m, "Merging") = {}
             /\ Write(r, m, To(m, "Pushing"), TRUE, 0)
             /\ disk' = [disk EXCEPT ![r] = d]
          \/ \E k \in Next1(m, "Merging") :
                \/ /\ CanMerge(d, k)
                   /\ disk' = [disk EXCEPT ![r] = Merged(d, k)]
                   /\ Write(r, m, Advanced(m, k, "Completed"), TRUE, 0)
                \/ /\ disk' = [disk EXCEPT ![r] = LeftRemote(d, k)]
                   /\ RepoError(r, m, k, IF CanMerge(d, k) THEN 1 ELSE 0)
       /\ UNCHANGED hub

\* PushMonoRepo: no monorepo or an origin left behind fails `git remote add`;
\* GitHub refuses a history that does not continue the one it has.
CanPush(d) == d.mono /\ ~d.origin /\ ~hub.used
Pushed(d) == [used |-> TRUE, content |-> d.merged, asIs |-> d.asIs]

\* The workspace is removed before the status is written.
ProcessPushing(r) ==
    LET m == Copy(r)
        d == Known(disk[r])
    IN /\ InPhase(r, "Pushing")
       /\ \/ /\ FailMigration(r, m, IF HasCompleted(m) THEN 1 ELSE 0)
             /\ UNCHANGED <<disk, hub>>
          \/ /\ HasCompleted(m)
             /\ CanPush(d)
             /\ disk' = [disk EXCEPT ![r] = Cleaned(d)]
             /\ hub' = Pushed(d)
             /\ Write(r, m, To(Recounted(m), "Completed"), FALSE, 0)
          \/ /\ HasCompleted(m)
             /\ disk' = [disk EXCEPT ![r] = [d EXCEPT !.origin = d.mono]]
             /\ hub' \in IF CanPush(d) THEN {hub, Pushed(d)} ELSE {hub}
             /\ FailMigration(r, m, IF CanPush(d) THEN 1 ELSE 0)

\* The process dies between the git commands of a rewrite, a merge or a push.
CrashAtWork(r) ==
    LET m == Copy(r)
    IN /\ Mishaps(1)
       /\ \/ /\ InPhase(r, "Rewriting")
             /\ \E k \in Next1(m, "Rewriting") :
                   /\ Rewriting(disk[r], k, "plain")
                   /\ Restarted(r, [disk[r] EXCEPT !.work[k] = "plain"], FALSE)
             /\ UNCHANGED hub
          \/ /\ InPhase(r, "Merging")
             /\ LET d == Initialised(disk[r], m)
                IN \E k \in Next1(m, "Merging") :
                      /\ CanMerge(d, k)
                      /\ \E e \in {d, Merged(d, k)} : Restarted(r, LeftRemote(e, k), FALSE)
             /\ UNCHANGED hub
          \/ /\ InPhase(r, "Pushing")
             /\ HasCompleted(m) /\ CanPush(disk[r])
             /\ hub' \in {hub, Pushed(disk[r])}
             /\ Restarted(r, [disk[r] EXCEPT !.origin = TRUE], FALSE)

Reconcile(r) ==
    \/ Gone(r) \/ AddFinalizer(r) \/ RemoveFinalizer(r)
    \/ Trigger(r) \/ Pause(r) \/ Cancel(r) \/ Retry(r) \/ KeepRetryNote(r) \/ Stay(r)
    \/ InitializeStatus(r) \/ ProcessPending(r) \/ ProcessValidating(r)
    \/ ProcessCloning(r) \/ ProcessRewriting(r) \/ ProcessMerging(r) \/ ProcessPushing(r)

Next ==
    \/ User
    \/ \E r \in Replicas : CacheSync(r) \/ Crash(r) \/ CrashAtWork(r) \/ Reconcile(r)

Spec == Init /\ [][Next]_vars

\* A running process delivers the events of its watch and works off its queue.
Fairness == \A r \in Replicas : WF_vars(CacheSync(r)) /\ WF_vars(Reconcile(r))

FairSpec == Spec /\ Fairness

-----------------------------------------------------------------------------
\* A Completed migration has every repository it reports as Completed in the
\* monorepo on GitHub, whatever was retried, refused or lost on the way
\* (processMerging and processPushing trust the repository phases of the status,
\* the content is on a disk).
PushedHoldsCompleted ==
    obj.st.phase = "Completed" => InRepoPhase(obj, "Completed") \subseteq hub.content

\* No repository gets into the monorepo before its files were moved to its
\* subdirectory, also when a rewrite was cut short and taken up again.
MergedAreRewritten ==
    hub.asIs = {} /\ \A r \in Replicas : disk[r].asIs = {}

Settled == obj.st.phase \in Terminal \cup {"Paused"} \/ ~obj.exists

\* Every migration comes to an end, is paused or is deleted: its requeues are
\* never lost, although the watch filters the events of status writes.
Settles == <>[]Settled

=============================================================================
