---------------------------- MODULE AdoMigration ----------------------------
(***************************************************************************)
(* The AdoToGitMigration reconciler: one AdoToGitMigration object in the   *)
(* Kubernetes API server, the user who edits it, and the operator replicas *)
(* that reconcile it from their informer caches while they create and fill *)
(* repositories on GitHub.                                                 *)
(*                                                                         *)
(* A reconcile is a Get from the cache (Begin) followed by the handler the *)
(* copy calls for; every write goes back under optimistic concurrency, so  *)
(* a copy that is no longer the latest version is refused.  Resource       *)
(* versions are the two Booleans current[r] (the working copy is the       *)
(* latest version) and synced[r] (the cache is).  Time is abstracted: a    *)
(* requeue after an interval is a request left in the work queue.          *)
(***************************************************************************)
EXTENDS AtomicMigration

CONSTANTS
    Replicas,       \* operator processes that run this controller
    StaleReads,     \* may a Get return less than the latest version?
    MaxEdits,       \* bound on the user's changes to the object
    MaxCrashes,     \* bound on operator crashes
    MaxErrors       \* bound on API writes that fail on the latest version

ASSUME BoundsAssumption ==
    /\ StaleReads \in BOOLEAN
    /\ MaxEdits \in Nat
    /\ MaxCrashes \in Nat
    /\ MaxErrors \in Nat

VARIABLES
    cache,      \* cache[r]: the object in replica r's informer cache
    synced,     \* synced[r]: cache[r] is the latest version
    queued,     \* queued[r]: the object's key is in r's work queue
    pc,         \* pc[r]: where r's reconcile is
    mem,        \* mem[r]: the working copy of r's reconcile
    current,    \* current[r]: mem[r] is the latest version
    edits,      \* user changes so far (bounded by MaxEdits)
    crashes,    \* operator crashes so far (bounded by MaxCrashes)
    lost,       \* a reconcile ended on a refused record or on an outdated copy:
                \* a history variable, which no action reads
    errors      \* failed writes so far (bounded by MaxErrors)

vars == <<obj, cache, synced, queued, pc, mem, current, repos,
          edits, crashes, lost, errors>>

Init ==
    /\ AtomicInit
    /\ cache = [r \in Replicas |-> obj]
    /\ synced = [r \in Replicas |-> TRUE]
    /\ queued = [r \in Replicas |-> TRUE]
    /\ pc = [r \in Replicas |-> "idle"]
    /\ mem = [r \in Replicas |-> Blank]
    /\ current = [r \in Replicas |-> FALSE]
    /\ edits = 0
    /\ crashes = 0
    /\ lost = FALSE
    /\ errors = 0

-----------------------------------------------------------------------------
(* The API server and the work queue.                                      *)

\* Mutant: the server takes every write, whatever version it was read from.
PutUnversioned(r, o) ==
    /\ obj' = o
    /\ synced' = [q \in Replicas |-> FALSE]
    /\ UNCHANGED <<cache, errors>>

\* A write is accepted from the latest version only and makes every other
\* copy outdated.
Put(r, o) ==
    /\ current[r]
    /\ obj' = o
    /\ synced' = [q \in Replicas |-> FALSE]
    /\ UNCHANGED <<cache, errors>>

\* A refused write: the copy is outdated, or the API call fails.
Refused(r) ==
    /\ IF current[r] THEN errors < MaxErrors /\ errors' = errors + 1
                     ELSE UNCHANGED errors
    /\ UNCHANGED <<obj, cache, synced>>

\* The reconcile returns; again: it asks for a requeue or returns an error.
Return(r, again) ==
    /\ pc' = [pc EXCEPT ![r] = "idle"]
    /\ mem' = [mem EXCEPT ![r] = Blank]
    /\ queued' = [queued EXCEPT ![r] = @ \/ again]

NoWrite == UNCHANGED <<obj, cache, synced, errors>>

\* The write fails and the reconcile returns the error.
FailToWrite(r) ==
    /\ Refused(r)
    /\ current' = [current EXCEPT ![r] = FALSE]
    /\ Return(r, TRUE)
    /\ UNCHANGED <<edits, crashes, lost>>

\* Write the object and return (again), or fail and return the error.
WriteAndReturn(r, o, again) ==
    /\ \/ /\ Put(r, o)
          /\ current' = [q \in Replicas |-> FALSE]
          /\ Return(r, again)
          /\ UNCHANGED <<edits, crashes, lost>>
       \/ FailToWrite(r)

\* Write the object and go on with the server's answer as the working copy.
WriteAndGoOn(r, o, next) ==
    /\ Put(r, o)
    /\ current' = [q \in Replicas |-> q = r]
    /\ mem' = [mem EXCEPT ![r] = o]
    /\ pc' = [pc EXCEPT ![r] = next]
    /\ UNCHANGED <<queued, edits, crashes, lost>>

GoTo(r, next) ==
    /\ pc' = [pc EXCEPT ![r] = next]
    /\ NoWrite
    /\ UNCHANGED <<queued, mem, current, edits, crashes, lost>>

\* The reconcile returns without writing.
ReturnOnly(r, again) ==
    /\ Return(r, again)
    /\ current' = [current EXCEPT ![r] = FALSE]
    /\ NoWrite
    /\ UNCHANGED <<repos, edits, crashes>>

\* Mutant: a changed generation is filtered out too.
EventPassesMetadata(old, new) ==
    ~new.exists \/ old.fin # new.fin \/ (~old.deleting /\ new.deleting)

\* GenerationChangedWithLogging: the events that reach the work queue.
EventPasses(old, new) ==
    \/ ~new.exists
    \/ old.gen # new.gen
    \/ old.fin # new.fin
    \/ ~old.deleting /\ new.deleting

CacheSync(r) ==
    /\ ~synced[r]
    /\ cache' = [cache EXCEPT ![r] = obj]
    /\ synced' = [synced EXCEPT ![r] = TRUE]
    /\ queued' = [queued EXCEPT ![r] = @ \/ EventPasses(cache[r], obj)]
    /\ UNCHANGED <<obj, pc, mem, current, repos, edits, crashes, lost, errors>>

\* An operator process dies at any point and starts again with a fresh list.
Crash(r) ==
    /\ crashes < MaxCrashes
    /\ crashes' = crashes + 1
    /\ pc' = [pc EXCEPT ![r] = "idle"]
    /\ mem' = [mem EXCEPT ![r] = Blank]
    /\ current' = [current EXCEPT ![r] = FALSE]
    /\ cache' = [cache EXCEPT ![r] = obj]
    /\ synced' = [synced EXCEPT ![r] = TRUE]
    /\ queued' = [queued EXCEPT ![r] = obj.exists]
    /\ UNCHANGED <<obj, repos, edits, lost, errors>>

-----------------------------------------------------------------------------
(* The user.                                                               *)

User ==
    /\ edits < MaxEdits
    /\ edits' = edits + 1
    /\ EditSpec \/ Annotate \/ Unannotate \/ Delete
    /\ synced' = [r \in Replicas |-> FALSE]
    /\ current' = [r \in Replicas |-> FALSE]
    /\ UNCHANGED <<cache, queued, pc, mem, repos, crashes, lost, errors>>

-----------------------------------------------------------------------------
(* One reconcile: Get, then the handler the working copy calls for.        *)

\* Mutant: what the cache holds is written back as the latest version.
BeginAsLatest(r) ==
    /\ pc[r] = "idle"
    /\ queued[r]
    /\ queued' = [queued EXCEPT ![r] = FALSE]
    /\ IF cache[r].exists
       THEN /\ pc' = [pc EXCEPT ![r] = "got"]
            /\ mem' = [mem EXCEPT ![r] = cache[r]]
            /\ current' = [current EXCEPT ![r] = TRUE]
       ELSE UNCHANGED <<pc, mem, current>>
    /\ NoWrite
    /\ UNCHANGED <<repos, edits, crashes, lost>>

Begin(r) ==
    /\ pc[r] = "idle"
    /\ queued[r]
    /\ synced[r] \/ StaleReads
    /\ queued' = [queued EXCEPT ![r] = FALSE]
    /\ IF cache[r].exists
       THEN /\ pc' = [pc EXCEPT ![r] = "got"]
            /\ mem' = [mem EXCEPT ![r] = cache[r]]
            /\ current' = [current EXCEPT ![r] = synced[r]]
       ELSE UNCHANGED <<pc, mem, current>>
    /\ NoWrite
    /\ UNCHANGED <<repos, edits, crashes, lost>>

\* restartMigrationForSpecChange, reached before everything else when the
\* spec of a terminal migration changed, or behind the trigger annotation.
RestartForSpecChange(r) ==
    /\ pc[r] = "restart" \/ (pc[r] = "got" /\ Restarts(mem[r]))
    /\ WriteAndReturn(r, AfterRestart(mem[r]), ~NoChanges(mem[r]))
    /\ UNCHANGED repos

AddFinalizer(r) ==
    /\ pc[r] = "got"
    /\ PastRestart(mem[r]) /\ ~mem[r].deleting /\ ~mem[r].fin
    /\ WriteAndReturn(r, AfterAddFinalizer(mem[r]), TRUE)
    /\ UNCHANGED repos

\* handleDeletion; an object that is gone already counts as removed.
RemoveFinalizer(r) ==
    /\ pc[r] = "got"
    /\ PastRestart(mem[r]) /\ mem[r].deleting /\ mem[r].fin
    /\ IF obj.exists
       THEN WriteAndReturn(r, AfterRemoveFinalizer(mem[r]), FALSE) /\ UNCHANGED repos
       ELSE ReturnOnly(r, FALSE) /\ UNCHANGED lost

\* The trigger annotation is removed first; a terminal migration then restarts.
Trigger(r) ==
    /\ pc[r] = "got"
    /\ PastFinalizer(mem[r]) /\ "reconcile-trigger" \in mem[r].ann
    /\ LET o == AfterTrigger(mem[r])
       IN IF mem[r].status.phase \notin Terminal
          THEN WriteAndReturn(r, o, TRUE)
          ELSE \/ WriteAndGoOn(r, o, "restart")
               \/ FailToWrite(r)
    /\ UNCHANGED repos

Pause(r) ==
    /\ pc[r] = "got"
    /\ PastTrigger(mem[r]) /\ "pause" \in mem[r].ann
    /\ mem[r].status.phase # "Paused"
    /\ WriteAndReturn(r, InNewPhase(mem[r], "Paused"), TRUE)
    /\ UNCHANGED repos

\* processPaused, and the same answer while the annotation is there.
StayPaused(r) ==
    /\ pc[r] = "got"
    /\ PastTrigger(mem[r]) /\ mem[r].status.phase = "Paused"
    /\ "pause" \in mem[r].ann \/ PastAnnotations(mem[r])
    /\ ReturnOnly(r, TRUE) /\ UNCHANGED lost

Cancel(r) ==
    /\ pc[r] = "got"
    /\ PastPause(mem[r]) /\ "cancel" \in mem[r].ann
    /\ mem[r].status.phase # "Cancelled"
    /\ WriteAndReturn(r, InNewPhase(mem[r], "Cancelled"), FALSE)
    /\ UNCHANGED repos

\* Mutant: no requeue after the initialization, whose event is filtered out.
InitializeStatusOnly(r) ==
    /\ pc[r] = "got"
    /\ InPhase(mem[r], "")
    /\ WriteAndReturn(r, AfterInitialize(mem[r]), FALSE)
    /\ UNCHANGED repos

InitializeStatus(r) ==
    /\ pc[r] = "got"
    /\ InPhase(mem[r], "")
    /\ WriteAndReturn(r, AfterInitialize(mem[r]), TRUE)
    /\ UNCHANGED repos

ProcessPending(r) ==
    /\ pc[r] = "got"
    /\ InPhase(mem[r], "Pending")
    /\ WriteAndReturn(r, InNewPhase(mem[r], "Validating"), TRUE)
    /\ UNCHANGED repos

\* Skipped or passed validation runs the migration; failed validation and a
\* missing token fail it.
ProcessValidating(r) ==
    /\ pc[r] = "got"
    /\ InPhase(mem[r], "Validating")
    /\ \E phase \in {"Running", "Failed"} :
          WriteAndReturn(r, InNewPhase(mem[r], phase), phase = "Running")
    /\ UNCHANGED repos

\* processRunning without a GitHub token: failMigration.
FailMigration(r) ==
    /\ pc[r] = "got"
    /\ InPhase(mem[r], "Running")
    /\ WriteAndReturn(r, AfterFail(mem[r]), FALSE)
    /\ UNCHANGED repos

\* processResource marks the migration as processing; a refused write is
\* logged and the resource is processed all the same.
MarkProcessing(r) ==
    /\ pc[r] = "got"
    /\ InPhase(mem[r], "Running")
    /\ \E k \in DOMAIN ResourcesOf(mem[r]) :
          /\ IsNext(mem[r], k)
          /\ pc' = [pc EXCEPT ![r] = IF ResourcesOf(mem[r])[k].kind = "repository"
                                     THEN "check" ELSE "failed"]
    /\ \/ Put(r, AfterMark(mem[r])) /\ current' = [q \in Replicas |-> q = r]
       \/ Refused(r) /\ UNCHANGED current
    /\ mem' = [mem EXCEPT ![r] = AfterMark(@)]
    /\ UNCHANGED <<queued, repos, edits, crashes, lost>>

\* validateRepositoryState: the state on GitHub, or an API error.
CheckRepository(r) ==
    /\ pc[r] = "check"
    /\ \E k \in DOMAIN ResourcesOf(mem[r]) :
          /\ IsNext(mem[r], k)
          /\ \/ GoTo(r, IF repos[ResourcesOf(mem[r])[k].target] = "NotExists"
                        THEN "create" ELSE "push")
             \/ GoTo(r, "failed")
    /\ UNCHANGED repos

\* Mutant: the code migration goes on when the creation failed.
CreateRepositoryAnyway(r) ==
    /\ pc[r] = "create"
    /\ \E k \in DOMAIN ResourcesOf(mem[r]) :
          LET t == ResourcesOf(mem[r])[k].target
          IN /\ IsNext(mem[r], k)
             /\ repos' = [repos EXCEPT ![t] = IF @ = "NotExists" THEN "Empty" ELSE @]
                \/ UNCHANGED repos
             /\ GoTo(r, "push")

\* createRepository: refused by GitHub when somebody created it meanwhile.
CreateRepository(r) ==
    /\ pc[r] = "create"
    /\ \E k \in DOMAIN ResourcesOf(mem[r]) :
          LET t == ResourcesOf(mem[r])[k].target
          IN /\ IsNext(mem[r], k)
             /\ \/ /\ repos[t] = "NotExists"
                   /\ repos' = [repos EXCEPT ![t] = "Empty"]
                   /\ GoTo(r, "push")
                \/ /\ GoTo(r, "failed")
                   /\ UNCHANGED repos

\* performCodeMigration: pushed, skipped without an ADO token, or failed with
\* or without refs pushed.
MigrateCode(r) ==
    /\ pc[r] = "push"
    /\ \E k \in DOMAIN ResourcesOf(mem[r]), next \in {"migrated", "failed"} :
          /\ IsNext(mem[r], k)
          /\ GoTo(r, next)
          /\ \/ repos' = [repos EXCEPT ![ResourcesOf(mem[r])[k].target] = "NonEmpty"]
             \/ UNCHANGED repos

\* The resource is Completed; after the last one the migration completes in
\* the same reconcile, otherwise the next resource waits for a requeue.
SaveResource(r) ==
    /\ pc[r] = "migrated"
    /\ \E k \in DOMAIN ResourcesOf(mem[r]) :
          /\ IsNext(mem[r], k)
          /\ IF k < Len(ResourcesOf(mem[r]))
             THEN WriteAndReturn(r, AfterSuccess(mem[r], k), TRUE)
             ELSE \/ WriteAndGoOn(r, AfterSuccess(mem[r], k), "complete")
                  \/ FailToWrite(r)
    /\ UNCHANGED repos

\* handleResourceProcessingFailure: a refused write is logged and not retried.
SaveFailure(r) ==
    /\ pc[r] = "failed"
    /\ \E k \in DOMAIN ResourcesOf(mem[r]) :
          /\ IsNext(mem[r], k)
          /\ \/ Put(r, AfterFailure(mem[r], k)) /\ current' = [q \in Replicas |-> FALSE]
                /\ UNCHANGED lost
             \/ Refused(r) /\ current' = [current EXCEPT ![r] = FALSE] /\ lost' = TRUE
    /\ Return(r, FALSE)
    /\ UNCHANGED <<repos, edits, crashes>>

CompleteMigration(r) ==
    /\ \/ pc[r] = "complete"
       \/ pc[r] = "got" /\ InPhase(mem[r], "Running") /\ AllProcessed(mem[r])
    /\ WriteAndReturn(r, AfterComplete(mem[r]), mem[r].spec.sync)
    /\ UNCHANGED repos

\* processSyncing with synchronization switched off.
StopSyncing(r) ==
    /\ pc[r] = "got"
    /\ InPhase(mem[r], "Syncing") /\ ~mem[r].spec.sync
    /\ WriteAndReturn(r, InNewPhase(mem[r], "Completed"), FALSE)
    /\ UNCHANGED repos

\* processSyncing when the next sync is due: refs go to the repositories that
\* exist, none of them when a token is missing (handleSyncError).
Sync(r) ==
    /\ pc[r] = "got"
    /\ InPhase(mem[r], "Syncing") /\ mem[r].spec.sync
    /\ \E T \in SUBSET {ResourcesOf(mem[r])[k].target :
                           k \in {j \in DOMAIN ResourcesOf(mem[r]) :
                                     ResourcesOf(mem[r])[j].kind = "repository"}} :
          repos' = [t \in Targets |-> IF t \in T /\ repos[t] # "NotExists"
                                      THEN "NonEmpty" ELSE repos[t]]
    /\ WriteAndReturn(r, WithStatus(mem[r], Observed(mem[r])), TRUE)

SyncNotDue(r) ==
    /\ pc[r] = "got"
    /\ InPhase(mem[r], "Syncing") /\ mem[r].spec.sync
    /\ ReturnOnly(r, TRUE) /\ UNCHANGED lost

\* Terminal states: no action, no requeue, and the observed generation is not
\* persisted, however outdated the copy is.
StayTerminal(r) ==
    /\ pc[r] = "got"
    /\ PastAnnotations(mem[r]) /\ mem[r].status.phase \in Terminal
    /\ ReturnOnly(r, FALSE)
    /\ lost' = (lost \/ ~current[r])

Handle(r) ==
    \/ RestartForSpecChange(r) \/ AddFinalizer(r) \/ RemoveFinalizer(r)
    \/ Trigger(r) \/ Pause(r) \/ StayPaused(r) \/ Cancel(r)
    \/ InitializeStatus(r) \/ ProcessPending(r) \/ ProcessValidating(r)
    \/ FailMigration(r) \/ MarkProcessing(r) \/ CheckRepository(r)
    \/ CreateRepository(r) \/ MigrateCode(r) \/ SaveResource(r) \/ SaveFailure(r)
    \/ CompleteMigration(r) \/ StopSyncing(r) \/ Sync(r) \/ SyncNotDue(r)
    \/ StayTerminal(r)

Next ==
    \/ User
    \/ \E r \in Replicas : CacheSync(r) \/ Crash(r) \/ Begin(r) \/ Handle(r)

Spec == Init /\ [][Next]_vars

\* The work queue and the informer run as long as the process does: a queued
\* key is taken, a started reconcile goes on, the watch delivers.  Sync is
\* strongly fair because its interval elapses.  The user owes nothing.
FairSpec ==
    /\ Spec
    /\ \A r \in Replicas :
          /\ WF_vars(CacheSync(r)) /\ WF_vars(Begin(r)) /\ WF_vars(Handle(r))
          /\ SF_vars(Sync(r))

-----------------------------------------------------------------------------
(* Properties.                                                             *)

\* The type invariant: what the object, the copies of it and the queues hold.
TypeOK ==
    /\ obj \in Object
    /\ cache \in [Replicas -> Object]
    /\ synced \in [Replicas -> BOOLEAN]
    /\ queued \in [Replicas -> BOOLEAN]
    /\ pc \in [Replicas -> {"idle", "got", "restart", "check", "create", "push",
                            "migrated", "failed", "complete"}]
    /\ mem \in [Replicas -> Object]
    /\ current \in [Replicas -> BOOLEAN]
    /\ repos \in [Targets -> RepositoryStates]
    /\ edits \in 0 .. MaxEdits
    /\ crashes \in 0 .. MaxCrashes
    /\ lost \in BOOLEAN
    /\ errors \in 0 .. MaxErrors

Working == {"check", "create", "push", "migrated", "failed"}

\* What replica r's reconcile may take for granted about its copy.
CopyFaithful(r) ==
    /\ pc[r] \in {"got", "restart", "complete"} =>
          mem[r].exists /\ (current[r] => mem[r] = obj)
    /\ pc[r] \in Working =>
          /\ InPhase(mem[r], "Running") /\ ~AllProcessed(mem[r])
          /\ current[r] => mem[r] = AfterMark(obj)
    /\ \A k \in DOMAIN ResourcesOf(mem[r]) : IsNext(mem[r], k) =>
          /\ pc[r] \in Working \ {"failed"} => ResourcesOf(mem[r])[k].kind = "repository"
          /\ pc[r] \in {"push", "migrated"} =>
                repos[ResourcesOf(mem[r])[k].target] # "NotExists"
    /\ pc[r] = "complete" => InPhase(mem[r], "Running") /\ AllProcessed(mem[r])
    /\ pc[r] = "restart" => PastTrigger(mem[r]) /\ mem[r].status.phase \in Terminal

\* At every moment of every interleaving, a copy whose write the API server
\* would accept still is the object, up to the processing mark, whichever
\* handler holds it, and what the handler found out about the resource it works
\* on (its repository exists, the migration runs) is still true of the copy.
CopiesFaithful ==
    \A r \in Replicas : (synced[r] => cache[r] = obj) /\ CopyFaithful(r)

\* What the user owns of the object: the spec, its generation, the deletion
\* and the pause and cancel annotations.
UserPart(o) == <<o.spec, o.gen, o.deleting, o.ann \ {"reconcile-trigger"}>>

\* No step of the operator reverts a change of the user: the whole-object
\* updates that add or remove a finalizer or an annotation carry the spec and
\* the annotations of a copy, and a copy that misses an edit is never written.
UserEditsKept ==
    [][(edits' = edits) => UserPart(obj') = UserPart(obj)]_vars

\* The observed generation the API server holds never goes back and never runs
\* ahead of the generation, also with stale copies that carry an older one.
ObservedAdvances ==
    [][obj.status.obs <= obj'.status.obs /\ obj'.status.obs <= obj'.gen]_vars

\* A change of the spec never sends finished work back: the entry of a
\* Completed resource that the spec still lists, unchanged, stays Completed.
CompletedWorkKept ==
    [][\A i \in DOMAIN obj.status.statuses :
          LET e == obj.status.statuses[i]
          IN e.st = "Completed" /\ (\E k \in DOMAIN ResourcesOf(obj) : ResourcesOf(obj)[k] = e.res)
               => obj'.status.statuses[i] = e]_vars

Settled ==
    \/ ~obj.exists
    \/ obj.status.phase \in Terminal \cup {"Paused", "Syncing"}

\* Running with nothing queued: a reconcile ended on the refused record of a
\* failed resource, which is only logged, or on an outdated copy that was still
\* terminal, and the event that would say otherwise is filtered out.
Forgotten ==
    /\ lost /\ obj.status.phase = "Running"
    /\ \A r \in Replicas : pc[r] = "idle" /\ ~queued[r]

\* When the user stops editing, the migration comes to rest, whatever outdated
\* copies, refused writes and crashes did: a terminal phase, a pause, continuous
\* sync or removal.  Nothing but the two endings of Forgotten leaves it Running.
Settles == <>[](Settled \/ Forgotten)

\* Every change of the spec is taken notice of: in the end the observed
\* generation is the generation, unless the migration is paused or forgotten.
EditsObserved ==
    <>[](obj.exists => obj.status.obs = obj.gen \/ obj.status.phase = "Paused" \/ Forgotten)
=============================================================================
