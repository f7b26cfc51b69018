--------------------------- MODULE AtomicMigration ---------------------------
(***************************************************************************)
(* What the AdoToGitMigration reconciler promises: as if one process did   *)
(* it, every handler happens at once, on the object itself and never on an *)
(* outdated copy of it.  The user may change the object between any two    *)
(* handlers, GitHub may get repositories and refs at any time, and a       *)
(* resource is recorded as Completed only when its repository is there.    *)
(* AdoMigration, where replicas work on copies, implements this.           *)
(***************************************************************************)
EXTENDS MigrationObject

CONSTANT Occupied   \* repositories that hold content before the migration

ASSUME OccupiedAssumption == Occupied \subseteq Targets

VARIABLES
    obj,    \* the object in the API server
    repos   \* the target repositories on GitHub

objectVars == <<obj, repos>>

AtomicInit ==
    /\ \E s \in Specs : obj = NewObject(s)
    /\ repos = [t \in Targets |-> IF t \in Occupied THEN "NonEmpty" ELSE "NotExists"]

-----------------------------------------------------------------------------
(* The user.  A change of the spec, and a deletion, raise the generation;  *)
(* annotations do not.                                                     *)

EditSpec ==
    /\ obj.exists
    /\ \E s \in Specs \ {obj.spec} : obj' = [obj EXCEPT !.spec = s, !.gen = @ + 1]

Annotate ==
    /\ obj.exists
    /\ \E a \in UserAnnotations \ obj.ann : obj' = [obj EXCEPT !.ann = @ \cup {a}]

Unannotate ==
    /\ obj.exists
    /\ \E a \in UserAnnotations \cap obj.ann : obj' = [obj EXCEPT !.ann = @ \ {a}]

Delete ==
    /\ obj.exists /\ ~obj.deleting
    /\ obj' = [obj EXCEPT !.deleting = TRUE, !.gen = @ + 1, !.exists = obj.fin]

UserStep == (EditSpec \/ Annotate \/ Unannotate \/ Delete) /\ UNCHANGED repos

-----------------------------------------------------------------------------
(* The handlers, each as one step on the object.                           *)

RestartTaken ==
    /\ obj.exists /\ obj.status.phase \in Terminal
    /\ SpecChanged(obj) \/ PastTrigger(obj)
    /\ obj' = AfterRestart(obj)

FinalizerAdded ==
    /\ PastRestart(obj) /\ ~obj.deleting /\ ~obj.fin
    /\ obj' = AfterAddFinalizer(obj)

FinalizerRemoved ==
    /\ PastRestart(obj) /\ obj.deleting /\ obj.fin
    /\ obj' = AfterRemoveFinalizer(obj)

TriggerTaken ==
    /\ PastFinalizer(obj) /\ "reconcile-trigger" \in obj.ann
    /\ obj' = AfterTrigger(obj)

PausedByUser ==
    /\ PastTrigger(obj) /\ "pause" \in obj.ann /\ obj.status.phase # "Paused"
    /\ obj' = InNewPhase(obj, "Paused")

CancelledByUser ==
    /\ PastPause(obj) /\ "cancel" \in obj.ann /\ obj.status.phase # "Cancelled"
    /\ obj' = InNewPhase(obj, "Cancelled")

StatusInitialized == InPhase(obj, "") /\ obj' = AfterInitialize(obj)

ValidationBegun == InPhase(obj, "Pending") /\ obj' = InNewPhase(obj, "Validating")

ValidationEnded ==
    /\ InPhase(obj, "Validating")
    /\ \E phase \in {"Running", "Failed"} : obj' = InNewPhase(obj, phase)

MigrationFailed == InPhase(obj, "Running") /\ obj' = AfterFail(obj)

ProcessingMarked == InPhase(obj, "Running") /\ ~AllProcessed(obj) /\ obj' = AfterMark(obj)

ResourceCompleted ==
    /\ InPhase(obj, "Running")
    /\ \E k \in DOMAIN ResourcesOf(obj) :
          /\ IsNext(obj, k)
          /\ ResourcesOf(obj)[k].kind = "repository"
          /\ repos[ResourcesOf(obj)[k].target] # "NotExists"
          /\ obj' = AfterSuccess(obj, k)

ResourceFailed ==
    /\ InPhase(obj, "Running")
    /\ \E k \in DOMAIN ResourcesOf(obj) : IsNext(obj, k) /\ obj' = AfterFailure(obj, k)

MigrationCompleted ==
    /\ InPhase(obj, "Running") /\ AllProcessed(obj)
    /\ obj' = AfterComplete(obj)

SyncStopped ==
    /\ InPhase(obj, "Syncing") /\ ~obj.spec.sync
    /\ obj' = InNewPhase(obj, "Completed")

SyncDone ==
    /\ InPhase(obj, "Syncing") /\ obj.spec.sync
    /\ obj' = WithStatus(obj, Observed(obj))

Handled ==
    \/ RestartTaken \/ FinalizerAdded \/ FinalizerRemoved \/ TriggerTaken
    \/ PausedByUser \/ CancelledByUser \/ StatusInitialized \/ ValidationBegun
    \/ ValidationEnded \/ MigrationFailed \/ ProcessingMarked \/ ResourceCompleted
    \/ ResourceFailed \/ MigrationCompleted \/ SyncStopped \/ SyncDone

-----------------------------------------------------------------------------
(* GitHub: a repository is created empty and then filled, never the reverse. *)

Advances(before, after) ==
    \/ before = after
    \/ before = "NotExists" /\ after = "Empty"
    \/ before # "NotExists" /\ after = "NonEmpty"

GitHubAdvances ==
    /\ repos' \in [Targets -> RepositoryStates]
    /\ \A t \in Targets : Advances(repos[t], repos'[t])

HandlerStep == (Handled \/ UNCHANGED obj) /\ GitHubAdvances

AtomicNext == UserStep \/ HandlerStep

\* Every behaviour of AdoMigration is, on the object and the repositories, a
\* behaviour of the handlers applied one at a time to the latest version.
AtomicSpec == AtomicInit /\ [][AtomicNext]_objectVars

-----------------------------------------------------------------------------
(* Invariants of the object.                                               *)

\* The type invariant of this module's two variables.
ObjectTypeOK == obj \in Object /\ repos \in [Targets -> RepositoryStates]

Count(sts, st) == Cardinality({i \in DOMAIN sts : sts[i].st = st})

\* Progress.completed and Progress.failed, which every handler adjusts by one
\* increment or decrement at a time, are at every moment the number of entries
\* in that state: through repeated processing from stale caches, refused
\* writes, crashes and the restart's decrements, nothing is counted twice.
CountersMatchStatuses ==
    /\ obj.status.completed = Count(obj.status.statuses, "Completed")
    /\ obj.status.failed = Count(obj.status.statuses, "Failed")

\* A repository resource recorded as Completed has its repository on GitHub,
\* under the target name of the record, whatever was edited or crashed between
\* the creation and the write that records it.
CompletedHasRepository ==
    \A i \in DOMAIN obj.status.statuses :
        LET e == obj.status.statuses[i]
        IN e.st = "Completed" /\ e.res.kind = "repository"
             => repos[e.res.target] # "NotExists"
=============================================================================
