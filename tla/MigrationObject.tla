--------------------------- MODULE MigrationObject ---------------------------
(***************************************************************************)
(* The AdoToGitMigration object: its spec, metadata and status, which      *)
(* handler of the reconciler a copy of it calls for, and what each handler *)
(* makes of the copy.  There is no state here: AtomicMigration applies the *)
(* handlers to the object itself, AdoMigration to copies that operator     *)
(* replicas read from their caches.                                        *)
(***************************************************************************)
EXTENDS Integers, Sequences, FiniteSets

CONSTANTS
    Ids,            \* values of spec.resources[].sourceId
    Names,          \* values of spec.resources[].sourceName
    Targets,        \* values of spec.resources[].targetName
    Specs,          \* the specs a user may write
    UserAnnotations \* the annotations the user sets and removes

Kinds == {"repository", "work-item"}
Resource == [id : Ids, name : Names, target : Targets, kind : Kinds]

\* Within one spec a source id names one resource; sourceName need not be unique.
ASSUME SpecsAssumption ==
    /\ Specs # {}
    /\ UserAnnotations \subseteq {"reconcile-trigger", "pause", "cancel"}
    /\ Specs \subseteq [resources : Seq(Resource), sync : BOOLEAN]
    /\ \A s \in Specs : \A i, j \in DOMAIN s.resources :
          s.resources[i].id = s.resources[j].id => i = j

Phases == {"", "Pending", "Validating", "Running", "Paused", "Syncing",
           "Completed", "Failed", "Cancelled"}
Terminal == {"Completed", "Failed", "Cancelled"}
ResourcePhases == {"Pending", "Completed", "Failed", "Skipped"}
Processed == {"Completed", "Failed"}
Annotations == {"reconcile-trigger", "pause", "cancel"}
RepositoryStates == {"NotExists", "Empty", "NonEmpty"}

Entry == [res : Resource, st : ResourcePhases]
Status == [phase : Phases, obs : Nat, statuses : Seq(Entry), total : Nat,
           completed : Int, failed : Int, skipped : Nat, processing : {0, 1}]
Object == [exists : BOOLEAN, gen : Nat, spec : Specs, ann : SUBSET Annotations,
           fin : BOOLEAN, deleting : BOOLEAN, status : Status]

-----------------------------------------------------------------------------
(* The object a user creates.                                             *)

NoStatus == [phase |-> "", obs |-> 0, statuses |-> <<>>, total |-> 0,
             completed |-> 0, failed |-> 0, skipped |-> 0, processing |-> 0]

NewObject(s) == [exists |-> TRUE, gen |-> 1, spec |-> s, ann |-> {},
                 fin |-> FALSE, deleting |-> FALSE, status |-> NoStatus]

Blank == NewObject(CHOOSE s \in Specs : TRUE)

-----------------------------------------------------------------------------
(* Resource statuses.                                                      *)

ResourcesOf(o) == o.spec.resources
SpecIds(o) == {ResourcesOf(o)[k].id : k \in DOMAIN ResourcesOf(o)}
StatusIds(sts) == {sts[i].res.id : i \in DOMAIN sts}

\* The entry a resource's name selects: the first with that source name.
EntryAt(sts, name) ==
    {i \in DOMAIN sts : /\ sts[i].res.name = name
                        /\ \A j \in 1 .. i - 1 : sts[j].res.name # name}

IsProcessed(sts, res) == \E i \in EntryAt(sts, res.name) : sts[i].st \in Processed

\* The resource the reconcile turns to: the first of the spec not processed yet.
IsNext(o, k) ==
    /\ k \in DOMAIN ResourcesOf(o)
    /\ ~IsProcessed(o.status.statuses, ResourcesOf(o)[k])
    /\ \A m \in 1 .. k - 1 : IsProcessed(o.status.statuses, ResourcesOf(o)[m])

AllProcessed(o) ==
    \A k \in DOMAIN ResourcesOf(o) : IsProcessed(o.status.statuses, ResourcesOf(o)[k])

\* Mutant: the outcome of the processing is not written back to the entry.
RecordedAsStarted(s, res, st) ==
    LET new == [res |-> res, st |-> "Running"]
        at == EntryAt(s.statuses, res.name)
    IN [s EXCEPT
          !.statuses = IF at = {} THEN Append(@, new)
                       ELSE [i \in DOMAIN @ |-> IF i \in at THEN new ELSE @[i]],
          !.completed = IF st = "Completed" THEN @ + 1 ELSE @,
          !.failed = IF st = "Failed" THEN @ + 1 ELSE @,
          !.processing = 0]

\* The status after processing a resource: its entry replaced, or appended.
Recorded(s, res, st) ==
    LET new == [res |-> res, st |-> st]
        at == EntryAt(s.statuses, res.name)
    IN [s EXCEPT
          !.statuses = IF at = {} THEN Append(@, new)
                       ELSE [i \in DOMAIN @ |-> IF i \in at THEN new ELSE @[i]],
          !.completed = IF st = "Completed" THEN @ + 1 ELSE @,
          !.failed = IF st = "Failed" THEN @ + 1 ELSE @,
          !.processing = 0]

-----------------------------------------------------------------------------
(* The difference between a spec and the statuses, by source id.           *)

FirstWithId(sts, i) == \A j \in 1 .. i - 1 : sts[j].res.id # sts[i].res.id
LastWithId(sts, i) ==
    \A j \in DOMAIN sts : j > i => sts[j].res.id # sts[i].res.id

\* Spec resources with no status, and those whose (last) status differs.
NewResources(o) ==
    {k \in DOMAIN ResourcesOf(o) : ResourcesOf(o)[k].id \notin StatusIds(o.status.statuses)}

\* Mutant: a resource that has a status counts as modified.
KnownResources(o) ==
    {k \in DOMAIN ResourcesOf(o) : ResourcesOf(o)[k].id \in StatusIds(o.status.statuses)}

ModifiedResources(o) ==
    {k \in DOMAIN ResourcesOf(o) : \E i \in DOMAIN o.status.statuses :
        /\ LastWithId(o.status.statuses, i)
        /\ o.status.statuses[i].res.id = ResourcesOf(o)[k].id
        /\ o.status.statuses[i].res # ResourcesOf(o)[k]}

\* The entries the restart touches: the first of each id.
RemovedEntries(o) ==
    {i \in DOMAIN o.status.statuses :
        /\ FirstWithId(o.status.statuses, i)
        /\ o.status.statuses[i].res.id \notin SpecIds(o)}

ModifiedEntries(o) ==
    {i \in DOMAIN o.status.statuses :
        /\ FirstWithId(o.status.statuses, i)
        /\ \E k \in ModifiedResources(o) :
              o.status.statuses[i].res.id = ResourcesOf(o)[k].id}

NoChanges(o) ==
    NewResources(o) = {} /\ ModifiedResources(o) = {} /\ RemovedEntries(o) = {}

\* S, a finite set of positions, in increasing order.
InOrder(S) ==
    LET increasing == {f \in [1 .. Cardinality(S) -> S] :
                          \A a, b \in 1 .. Cardinality(S) : a < b => f[a] < f[b]}
    IN IF increasing = {} THEN <<>> ELSE CHOOSE f \in increasing : TRUE

\* Mutant: the restart takes entries back without taking them off the counters.
RestartedStillCounted(o) ==
    LET s == o.status
        removed == RemovedEntries(o)
        modified == ModifiedEntries(o)
        order == InOrder(NewResources(o))
    IN [s EXCEPT
          !.phase = "Running",
          !.obs = o.gen,
          !.statuses = [i \in DOMAIN s.statuses |->
                          IF i \in removed THEN [s.statuses[i] EXCEPT !.st = "Skipped"]
                          ELSE IF i \in modified
                          THEN [res |-> ResourcesOf(o)[CHOOSE k \in ModifiedResources(o) :
                                           ResourcesOf(o)[k].id = s.statuses[i].res.id],
                                st |-> "Pending"]
                          ELSE s.statuses[i]]
                       \o [n \in DOMAIN order |->
                             [res |-> ResourcesOf(o)[order[n]], st |-> "Pending"]],
          !.total = Len(ResourcesOf(o)),
          !.skipped = @ + Cardinality(removed)]

\* The status of a terminal migration whose spec has other resources now.
Restarted(o) ==
    LET s == o.status
        removed == RemovedEntries(o)
        modified == ModifiedEntries(o)
        order == InOrder(NewResources(o))
        kept == [i \in DOMAIN s.statuses |->
                   IF i \in removed THEN [s.statuses[i] EXCEPT !.st = "Skipped"]
                   ELSE IF i \in modified
                   THEN [res |-> ResourcesOf(o)[CHOOSE k \in ModifiedResources(o) :
                                    ResourcesOf(o)[k].id = s.statuses[i].res.id],
                         st |-> "Pending"]
                   ELSE s.statuses[i]]
        added == [n \in DOMAIN order |->
                    [res |-> ResourcesOf(o)[order[n]], st |-> "Pending"]]
        dropped(st) == Cardinality({i \in removed \cup modified : s.statuses[i].st = st})
    IN [s EXCEPT
          !.phase = "Running",
          !.obs = o.gen,
          !.statuses = kept \o added,
          !.total = Len(ResourcesOf(o)),
          !.completed = @ - dropped("Completed"),
          !.failed = @ - dropped("Failed"),
          !.skipped = @ + Cardinality(removed)]

-----------------------------------------------------------------------------
(* Which handler a working copy calls for: Reconcile's early returns.      *)

SpecChanged(o) == o.status.obs # 0 /\ o.status.obs # o.gen
Restarts(o) == SpecChanged(o) /\ o.status.phase \in Terminal
PastRestart(o) == o.exists /\ ~Restarts(o)
PastFinalizer(o) == PastRestart(o) /\ ~o.deleting /\ o.fin
PastTrigger(o) == PastFinalizer(o) /\ "reconcile-trigger" \notin o.ann
PastPause(o) == PastTrigger(o) /\ "pause" \notin o.ann
PastAnnotations(o) ==
    PastPause(o) /\ ("cancel" \in o.ann => o.status.phase = "Cancelled")
InPhase(o, phase) == PastAnnotations(o) /\ o.status.phase = phase

\* updateObservedGeneration: in memory, persisted by the next status write.
Observed(o) == [o.status EXCEPT !.obs = o.gen]

-----------------------------------------------------------------------------
(* What the handlers make of a copy of the object.                         *)

WithStatus(o, s) == [o EXCEPT !.status = s]

\* restartMigrationForSpecChange
AfterRestart(o) == WithStatus(o, IF NoChanges(o) THEN Observed(o) ELSE Restarted(o))

AfterAddFinalizer(o) == [o EXCEPT !.fin = TRUE]

\* handleDeletion; the server removes a deleted object without finalizers.
AfterRemoveFinalizer(o) == [o EXCEPT !.fin = FALSE, !.exists = ~o.deleting]

AfterTrigger(o) == [o EXCEPT !.ann = @ \ {"reconcile-trigger"}]

\* The handlers that only move the phase.
InNewPhase(o, phase) == WithStatus(o, [Observed(o) EXCEPT !.phase = phase])

AfterInitialize(o) ==
    WithStatus(o, [NoStatus EXCEPT !.phase = "Pending", !.obs = o.gen,
                                   !.total = Len(ResourcesOf(o))])

\* updateProcessingStatus
AfterMark(o) == WithStatus(o, [Observed(o) EXCEPT !.processing = 1])

\* failMigration
AfterFail(o) == WithStatus(o, [Observed(o) EXCEPT !.phase = "Failed", !.processing = 0])

\* updateResourceStatusAfterProcessing for resource k of the spec
AfterSuccess(o, k) == WithStatus(o, Recorded(Observed(o), ResourcesOf(o)[k], "Completed"))

\* The same for a failure, with handleResourceProcessingFailure.
AfterFailure(o, k) ==
    WithStatus(o, [Recorded(Observed(o), ResourcesOf(o)[k], "Failed") EXCEPT !.phase = "Failed"])

AfterComplete(o) ==
    WithStatus(o, [Observed(o) EXCEPT !.phase = IF o.spec.sync THEN "Syncing" ELSE "Completed",
                                      !.processing = 0])
=============================================================================
