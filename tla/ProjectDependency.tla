--------------------------- MODULE ProjectDependency ---------------------------
(***************************************************************************)
(* The GitHubProject reconciler and the work-item migrations that depend   *)
(* on its project: a migration that validates creates the custom resource  *)
(* of the project it names, waits until the project is ready and until its *)
(* repository is there, runs, and adds its issues to the project.          *)
(*                                                                         *)
(* Two migrations name one project.  Every replica runs both controllers   *)
(* and reads from its own cache; this controller has no event filter, so   *)
(* every delivery queues the project.  The status of a migration and the   *)
(* goroutine that creates its issues are the matter of WorkItemMigration;  *)
(* here a migration only validates, runs, ends and is deleted, and which   *)
(* issues it has created is a matter of WorkItemIssues.                    *)
(***************************************************************************)
EXTENDS WorkItemIssues

CONSTANTS
    Replicas,       \* operator processes
    Migrations,     \* WorkItemMigrations that name the project
    Columns,        \* options of a status field
    ChunkSize,      \* issues added to a project by one request
    Repositories,   \* what the migrations may find of their repository
    MaxTroubles,    \* bound on what users do, failed calls and crashes together
    Nobody

ASSUME ProjectAssumption ==
    /\ ChunkSize \in Nat \ {0}
    /\ MaxTroubles \in Nat
    /\ Repositories \subseteq {"absent", "coming", "there"}
    /\ Nobody \notin Migrations \union Replicas
    /\ IsFiniteSet(Replicas)

VARIABLES
    project,    \* the GitHubProject in the API server
    cache,      \* cache[r]: replica r's cached copy of it
    synced,     \* synced[r]: cache[r] is the latest version
    queued,     \* queued[r]: the project's key is in r's work queue
    pc,         \* pc[r]: where r's reconcile of the project is
    mem,        \* mem[r]: its working copy
    current,    \* current[r]: mem[r] has the latest version
    wi,         \* wi[m]: the migration m
    settings,   \* settings[m]: what m asks for and how it authenticates
    secret,     \* the secret with the GitHub token exists
    repo,       \* the target repository: "absent", "there", or an AdoToGitMigration
                \* brings it: "coming", "there" when completed, "failed"
    made,       \* projects created on GitHub so far; they are numbered
    fields,     \* those of them that have a status field
    joined,     \* joined[m]: the project that has issues of m, the items whose issues it
                \* has, those with a column, and those whose issue is closed
    born,       \* custom resources of the project created so far
    resets,     \* times a user asked for another attempt
    troubles    \* what users did, calls that failed and crashes

server == <<project, synced, current>>
world == <<settings, secret, repo, made, fields, joined>>
vars == <<server, cache, queued, pc, mem, wi, world, born, resets, troubles>>


Absent == [exists |-> FALSE, owner |-> Nobody, deleting |-> FALSE, fin |-> FALSE, app |-> FALSE,
           field |-> FALSE, gen |-> 1, observed |-> 0, phase |-> "", id |-> 0]

\* The custom resource as m creates it: m becomes its owner, its authentication is
\* the one of m, and it asks for no status field.
Born(m) == [Absent EXCEPT !.exists = TRUE, !.owner = m, !.app = settings[m].app]

\* As a user creates it.
Given == [Absent EXCEPT !.exists = TRUE, !.field = TRUE]

NoFilter == [types |-> {}, states |-> {}, areas |-> {}, team |-> FALSE]

Filters == {NoFilter, [NoFilter EXCEPT !.types = {"Bug"}, !.team = TRUE]}

\* pat: a personal access token for Azure DevOps, or else a service principal; app: a
\* GitHub App, or else the token of the secret.
Settings == [filter : Filters, pat : BOOLEAN, app : BOOLEAN]

Init ==
    /\ project \in {Absent, Given}
    /\ cache = [r \in Replicas |-> project]
    /\ synced = [r \in Replicas |-> TRUE]
    /\ queued = [r \in Replicas |-> project.exists]
    /\ pc = [r \in Replicas |-> "idle"]
    /\ mem = [r \in Replicas |-> Absent]
    /\ current = [r \in Replicas |-> FALSE]
    /\ wi \in [Migrations -> [phase : {"Validating", "Gone"}, why : {"none"}, host : {Nobody}]]
    /\ settings \in [Migrations -> Settings]
    /\ secret = TRUE
    /\ repo \in Repositories
    /\ made = 0
    /\ fields = {}
    /\ joined = [m \in Migrations |-> [project |-> 0, issues |-> {}, columns |-> {}, closed |-> {}]]
    /\ born = IF project.exists THEN 1 ELSE 0
    /\ resets = 0
    /\ troubles = 0

-----------------------------------------------------------------------------
(* The API server, the caches and the queues.                              *)

Trouble == troubles < MaxTroubles /\ troubles' = troubles + 1

\* The project becomes o; by is the replica that goes on with this copy, if any.
Stored(o, by) ==
    /\ project' = o
    /\ synced' = [r \in Replicas |-> synced[r] /\ o = project]
    /\ current' = [r \in Replicas |-> r = by \/ (current[r] /\ o = project)]

\* What a reconcile works with: the cached copy, until it has stored its own.  What
\* changes between the read and the first write makes the cached copy outdated.
Copy(r) == IF pc[r] = "idle" THEN cache[r] ELSE mem[r]

Latest(r) == IF pc[r] = "idle" THEN synced[r] ELSE current[r]

Put(r, o, by) == Latest(r) /\ Stored(o, by) /\ UNCHANGED troubles

\* Refused: a conflict, or a failed call.
Refused(r) ==
    /\ IF Latest(r) THEN Trouble ELSE UNCHANGED troubles
    /\ UNCHANGED server

Return(r) ==
    /\ pc' = [pc EXCEPT ![r] = "idle"]
    /\ mem' = [mem EXCEPT ![r] = Absent]

Rest == UNCHANGED <<cache, wi, world, born, resets>>

\* A failed write ends the reconcile; its error asks for a requeue.
WriteFails(r) == Refused(r) /\ Return(r) /\ queued' = [queued EXCEPT ![r] = TRUE] /\ Rest

WriteAndReturn(r, o) ==
    \/ Put(r, o, Nobody) /\ Return(r) /\ queued' = [queued EXCEPT ![r] = @ /\ pc[r] # "idle"] /\ Rest
    \/ WriteFails(r)

\* The reconcile goes on with the copy o at place at.
WriteAndGoOn(r, o, at) ==
    \/ /\ Put(r, o, r)
       /\ pc' = [pc EXCEPT ![r] = at]
       /\ mem' = [mem EXCEPT ![r] = o]
       /\ queued' = [queued EXCEPT ![r] = @ /\ pc[r] # "idle"]
       /\ Rest
    \/ WriteFails(r)

CacheSync(r) ==
    /\ ~synced[r]
    /\ cache' = [cache EXCEPT ![r] = project]
    /\ synced' = [synced EXCEPT ![r] = TRUE]
    /\ queued' = [queued EXCEPT ![r] = TRUE]
    /\ UNCHANGED <<project, current, pc, mem, wi, world, born, resets, troubles>>

Crash(r) ==
    /\ Trouble
    /\ Return(r)
    /\ cache' = [cache EXCEPT ![r] = project]
    /\ synced' = [synced EXCEPT ![r] = TRUE]
    /\ queued' = [queued EXCEPT ![r] = project.exists]
    /\ current' = [current EXCEPT ![r] = FALSE]
    /\ UNCHANGED <<project, wi, world, born, resets>>

-----------------------------------------------------------------------------
(* Users, the garbage collector and the migration of the repository.       *)

\* A deletion raises the generation; without a finalizer the object is gone.
Deleted(o) ==
    IF o.fin THEN [o EXCEPT !.deleting = TRUE, !.gen = @ + 1] ELSE Absent

ChangeProjectSpec ==
    /\ Trouble
    /\ project.exists /\ ~project.deleting
    /\ Stored([project EXCEPT !.gen = @ + 1], Nobody)
    /\ UNCHANGED <<cache, queued, pc, mem, wi, world, born, resets>>

DeleteProject ==
    /\ Trouble
    /\ project.exists /\ ~project.deleting
    /\ Stored(Deleted(project), Nobody)
    /\ UNCHANGED <<cache, queued, pc, mem, wi, world, born, resets>>

\* "Allow manual retry by updating the phase to Pending"
ResetProject ==
    /\ Trouble
    /\ project.exists /\ project.phase = "Failed"
    /\ Stored([project EXCEPT !.phase = "Pending"], Nobody)
    /\ resets' = resets + 1
    /\ UNCHANGED <<cache, queued, pc, mem, wi, world, born>>

\* What a migration created goes with it.
CollectGarbage ==
    /\ project.exists /\ ~project.deleting
    /\ project.owner # Nobody
    /\ wi[project.owner].phase = "Gone"
    /\ Stored(Deleted(project), Nobody)
    /\ UNCHANGED <<cache, queued, pc, mem, wi, world, born, resets, troubles>>

CreateSecret ==
    /\ ~secret
    /\ secret' = TRUE
    /\ UNCHANGED <<server, cache, queued, pc, mem, wi, settings, repo, made, fields, joined,
                   born, resets, troubles>>

\* The migration that brings the repository ends.
RepositoryMigrationEnds ==
    /\ repo = "coming"
    /\ repo' \in {"there", "failed"}
    /\ UNCHANGED <<server, cache, queued, pc, mem, wi, settings, secret, made, fields, joined,
                   born, resets, troubles>>

-----------------------------------------------------------------------------
(* The reconcile of the project.                                           *)

\* A reconcile begins, or goes on after it stored the finalizer.
At(r) == pc[r] = "got" \/ (pc[r] = "idle" /\ queued[r])

NotFound(r) ==
    /\ At(r) /\ ~Copy(r).exists
    /\ queued' = [queued EXCEPT ![r] = FALSE]
    /\ UNCHANGED <<server, cache, pc, mem, wi, world, born, resets, troubles>>

Terminal == {"Ready", "Failed"}

SpecChanged(o) == o.observed # 0 /\ o.observed # o.gen /\ o.phase \in Terminal

Observed(o) == [o EXCEPT !.observed = o.gen]

\* Only noted: a finished project is not changed.
HandleSpecChange(r) ==
    /\ At(r) /\ Copy(r).exists /\ SpecChanged(Copy(r))
    /\ WriteAndReturn(r, Observed(Copy(r)))

\* The finalizer is stored, the observed generation only in the copy.
AddFinalizer(r) ==
    /\ At(r) /\ Copy(r).exists /\ ~SpecChanged(Copy(r)) /\ ~Copy(r).fin
    /\ WriteAndGoOn(r, [Copy(r) EXCEPT !.fin = TRUE], "got")

Live(r) == At(r) /\ ~SpecChanged(Copy(r)) /\ Copy(r).fin

ReconcileDelete(r) ==
    /\ Live(r) /\ Copy(r).deleting
    /\ WriteAndReturn(r, Absent)

\* Mutant: a creation that was cut short is begun again.
CreatesAgain(phase) == phase \in {"", "Pending", "Creating"}

Creates(phase) == phase \in {"", "Pending"}

\* Creating is written before the project is created.
StartCreation(r) ==
    /\ Live(r) /\ ~Copy(r).deleting /\ Creates(Copy(r).phase)
    /\ WriteAndGoOn(r, [Observed(Copy(r)) EXCEPT !.phase = "Creating"], "creating")

\* Nothing but a later look is asked for.
CheckCreationStatus(r) ==
    /\ Live(r) /\ ~Copy(r).deleting /\ ~Creates(Copy(r).phase)
    /\ Return(r)
    /\ queued' = [queued EXCEPT ![r] = (@ /\ pc[r] # "idle") \/ Copy(r).phase = "Creating"]
    /\ UNCHANGED <<server, cache, wi, world, born, resets, troubles>>

\* A field that cannot be created is only reported.
ConfigureStatusField(o, id) ==
    \/ fields' = (IF o.field THEN fields \union {id} ELSE fields) /\ UNCHANGED troubles
    \/ o.field /\ Trouble /\ UNCHANGED fields

CreateProject(r) ==
    /\ pc[r] = "creating" /\ (secret \/ mem[r].app)
    /\ made' = made + 1
    /\ mem' = [mem EXCEPT ![r].id = made + 1]
    /\ pc' = [pc EXCEPT ![r] = "created"]
    /\ ConfigureStatusField(mem[r], made + 1)
    /\ UNCHANGED <<server, cache, queued, wi, settings, secret, repo, joined, born, resets>>

\* setFailedStatus: no token, or GitHub refused, or its answer was lost.
SetFailedStatus(r) ==
    /\ pc[r] \in {"creating", "created"}
    /\ WriteAndReturn(r, [mem[r] EXCEPT !.phase = "Failed", !.id = 0])

RecordProject(r) ==
    /\ pc[r] = "created"
    /\ WriteAndReturn(r, [mem[r] EXCEPT !.phase = "Ready"])

ReconcileProject(r) ==
    \/ NotFound(r) \/ HandleSpecChange(r) \/ AddFinalizer(r) \/ ReconcileDelete(r)
    \/ StartCreation(r) \/ CheckCreationStatus(r) \/ CreateProject(r)
    \/ SetFailedStatus(r) \/ RecordProject(r)

-----------------------------------------------------------------------------
(* The validation of a migration, which reads the project from a cache.    *)

Becomes(m, phase, why, r) == wi' = [wi EXCEPT ![m] = [phase |-> phase, why |-> why, host |-> r]]

\* The project is not in the cache.  Created, or created by another meanwhile;
\* neither error message asks to wait in the words the validation looks for.
CreateProjectObject(m, r) ==
    /\ wi[m].phase = "Validating"
    /\ ~cache[r].exists
    /\ IF project.exists
       THEN Becomes(m, "Failed", "other", Nobody) /\ UNCHANGED <<server, born>>
       ELSE /\ Becomes(m, "Failed", "waiting", Nobody)
            /\ Stored(Born(m), Nobody)
            /\ born' = born + 1
    /\ UNCHANGED <<cache, queued, pc, mem, world, resets, troubles>>

UsableProject(o) == o.exists /\ o.phase = "Ready"

\* What a GitHub App needs is taken for present.
GetGitHubAppToken(m) == settings[m].app

GetGitHubToken(m) == secret \/ GetGitHubAppToken(m)

\* A service principal passes the validation and gives no token.
GetAzureDevOpsToken(m) == settings[m].pat

\* checkRepositoryAvailability: a migration that brings the repository counts
\* before the repository.
CheckRepository(m, r) ==
    /\ wi[m].phase = "Validating"
    /\ UsableProject(cache[r])
    /\ \/ repo = "coming" /\ Becomes(m, "Failed", "waiting", Nobody)
       \/ repo = "failed" /\ Becomes(m, "Failed", "other", Nobody)
       \/ repo = "there" /\ GetGitHubToken(m) /\ Becomes(m, "Running", "none", r)
    /\ UNCHANGED <<server, cache, queued, pc, mem, world, born, resets, troubles>>

CreateTargetRepository(m, r) ==
    /\ wi[m].phase = "Validating"
    /\ UsableProject(cache[r])
    /\ repo = "absent" /\ GetGitHubToken(m)
    /\ \/ repo' = "there" /\ UNCHANGED <<wi, troubles>>
       \/ UNCHANGED repo /\ Trouble /\ Becomes(m, "Failed", "other", Nobody)
    /\ UNCHANGED <<server, cache, queued, pc, mem, settings, secret, made, fields, joined, born, resets>>

\* Mutant: what waits is left to its next event.
WaitsForEvent(why) == FALSE

\* The words that tell a failure worth another validation.
Transient(why) == why = "waiting"

RetryFailed(m) ==
    /\ wi[m].phase = "Failed" /\ Transient(wi[m].why)
    /\ Becomes(m, "Validating", "none", Nobody)
    /\ UNCHANGED <<server, cache, queued, pc, mem, world, born, resets, troubles>>

-----------------------------------------------------------------------------
(* The end of a migration.                                                 *)

FailMigration(m) ==
    /\ wi[m].phase = "Running"
    /\ ~GetGitHubToken(m) \/ ~GetAzureDevOpsToken(m)
    /\ Becomes(m, "Failed", "other", Nobody)
    /\ UNCHANGED <<server, cache, queued, pc, mem, world, born, resets, troubles>>

\* The issues of m, in the order of their creation, and those that are closed at once.
Found == [f \in Filters |-> QueryWorkItems(f)]

Created(m) == Found[settings[m].filter]

Ended == {i \in DOMAIN Items : MapState(Items[i].state, ApplyDefaults(<<>>)) = "closed"}

Closed(m) == ToSet(Created(m)) \intersect Ended

\* Mutant: the chunk that is not full is left out.
FullChunksOnly(issues) == SubSeq(issues, 1, (Len(issues) \div ChunkSize) * ChunkSize)

\* As many issues as the chunks have room for.
BatchAddIssuesToProject(issues) ==
    LET room == ((Len(issues) + ChunkSize - 1) \div ChunkSize) * ChunkSize
    IN SubSeq(issues, 1, IF room < Len(issues) THEN room ELSE Len(issues))

\* The field is looked up by the name in the resource, which an edit may have changed.
GetProjectFieldID(o) == IF o.id \notin fields THEN {FALSE} ELSE IF o.gen > 1 THEN BOOLEAN ELSE {TRUE}

\* The issues that get a column: those whose state has one.
WithColumn == {i \in DOMAIN Items : MapAdoStateToProjectStatus(Items[i].state) \in Columns}

SetProjectItemStatus(issues) == issues \intersect WithColumn

Joins(m, id, issues, columns, closed) ==
    joined' = [joined EXCEPT ![m] = [project |-> id, issues |-> issues, columns |-> columns, closed |-> closed]]

\* What one call may do wrong, and nothing repairs: an issue is not closed, or its node
\* id is not found; the issues of an earlier run, before a restart, are not known any
\* more; a request fails after some of its issues, which ends the additions; the field
\* is not found, or only some of the columns are set.
AddingFails(m, id, field) ==
    LET all == ToSet(Created(m))
        ColumnsOf(issues) == SetProjectItemStatus(IF field THEN issues ELSE {}) IN
    /\ Trouble
    /\ \/ \E i \in Closed(m) : Joins(m, id, all, ColumnsOf(all), Closed(m) \ {i})
       \/ \E i \in all : Joins(m, id, all \ {i}, ColumnsOf(all \ {i}), Closed(m))
       \/ \E n \in 1 .. Len(Created(m)) :
             LET later == ToSet(SubSeq(Created(m), n, Len(Created(m)))) IN
             Joins(m, id, later, ColumnsOf(later), Closed(m))
       \/ \E n \in 0 .. Len(Created(m)) : Joins(m, id, ToSet(SubSeq(Created(m), 1, n)), {}, Closed(m))
       \/ field /\ \E S \in SUBSET ColumnsOf(all) : Joins(m, id, all, S, Closed(m))

\* The project is looked up in the cache, and may not be there; that is only logged.
AddIssuesToProject(m) ==
    /\ wi[m].phase = "Running"
    /\ GetGitHubToken(m) /\ GetAzureDevOpsToken(m)
    /\ Becomes(m, "Completed", "none", Nobody)
    /\ LET o == cache[wi[m].host]
           added == ToSet(BatchAddIssuesToProject(Created(m))) IN
       IF ~o.exists \/ o.id = 0 THEN Joins(m, 0, {}, {}, Closed(m)) /\ UNCHANGED troubles
       ELSE \E field \in GetProjectFieldID(o) :
               \/ /\ Joins(m, o.id, added, SetProjectItemStatus(IF field THEN added ELSE {}), Closed(m))
                  /\ UNCHANGED troubles
               \/ AddingFails(m, o.id, field)
    /\ UNCHANGED <<server, cache, queued, pc, mem, settings, secret, repo, made, fields, born, resets>>

\* Deleted by its user: cleanup removes the secret of the token when the API
\* created it, whoever else uses it.
DeleteMigration(m) ==
    /\ Trouble
    /\ wi[m].phase # "Gone"
    /\ Becomes(m, "Gone", "none", Nobody)
    /\ secret' \in IF settings[m].app THEN {secret} ELSE {secret, FALSE}
    /\ UNCHANGED <<server, cache, queued, pc, mem, settings, repo, made, fields, joined, born, resets>>

ReconcileMigration(m) ==
    \/ \E r \in Replicas : CreateProjectObject(m, r) \/ CheckRepository(m, r)
                           \/ CreateTargetRepository(m, r)
    \/ RetryFailed(m) \/ FailMigration(m) \/ AddIssuesToProject(m)

Users ==
    \/ ChangeProjectSpec \/ DeleteProject \/ ResetProject \/ CreateSecret
    \/ \E m \in Migrations : DeleteMigration(m)

Next ==
    \/ Users \/ CollectGarbage \/ RepositoryMigrationEnds
    \/ \E r \in Replicas : CacheSync(r) \/ Crash(r) \/ ReconcileProject(r)
    \/ \E m \in Migrations : ReconcileMigration(m)

Spec == Init /\ [][Next]_vars

\* Watches deliver, queues are worked off, waiting migrations are looked at again;
\* what migrations create is collected.  Nothing is expected of users, nor of the
\* migration that brings the repository.
Fairness ==
    /\ \A r \in Replicas : WF_vars(CacheSync(r)) /\ WF_vars(ReconcileProject(r))
    /\ \A m \in Migrations : WF_vars(ReconcileMigration(m))
    /\ WF_vars(CollectGarbage)

-----------------------------------------------------------------------------
\* GitHub holds no more projects than custom resources were created for and
\* users asked another attempt for: two replicas, outdated copies and crashes
\* never create a project twice, because Creating is written before.
ProjectsWithinAttempts == made <= born + resets

\* As long as users and calls make no trouble, a completed migration has an issue in
\* one project for each work item that its filter asks for, whatever the sizes of
\* requests and chunks, closed when the item has ended; in a project with a status
\* field every issue whose state has a column is in it.
CompletedJoined ==
    troubles = 0 =>
        \A m \in Migrations : wi[m].phase = "Completed" =>
            LET wanted == {i \in DOMAIN Items : WIQLQuery(settings[m].filter, Items[i])} IN
            joined[m] = [project |-> made,
                         issues |-> wanted,
                         columns |-> {i \in wanted : project.field /\ Items[i].state # "Blocked"},
                         closed |-> {i \in wanted : Items[i].state \in {"Closed", "Resolved", "Removed"}}]

\* What a migration may wait for without end.
Blocked ==
    \/ project.exists /\ project.phase \in {"Creating", "Failed"}
    \/ repo = "coming" \/ ~secret

\* A migration that waits is started or gives up, unless the project failed or was
\* cut short, its repository is still on the way, or the token is missing.
Proceeds ==
    \A m \in Migrations :
        []<>(\/ wi[m].phase \in {"Running", "Completed", "Gone"}
             \/ wi[m].phase = "Failed" /\ wi[m].why # "waiting"
             \/ Blocked)
=============================================================================
