------------------------ MODULE MonoRepoMigrationProofs ------------------------
(* Theorems about MonoRepoMigration, for any number of repositories, clones  *)
(* at a time, edits and mishaps, with outdated reads: what one process       *)
(* reports as Completed is on GitHub, and nothing is merged as it was cloned.*)
EXTENDS MonoRepoMigration, TLAPS, FiniteSetTheorems

\* The phases of a repository.
RepoPhases == {"Pending", "Rewriting", "Merging", "Completed", "Failed"}

Phases == {"", "Pending", "Validating", "Cloning", "Rewriting", "Merging", "Pushing",
           "Completed", "Failed", "Cancelled", "Paused"}

Status == [phase : Phases, repos : [Repos -> RepoPhases], done : Nat, failed : Nat]

Object == [exists : BOOLEAN, gen : Nat, fin : BOOLEAN, deleting : BOOLEAN,
           notes : SUBSET {"trigger", "pause", "cancel", "retry"}, cont : BOOLEAN, st : Status]

Workspace == [known : BOOLEAN, bare : SUBSET Repos, work : [Repos -> {"none", "plain", "moved"}],
              mono : BOOLEAN, merged : SUBSET Repos, asIs : SUBSET Repos,
              remotes : SUBSET Repos, origin : BOOLEAN]

Hub == [used : BOOLEAN, content : SUBSET Repos, asIs : SUBSET Repos]

\* The types of the variables the proof looks at.
TypeOK ==
    /\ obj \in Object
    /\ cache \in [Replicas -> Object]
    /\ synced \in [Replicas -> BOOLEAN]
    /\ disk \in [Replicas -> Workspace]
    /\ hub \in Hub

\* A cached copy that counts as the latest version is the latest version.
Fresh == \A r \in Replicas : synced[r] => cache[r] = obj

\* The repositories that o reports as completed.
Done(o) == InRepoPhase(o, "Completed")

\* What a workspace d has to hold for the object o, with c as the cached copy: a monorepo has
\* what o reports as Completed, and is there when c, about to start one, is behind an o that
\* reports something; no working copy is merged as it was cloned, and the one that o reports
\* as rewritten, while c has not seen it, is.
Local(o, c, d) ==
    /\ d.mono => Done(o) \subseteq d.merged
    /\ c.st.phase = "Merging" /\ ~c.deleting /\ Done(c) = {} /\ ~d.mono => Done(o) = {}
    /\ Nested = {} =>
          /\ d.asIs = {}
          /\ \A k \in Repos :
                /\ o.st.repos[k] = "Merging" \/ c.st.repos[k] = "Merging" => d.work[k] # "plain"
                /\ c.st.repos[k] = "Rewriting" /\ o.st.repos[k] = "Merging" =>
                      ~c.deleting /\ c.st.phase = "Rewriting" /\ d.work[k] = "moved"

\* What GitHub has to hold for the object o.
Published(o, h) ==
    /\ o.st.phase = "Completed" => h.used /\ Done(o) \subseteq h.content
    /\ Nested = {} => h.asIs = {}

\* The inductive invariant.
MonoInv ==
    /\ TypeOK
    /\ Fresh
    /\ \A r \in Replicas : Local(obj, cache[r], disk[r])
    /\ Published(obj, hub)

\* One process runs the controller, as with leader election.
OneProcess == \A q, r \in Replicas : q = r

-----------------------------------------------------------------------------
(* Objects and workspaces.                                                 *)

\* p reports nothing as completed or rewritten that o does not.
Fewer(p, o) ==
    /\ Done(p) \subseteq Done(o)
    /\ InRepoPhase(p, "Merging") \subseteq InRepoPhase(o, "Merging")

\* The same phases of repositories ask for the same workspace.
LEMMA SameRepos ==
    ASSUME NEW o, NEW c, NEW d, NEW p, Local(o, c, d), p.st.repos = o.st.repos
    PROVE  Local(p, c, d) /\ Done(p) = Done(o)
BY DEF Local, Done, InRepoPhase

\* A version that reports less asks for less of the workspace.
LEMMA LessAsksLess ==
    ASSUME NEW o, NEW d, NEW p, Local(o, o, d), Fewer(p, o)
    PROVE  Local(p, o, d)
<1>1. \A k \in Repos : p.st.repos[k] = "Merging" => o.st.repos[k] = "Merging"
  BY DEF Fewer, InRepoPhase
<1>2. Done(p) \subseteq Done(o)
  BY DEF Fewer
<1> QED
  BY <1>1, <1>2 DEF Local

\* A workspace that has the same monorepo and working copies does as well.
LEMMA SameWorkspace ==
    ASSUME NEW o, NEW c, NEW d, NEW e, Local(o, c, d),
           e.mono = d.mono, e.merged = d.merged, e.asIs = d.asIs, e.work = d.work
    PROVE  Local(o, c, e)
BY DEF Local

\* So does an empty one, if the cached copy is the object, or has nothing rewritten and
\* starts no monorepo, or is deleted.
LEMMA EmptyWorkspace ==
    ASSUME NEW o, NEW c, NEW d, NEW e, Local(o, c, d),
           ~e.mono, e.asIs = {}, \A k \in Repos : e.work[k] = "none",
           \/ o = c
           \/ c.deleting
           \/ c.st.phase # "Merging" /\ \A k \in Repos : c.st.repos[k] # "Rewriting"
    PROVE  Local(o, c, e)
BY DEF Local

\* The cached copy catches up.
LEMMA CaughtUp ==
    ASSUME NEW o, NEW c, NEW d, Local(o, c, d)
    PROVE  Local(o, o, d)
BY DEF Local

\* No workspace is one.
LEMMA NoWorkspaceType ==
    /\ NoWorkspace \in Workspace /\ ~NoWorkspace.mono /\ NoWorkspace.asIs = {}
    /\ \A k \in Repos : NoWorkspace.work[k] = "none"
BY DEF NoWorkspace, Workspace

\* A workspace that is marked as known.
LEMMA KnownType ==
    ASSUME NEW d \in Workspace
    PROVE  /\ Known(d) \in Workspace
           /\ Known(d).mono = d.mono /\ Known(d).merged = d.merged /\ Known(d).asIs = d.asIs
           /\ Known(d).work = d.work /\ Known(d).remotes = d.remotes
           /\ Known(d).bare = d.bare /\ Known(d).origin = d.origin
BY DEF Known, Workspace

\* Repositories can be counted.
LEMMA CountIsNat ==
    ASSUME MonoAssumption, NEW repos, NEW phase
    PROVE  CountOf(repos, phase) \in Nat
<1>1. IsFiniteSet(Repos)
  BY FS_Interval DEF Repos, MonoAssumption
<1> DEFINE S == {k \in Repos : repos[k] = phase}
<1>2. IsFiniteSet(S)
  BY <1>1, FS_Subset
<1>3. Cardinality(S) \in Nat
  BY <1>2, FS_CardinalityType
<1> QED
  BY <1>3 DEF CountOf

\* What the first write or the handlers make of a copy.
LEMMA WithoutNoteType ==
    ASSUME NEW o \in Object, NEW note
    PROVE  /\ WithoutNote(o, note) \in Object /\ WithoutNote(o, note).st = o.st
           /\ WithoutNote(o, note).cont = o.cont
           /\ note \notin o.notes => WithoutNote(o, note) = o
<1> DEFINE n == o.notes \ {note}
           p == [o EXCEPT !.notes = n]
<1>1. n \in SUBSET {"trigger", "pause", "cancel", "retry"}
  BY DEF Object
<1>2. note \notin o.notes => n = o.notes
  BY DEF Object
<1>3. WithoutNote(o, note) = p
  BY DEF WithoutNote
<1> HIDE DEF n
<1>4. p \in Object /\ p.st = o.st /\ p.cont = o.cont /\ (n = o.notes => p = o)
  BY <1>1 DEF Object
<1> QED
  BY <1>2, <1>3, <1>4

\* The same object with another status.
LEMMA StatusType ==
    ASSUME NEW o \in Object, NEW s \in Status
    PROVE  [o EXCEPT !.st = s] \in Object /\ [o EXCEPT !.st = s].st = s
BY DEF Object

\* The same object in another phase.
LEMMA ToType ==
    ASSUME NEW o \in Object, NEW phase \in Phases
    PROVE  To(o, phase) \in Object /\ To(o, phase).st.repos = o.st.repos
           /\ To(o, phase).st.phase = phase
<1> DEFINE s == [o.st EXCEPT !.phase = phase]
<1>1. o.st \in Status
  BY DEF Object
<1>2. s \in Status /\ s.repos = o.st.repos /\ s.phase = phase
  BY <1>1 DEF Status
<1>3. To(o, phase) = [o EXCEPT !.st = s]
  BY DEF To
<1> HIDE DEF s
<1> QED
  BY <1>2, <1>3, StatusType

\* Counting again changes the counters only.
LEMMA RecountedType ==
    ASSUME MonoAssumption, NEW o \in Object
    PROVE  Recounted(o) \in Object /\ Recounted(o).st.repos = o.st.repos
           /\ Recounted(o).st.phase = o.st.phase
<1> DEFINE a == CountOf(o.st.repos, "Completed")
           b == CountOf(o.st.repos, "Failed")
           s == [o.st EXCEPT !.done = a, !.failed = b]
<1>1. o.st \in Status
  BY DEF Object
<1>2. a \in Nat /\ b \in Nat
  BY CountIsNat
<1>3. Recounted(o) = [o EXCEPT !.st = s]
  BY DEF Recounted, Object
<1> HIDE DEF a, b
<1>4. s \in Status /\ s.repos = o.st.repos /\ s.phase = o.st.phase
  BY <1>1, <1>2 DEF Status
<1> HIDE DEF s
<1> QED
  BY <1>3, <1>4, StatusType

\* One repository goes to another phase.
LEMMA AdvancedType ==
    ASSUME MonoAssumption, NEW o \in Object, NEW k \in Repos, NEW phase \in RepoPhases
    PROVE  /\ Advanced(o, k, phase) \in Object
           /\ Advanced(o, k, phase).st.repos = [o.st.repos EXCEPT ![k] = phase]
           /\ Advanced(o, k, phase).st.phase = o.st.phase
<1> DEFINE repos == [o.st.repos EXCEPT ![k] = phase]
           s == [o.st EXCEPT !.repos = repos]
           p == [o EXCEPT !.st = s]
<1>1. o.st \in Status
  BY DEF Object
<1>2. repos \in [Repos -> RepoPhases]
  BY <1>1 DEF Status
<1>3. Advanced(o, k, phase) = Recounted(p)
  BY DEF Advanced
<1> HIDE DEF repos
<1>4. s \in Status /\ s.repos = repos /\ s.phase = o.st.phase
  BY <1>1, <1>2 DEF Status
<1> HIDE DEF s
<1>5. p \in Object /\ p.st = s
  BY <1>4, StatusType
<1> HIDE DEF p
<1>6. Recounted(p) \in Object /\ Recounted(p).st.repos = repos /\ Recounted(p).st.phase = o.st.phase
  BY <1>4, <1>5, RecountedType
<1> QED
  BY <1>3, <1>6 DEF repos

\* A repository fails, and perhaps the migration with it.
LEMMA AfterRepoErrorType ==
    ASSUME MonoAssumption, NEW o \in Object, NEW k \in Repos
    PROVE  /\ AfterRepoError(o, k) \in Object
           /\ AfterRepoError(o, k).st.repos = [o.st.repos EXCEPT ![k] = "Failed"]
           /\ AfterRepoError(o, k).st.phase \in {o.st.phase, "Failed"}
<1>1. CASE o.cont
  BY <1>1, AdvancedType DEF AfterRepoError, RepoPhases
<1>2. CASE ~o.cont
  <2> DEFINE repos == [o.st.repos EXCEPT ![k] = "Failed"]
             n == o.st.failed + 1
             s == [o.st EXCEPT !.repos = repos, !.failed = n, !.phase = "Failed"]
  <2>1. o.st \in Status
    BY DEF Object
  <2>2. o.st.repos \in [Repos -> RepoPhases] /\ o.st.failed \in Nat
    BY <2>1 DEF Status
  <2>3. repos \in [Repos -> RepoPhases] /\ n \in Nat
    BY <2>2 DEF RepoPhases
  <2>4. AfterRepoError(o, k) = [o EXCEPT !.st = s]
    BY <1>2, <2>1 DEF AfterRepoError, Object, Status
  <2> HIDE DEF repos, n
  <2>5. s \in Status /\ s.repos = repos /\ s.phase = "Failed"
    BY <2>1, <2>3 DEF Status, Phases
  <2> HIDE DEF s
  <2>6. AfterRepoError(o, k) \in Object /\ AfterRepoError(o, k).st = s
    BY <2>4, <2>5, StatusType
  <2> QED
    BY <2>5, <2>6 DEF repos
<1> QED
  BY <1>1, <1>2

\* The version of a retried migration.
LEMMA AfterRetryType ==
    ASSUME NEW o \in Object
    PROVE  /\ AfterRetry(o) \in Object /\ Fewer(AfterRetry(o), o)
           /\ AfterRetry(o).st.phase = "Pending"
<1> DEFINE repos == [k \in Repos |-> IF o.st.repos[k] = "Failed" THEN "Pending" ELSE o.st.repos[k]]
           s == [o.st EXCEPT !.phase = "Pending", !.repos = repos]
<1>1. o.st \in Status
  BY DEF Object
<1>2. repos \in [Repos -> RepoPhases]
  BY <1>1 DEF Status, RepoPhases
<1>3. \A k \in Repos : repos[k] \in {"Completed", "Merging"} => o.st.repos[k] = repos[k]
  OBVIOUS
<1>4. AfterRetry(o) = [o EXCEPT !.st = s]
  BY <1>1 DEF AfterRetry, Object, Status
<1> HIDE DEF repos
<1>5. s \in Status /\ s.repos = repos /\ s.phase = "Pending"
  BY <1>1, <1>2 DEF Status, Phases
<1> HIDE DEF s
<1>6. AfterRetry(o) \in Object /\ AfterRetry(o).st = s
  BY <1>4, <1>5, StatusType
<1>7. Fewer(AfterRetry(o), o)
  BY <1>3, <1>5, <1>6 DEF Fewer, Done, InRepoPhase
<1> QED
  BY <1>5, <1>6, <1>7

\* The version after a batch of clones.
LEMMA AfterBatchType ==
    ASSUME MonoAssumption, NEW o \in Object, NEW failed, NEW seen \in SUBSET Batch(o)
    PROVE  /\ AfterBatch(o, failed, seen) \in Object /\ Fewer(AfterBatch(o, failed, seen), o)
           /\ AfterBatch(o, failed, seen).st.phase = o.st.phase
<1> DEFINE repos == [k \in Repos |-> IF k \notin seen THEN o.st.repos[k]
                                     ELSE IF k \in failed THEN "Failed" ELSE "Rewriting"]
           s == [o.st EXCEPT !.repos = repos]
           p == [o EXCEPT !.st = s]
<1>1. o.st \in Status
  BY DEF Object
<1>2. repos \in [Repos -> RepoPhases]
  BY <1>1 DEF Status, RepoPhases
<1>3. \A k \in Repos : repos[k] \in {"Completed", "Merging"} => o.st.repos[k] = repos[k]
  OBVIOUS
<1>4. AfterBatch(o, failed, seen) = Recounted(p)
  BY <1>1 DEF AfterBatch, Object, Status
<1> HIDE DEF repos
<1>5. s \in Status /\ s.repos = repos /\ s.phase = o.st.phase
  BY <1>1, <1>2 DEF Status
<1> HIDE DEF s
<1>6. p \in Object /\ p.st = s
  BY <1>5, StatusType
<1> HIDE DEF p
<1>7. /\ Recounted(p) \in Object /\ Recounted(p).st.repos = repos
      /\ Recounted(p).st.phase = o.st.phase
  BY <1>5, <1>6, RecountedType
<1>8. Fewer(Recounted(p), o)
  BY <1>3, <1>7 DEF Fewer, Done, InRepoPhase
<1> QED
  BY <1>4, <1>7, <1>8

-----------------------------------------------------------------------------
(* Steps.                                                                  *)

\* A write lands on the version that the reconcile has read, or changes nothing.
LEMMA WriteEffect ==
    ASSUME TypeOK, Fresh, NEW r \in Replicas, NEW m \in Object, NEW o \in Object,
           NEW again, NEW cost, Write(r, m, o, again, cost), m = cache[r] \/ synced[r]
    PROVE  /\ UNCHANGED cache
           /\ obj' \in Object /\ synced' \in [Replicas -> BOOLEAN] /\ Fresh'
           /\ obj' = obj \/ (synced[r] /\ cache[r] = obj /\ obj' \in {o, m})
<1>1. UNCHANGED cache /\ synced' = IF obj' = obj THEN synced ELSE [q \in Replicas |-> FALSE]
  BY DEF Write
<1>2. obj' = obj \/ (synced[r] /\ cache[r] = obj /\ obj' \in {o, m})
  BY DEF Write, Fresh
<1>3. obj' \in Object /\ synced' \in [Replicas -> BOOLEAN]
  BY <1>1, <1>2 DEF TypeOK
<1>4. Fresh'
  BY <1>1 DEF Fresh, TypeOK
<1> QED
  BY <1>1, <1>2, <1>3, <1>4

\* A reconcile that leaves the workspace e and writes o.
LEMMA WriteStep ==
    ASSUME OneProcess, MonoInv, NEW r \in Replicas, NEW m \in Object, NEW o \in Object,
           NEW again, NEW cost, Write(r, m, o, again, cost), m = cache[r] \/ synced[r],
           m.st = cache[r].st, NEW e \in Workspace, disk' = [disk EXCEPT ![r] = e],
           hub' \in Hub, Local(obj, cache[r], e), Published(obj, hub'),
           synced[r] /\ cache[r] = obj => Local(o, obj, e) /\ Published(o, hub')
    PROVE  MonoInv'
<1>1. /\ UNCHANGED cache
      /\ obj' \in Object /\ synced' \in [Replicas -> BOOLEAN] /\ Fresh'
      /\ obj' = obj \/ (synced[r] /\ cache[r] = obj /\ obj' \in {o, m})
  BY WriteEffect DEF MonoInv
<1>2. TypeOK'
  BY <1>1 DEF MonoInv, TypeOK
<1>3. disk'[r] = e /\ \A q \in Replicas : q = r
  BY DEF OneProcess, MonoInv, TypeOK
<1>4. Local(obj', cache[r], e) /\ Published(obj', hub')
  <2>1. CASE obj' = obj
    BY <2>1
  <2>2. CASE synced[r] /\ cache[r] = obj /\ obj' = o
    BY <2>2
  <2>3. CASE synced[r] /\ cache[r] = obj /\ obj' = m
    <3>1. m.st = obj.st
      BY <2>3
    <3>2. Local(m, cache[r], e)
      BY <3>1, SameRepos
    <3>3. Published(m, hub')
      BY <3>1 DEF Published, Done, InRepoPhase
    <3> QED
      BY <2>3, <3>2, <3>3
  <2> QED
    BY <1>1, <2>1, <2>2, <2>3
<1> QED
  BY <1>1, <1>2, <1>3, <1>4 DEF MonoInv

\* A reconcile that only writes, and moves no repository to another phase.
LEMMA CalmWrite ==
    ASSUME OneProcess, MonoInv, NEW r \in Replicas, NEW m \in Object, NEW o \in Object,
           NEW again, NEW cost, Write(r, m, o, again, cost), m = cache[r] \/ synced[r],
           m.st = cache[r].st, UNCHANGED <<disk, hub>>,
           o.st.repos = cache[r].st.repos,
           o.st.phase = "Completed" => cache[r].st.phase = "Completed"
    PROVE  MonoInv'
<1>1. /\ disk[r] \in Workspace /\ disk' = [disk EXCEPT ![r] = disk[r]] /\ hub' \in Hub
      /\ Local(obj, cache[r], disk[r]) /\ Published(obj, hub')
  BY DEF MonoInv, TypeOK
<1>2. ASSUME cache[r] = obj PROVE Local(o, obj, disk[r]) /\ Published(o, hub')
  <2>1. Local(o, obj, disk[r]) /\ Done(o) = Done(obj)
    BY <1>1, <1>2, SameRepos
  <2> QED
    BY <1>1, <1>2, <2>1 DEF Published
<1> QED
  BY <1>1, <1>2, WriteStep

\* A step that changes neither the statuses nor the workspace.
LEMMA CalmStep ==
    ASSUME MonoInv, UNCHANGED <<cache, disk, hub>>, obj' \in Object,
           synced' \in [Replicas -> BOOLEAN], Fresh', obj'.st = obj.st
    PROVE  MonoInv'
<1>1. TypeOK'
  BY DEF MonoInv, TypeOK
<1>2. \A r \in Replicas : Local(obj', cache[r], disk[r])
  BY SameRepos DEF MonoInv
<1>3. Published(obj', hub')
  BY DEF MonoInv, Published, Done, InRepoPhase
<1> QED
  BY <1>1, <1>2, <1>3 DEF MonoInv

\* The process starts again with the workspace e on its disk.
LEMMA RestartStep ==
    ASSUME OneProcess, MonoInv, NEW r \in Replicas, NEW d \in Workspace,
           NEW lost \in BOOLEAN, Restarted(r, d, lost),
           Local(obj, obj, d), hub' \in Hub, Published(obj, hub')
    PROVE  MonoInv'
<1> DEFINE e == [d EXCEPT !.known = FALSE]
<1>1. e \in Workspace /\ Local(obj, obj, e)
  <2>1. /\ e \in Workspace /\ e.mono = d.mono /\ e.merged = d.merged
        /\ e.asIs = d.asIs /\ e.work = d.work
    BY DEF Workspace
  <2> QED
    BY <2>1, SameWorkspace
<1>2. Local(obj, obj, NoWorkspace)
  BY NoWorkspaceType, EmptyWorkspace
<1> HIDE DEF e
<1>3. PICK f \in Workspace : disk' = [disk EXCEPT ![r] = f] /\ Local(obj, obj, f)
  BY <1>1, <1>2, NoWorkspaceType DEF Restarted, e
<1>4. /\ UNCHANGED obj /\ cache' = [cache EXCEPT ![r] = obj]
      /\ synced' = [synced EXCEPT ![r] = TRUE]
  BY DEF Restarted
<1>5. obj \in Object /\ cache' \in [Replicas -> Object] /\ cache'[r] = obj
  BY <1>4 DEF MonoInv, TypeOK
<1>6. disk' \in [Replicas -> Workspace] /\ disk'[r] = f
  BY <1>3 DEF MonoInv, TypeOK
<1>7. synced' \in [Replicas -> BOOLEAN]
  BY <1>4 DEF MonoInv, TypeOK
<1>8. \A q \in Replicas : q = r
  BY DEF OneProcess
<1> QED
  BY <1>3, <1>4, <1>5, <1>6, <1>7, <1>8 DEF MonoInv, TypeOK, Fresh

\* What a handler is given.
LEMMA CopyType ==
    ASSUME MonoInv, NEW r \in Replicas
    PROVE  /\ cache[r] \in Object /\ disk[r] \in Workspace /\ hub \in Hub
           /\ Local(obj, cache[r], disk[r]) /\ Published(obj, hub)
           /\ Copy(r) \in Object /\ Copy(r).st = cache[r].st /\ Copy(r).cont = cache[r].cont
           /\ PastNotes(r) => Copy(r) = cache[r] \/ synced[r]
<1>1. cache[r] \in Object
  BY DEF MonoInv, TypeOK
<1> QED
  BY <1>1, WithoutNoteType DEF MonoInv, TypeOK, Copy, PastNotes

-----------------------------------------------------------------------------
(* Users, the cache and the reconcile up to the phase handlers.            *)

\* What the users do moves no repository.
LEMMA UserKeeps ==
    ASSUME MonoInv, User
    PROVE  MonoInv'
<1>1. obj \in Object
  BY DEF MonoInv, TypeOK
<1>2. ASSUME NEW o \in Object, o.st = obj.st, Edited(o)
      PROVE  MonoInv'
  <2>1. /\ UNCHANGED <<cache, disk, hub>> /\ obj' = o
        /\ synced' = [r \in Replicas |-> FALSE]
    BY <1>2 DEF Edited
  <2> QED
    BY <1>2, <2>1, CalmStep DEF Fresh
<1>3. ASSUME NEW n \in SUBSET {"trigger", "pause", "cancel", "retry"}
      PROVE  [obj EXCEPT !.notes = n] \in Object /\ [obj EXCEPT !.notes = n].st = obj.st
  BY <1>1 DEF Object
<1>4. /\ obj.notes \in SUBSET {"trigger", "pause", "cancel", "retry"}
      /\ obj.gen \in Nat /\ obj.gen + 1 \in Nat /\ obj.cont \in BOOLEAN /\ obj.fin \in BOOLEAN
  <2>1. obj.gen \in Nat
    BY <1>1 DEF Object
  <2> QED
    BY <1>1, <2>1 DEF Object
<1>5. ASSUME NEW note \in {"trigger", "pause", "cancel", "retry"},
             Edited([obj EXCEPT !.notes = @ \cup {note}])
      PROVE  MonoInv'
  <2> DEFINE n == obj.notes \cup {note}
  <2>1. n \in SUBSET {"trigger", "pause", "cancel", "retry"}
    BY <1>4
  <2>2. Edited([obj EXCEPT !.notes = n])
    BY <1>5
  <2> HIDE DEF n
  <2> QED
    BY <1>2, <1>3, <2>1, <2>2
<1>6. CASE ResumeMonoRepoMigration
  <2> DEFINE n == obj.notes \ {"pause"}
  <2>1. n \in SUBSET {"trigger", "pause", "cancel", "retry"}
    BY <1>4
  <2>2. Edited([obj EXCEPT !.notes = n])
    BY <1>6 DEF ResumeMonoRepoMigration
  <2> HIDE DEF n
  <2> QED
    BY <1>2, <1>3, <2>1, <2>2
<1>7. CASE UpdateMonoRepoMigration
  <2> DEFINE c == ~obj.cont
             g == obj.gen + 1
             o == [obj EXCEPT !.cont = c, !.gen = g]
  <2>1. Edited(o)
    BY <1>7 DEF UpdateMonoRepoMigration
  <2>2. c \in BOOLEAN /\ g \in Nat
    BY <1>4
  <2> HIDE DEF c, g
  <2>3. o \in Object /\ o.st = obj.st
    BY <1>1, <2>2 DEF Object
  <2> HIDE DEF o
  <2> QED
    BY <1>2, <2>1, <2>3
<1>8. CASE DeleteMonoRepoMigration
  <2> DEFINE g == obj.gen + 1
             o == [obj EXCEPT !.deleting = TRUE, !.exists = obj.fin, !.gen = g]
  <2>1. Edited(o)
    BY <1>8 DEF DeleteMonoRepoMigration
  <2>2. g \in Nat
    BY <1>4
  <2> HIDE DEF g
  <2>3. o \in Object /\ o.st = obj.st
    BY <1>1, <1>4, <2>2 DEF Object
  <2> HIDE DEF o
  <2> QED
    BY <1>2, <2>1, <2>3
<1> QED
  BY <1>5, <1>6, <1>7, <1>8
  DEF User, PauseMonoRepoMigration, CancelMonoRepoMigration, RetryMonoRepoMigration, TriggerReconcile

\* The cache catches up.
LEMMA CacheSyncKeeps ==
    ASSUME MonoInv, NEW r \in Replicas, CacheSync(r)
    PROVE  MonoInv'
<1>1. /\ UNCHANGED <<obj, disk, hub>> /\ cache' = [cache EXCEPT ![r] = obj]
      /\ synced' = [synced EXCEPT ![r] = TRUE]
  BY DEF CacheSync
<1>2. /\ cache' \in [Replicas -> Object] /\ synced' \in [Replicas -> BOOLEAN]
      /\ \A q \in Replicas : cache'[q] = IF q = r THEN obj ELSE cache[q]
      /\ \A q \in Replicas : q # r => synced'[q] = synced[q]
  BY <1>1 DEF MonoInv, TypeOK
<1>3. \A q \in Replicas : Local(obj, cache'[q], disk[q])
  BY <1>2, CaughtUp DEF MonoInv
<1> QED
  BY <1>1, <1>2, <1>3 DEF MonoInv, TypeOK, Fresh

\* The process is killed between two reconciles.
LEMMA CrashKeeps ==
    ASSUME OneProcess, MonoInv, NEW r \in Replicas, Crash(r)
    PROVE  MonoInv'
<1>1. PICK lost \in BOOLEAN : Restarted(r, disk[r], lost)
  BY DEF Crash
<1>2. UNCHANGED hub
  BY DEF Crash
<1>3. Local(obj, obj, disk[r])
  BY CopyType, CaughtUp
<1> QED
  BY <1>1, <1>2, <1>3, CopyType, RestartStep

\* The workspace is removed when the process remembers it.
LEMMA CleanedKeeps ==
    ASSUME NEW o, NEW c, NEW d \in Workspace, Local(o, c, d), o = c \/ c.deleting
    PROVE  Cleaned(d) \in Workspace /\ Local(o, c, Cleaned(d))
BY NoWorkspaceType, EmptyWorkspace DEF Cleaned

\* The deletion.
LEMMA RemoveFinalizerKeeps ==
    ASSUME OneProcess, MonoInv, NEW r \in Replicas, RemoveFinalizer(r)
    PROVE  MonoInv'
<1> DEFINE o == [cache[r] EXCEPT !.fin = FALSE, !.exists = FALSE]
           e == Cleaned(disk[r])
<1>1. /\ Write(r, cache[r], o, FALSE, 0) /\ cache[r].deleting /\ UNCHANGED hub
      /\ disk' = [disk EXCEPT ![r] = e]
  BY DEF RemoveFinalizer, MonoInv, TypeOK
<1>2. o \in Object /\ o.st = cache[r].st
  BY CopyType DEF Object
<1> HIDE DEF o
<1>3. e \in Workspace /\ Local(obj, cache[r], e)
  BY <1>1, CopyType, CleanedKeeps
<1> HIDE DEF e
<1>4. ASSUME cache[r] = obj PROVE Local(o, obj, e) /\ Published(o, hub')
  <2>1. o.st = obj.st
    BY <1>2, <1>4
  <2>2. Local(o, obj, e)
    BY <1>3, <1>4, <2>1, SameRepos
  <2>3. Published(o, hub')
    BY <1>1, <2>1, CopyType DEF Published, Done, InRepoPhase
  <2> QED
    BY <2>2, <2>3
<1> QED
  BY <1>1, <1>2, <1>3, <1>4, CopyType, WriteStep

\* The retry of a migration that has ended, which removes the workspace.
LEMMA RetryKeeps ==
    ASSUME OneProcess, MonoInv, NEW r \in Replicas, NEW note,
           RemoveNoteThenRetry(r, note), UNCHANGED hub
    PROVE  MonoInv'
<1> DEFINE m == WithoutNote(cache[r], note)
           o == AfterRetry(m)
           e == Cleaned(disk[r])
<1>1. CASE synced[r] /\ disk' = [disk EXCEPT ![r] = Cleaned(@)] /\ Write(r, m, o, TRUE, 0)
  <2>1. cache[r] = obj /\ disk' = [disk EXCEPT ![r] = e]
    BY <1>1 DEF MonoInv, Fresh, TypeOK
  <2>2. m \in Object /\ m.st = cache[r].st
    BY CopyType, WithoutNoteType
  <2> HIDE DEF m
  <2>3. o \in Object /\ Fewer(o, m) /\ o.st.phase = "Pending"
    BY <2>2, AfterRetryType
  <2> HIDE DEF o
  <2>4. e \in Workspace /\ Local(obj, cache[r], e)
    BY <2>1, CopyType, CleanedKeeps
  <2> HIDE DEF e
  <2>5. Fewer(o, obj)
    BY <2>1, <2>2, <2>3 DEF Fewer, Done, InRepoPhase
  <2>6. Local(o, obj, e)
    BY <2>1, <2>4, <2>5, LessAsksLess
  <2>7. Published(o, hub')
    BY <2>3, CopyType DEF Published
  <2> QED
    BY <1>1, <2>1, <2>2, <2>3, <2>4, <2>6, <2>7, CopyType, WriteStep
<1>2. CASE UNCHANGED <<obj, synced, cache, disk>>
  BY <1>2, CalmStep DEF MonoInv, TypeOK, Fresh
<1> QED
  BY <1>1, <1>2 DEF RemoveNoteThenRetry

\* The early returns of the reconcile.
LEMMA EarlyReturnsKeep ==
    ASSUME OneProcess, MonoInv, NEW r \in Replicas,
           \/ Gone(r) \/ AddFinalizer(r) \/ RemoveFinalizer(r)
           \/ Trigger(r) \/ Pause(r) \/ Cancel(r) \/ Retry(r) \/ KeepRetryNote(r) \/ Stay(r)
    PROVE  MonoInv'
<1>0. /\ cache[r] \in Object /\ Copy(r) \in Object /\ Copy(r).st = cache[r].st
  BY CopyType
<1>1. CASE UNCHANGED <<obj, cache, synced, disk, hub>>
  BY <1>1, CalmStep DEF MonoInv, TypeOK, Fresh
<1>2. CASE AddFinalizer(r)
  <2> DEFINE o == [cache[r] EXCEPT !.fin = TRUE]
  <2>1. Write(r, cache[r], o, TRUE, 0) /\ UNCHANGED <<disk, hub>>
    BY <1>2 DEF AddFinalizer, NoWork
  <2>2. o \in Object /\ o.st = cache[r].st
    BY <1>0 DEF Object
  <2> HIDE DEF o
  <2> QED
    BY <1>0, <2>1, <2>2, CalmWrite
<1>3. CASE Trigger(r)
  <2>1. CASE RemoveNoteThenRetry(r, "trigger")
    BY <1>3, <2>1, RetryKeeps DEF Trigger
  <2>2. CASE Write(r, cache[r], WithoutNote(cache[r], "trigger"), TRUE, 0) /\ UNCHANGED disk
    <3>1. UNCHANGED <<disk, hub>>
      BY <1>3, <2>2 DEF Trigger
    <3>2. /\ WithoutNote(cache[r], "trigger") \in Object
          /\ WithoutNote(cache[r], "trigger").st = cache[r].st
      BY <1>0, WithoutNoteType
    <3> QED
      BY <1>0, <2>2, <3>1, <3>2, CalmWrite
  <2> QED
    BY <1>3, <2>1, <2>2 DEF Trigger
<1>4. ASSUME NEW phase \in Phases, phase # "Completed", NEW again, UNCHANGED <<disk, hub>>,
             Write(r, cache[r], To(cache[r], phase), again, 0)
      PROVE  MonoInv'
  BY <1>0, <1>4, ToType, CalmWrite
<1>5. CASE Pause(r)
  BY <1>4, <1>5 DEF Pause, NoWork, To, Phases
<1>6. CASE Cancel(r)
  BY <1>4, <1>6 DEF Cancel, NoWork, To, Phases
<1>7. CASE Retry(r)
  BY <1>7, RetryKeeps DEF Retry
<1>8. ASSUME NEW again, UNCHANGED <<disk, hub>>, Write(r, cache[r], Copy(r), again, 0)
      PROVE  MonoInv'
  BY <1>0, <1>8, CalmWrite
<1>9. CASE Stay(r)
  BY <1>1, <1>8, <1>9 DEF Stay, NoWork
<1> QED
  BY <1>1, <1>2, <1>3, <1>5, <1>6, <1>7, <1>9, RemoveFinalizerKeeps DEF Gone, KeepRetryNote, NoWork

-----------------------------------------------------------------------------
(* The phase handlers.                                                     *)

\* What a handler of a phase knows.
LEMMA InPhaseMeans ==
    ASSUME MonoInv, NEW r \in Replicas, NEW phase, InPhase(r, phase)
    PROVE  /\ cache[r].st.phase = phase /\ Copy(r).st.phase = phase /\ ~cache[r].deleting
           /\ Copy(r) = cache[r] \/ synced[r]
           /\ InRepoPhase(Copy(r), "Merging") = InRepoPhase(cache[r], "Merging")
           /\ InRepoPhase(Copy(r), "Rewriting") = InRepoPhase(cache[r], "Rewriting")
           /\ Done(Copy(r)) = Done(cache[r])
BY CopyType DEF InPhase, PastNotes, PastFinalizer, Alive, InRepoPhase, Done

\* The handlers that only move the phase.
LEMMA PhaseMoves ==
    ASSUME OneProcess, MonoInv, NEW r \in Replicas, PastNotes(r),
           NEW phase \in Phases, phase # "Completed", NEW again, NEW cost,
           Write(r, Copy(r), To(Copy(r), phase), again, cost), UNCHANGED <<disk, hub>>
    PROVE  MonoInv'
<1>1. /\ Copy(r) \in Object /\ Copy(r).st = cache[r].st /\ (Copy(r) = cache[r] \/ synced[r])
  BY CopyType
<1>2. /\ To(Copy(r), phase) \in Object /\ To(Copy(r), phase).st.repos = cache[r].st.repos
      /\ To(Copy(r), phase).st.phase = phase
  BY <1>1, ToType
<1> QED
  BY <1>1, <1>2, CalmWrite

\* The same with a workspace that differs in other ways than its monorepo and copies.
LEMMA PhaseMovesWith ==
    ASSUME OneProcess, MonoInv, NEW r \in Replicas, PastNotes(r),
           NEW phase \in Phases, phase # "Completed", NEW again, NEW cost,
           Write(r, Copy(r), To(Copy(r), phase), again, cost), hub' \in Hub,
           NEW e \in Workspace, disk' = [disk EXCEPT ![r] = e], Local(obj, cache[r], e),
           Published(obj, hub')
    PROVE  MonoInv'
<1>1. /\ Copy(r) \in Object /\ Copy(r).st = cache[r].st /\ (Copy(r) = cache[r] \/ synced[r])
  BY CopyType
<1>2. /\ To(Copy(r), phase) \in Object /\ To(Copy(r), phase).st.repos = cache[r].st.repos
      /\ To(Copy(r), phase).st.phase = phase
  BY <1>1, ToType
<1>3. ASSUME cache[r] = obj PROVE Local(To(Copy(r), phase), obj, e) /\ Published(To(Copy(r), phase), hub')
  <2>1. Local(To(Copy(r), phase), obj, e)
    BY <1>2, <1>3, SameRepos
  <2>2. Published(To(Copy(r), phase), hub')
    BY <1>2 DEF Published
  <2> QED
    BY <2>1, <2>2
<1> QED
  BY <1>1, <1>2, <1>3, WriteStep

\* The phases before the first clone.
LEMMA FirstPhasesKeep ==
    ASSUME OneProcess, MonoInv, NEW r \in Replicas,
           InitializeStatus(r) \/ ProcessPending(r) \/ ProcessValidating(r)
    PROVE  MonoInv'
<1>1. CASE InitializeStatus(r)
  BY <1>1, PhaseMoves DEF InitializeStatus, NoWork, InPhase, Phases
<1>2. CASE ProcessPending(r)
  BY <1>2, PhaseMoves DEF ProcessPending, NoWork, InPhase, Phases
<1>3. CASE ProcessValidating(r)
  BY <1>3, PhaseMoves
  DEF ProcessValidating, FailMigration, TokenUnresolved, NoWork, InPhase, Phases
<1> QED
  BY <1>1, <1>2, <1>3

\* The clones go into a workspace that is empty, when no repository has been cloned before.
LEMMA CloneDiskKeeps ==
    ASSUME MonoInv, NEW r \in Replicas, InPhase(r, "Cloning")
    PROVE  /\ CloneDisk(r, Copy(r)) \in Workspace
           /\ Local(obj, cache[r], CloneDisk(r, Copy(r)))
<1> DEFINE wiped == \A k \in Repos : Copy(r).st.repos[k] = "Pending"
<1>1. /\ disk[r] \in Workspace /\ Local(obj, cache[r], disk[r])
      /\ Copy(r).st = cache[r].st /\ cache[r].st.phase = "Cloning"
  BY CopyType, InPhaseMeans
<1>2. CASE wiped
  <2>1. CloneDisk(r, Copy(r)) = Known(NoWorkspace)
    BY <1>2 DEF CloneDisk
  <2>2. /\ Known(NoWorkspace) \in Workspace /\ ~Known(NoWorkspace).mono
        /\ Known(NoWorkspace).asIs = {}
        /\ \A k \in Repos : Known(NoWorkspace).work[k] = "none"
    BY NoWorkspaceType, KnownType
  <2>3. \A k \in Repos : cache[r].st.repos[k] # "Rewriting"
    BY <1>1, <1>2
  <2> QED
    BY <1>1, <2>1, <2>2, <2>3, EmptyWorkspace
<1>3. CASE ~wiped
  <2>1. CloneDisk(r, Copy(r)) = Known(disk[r])
    BY <1>3 DEF CloneDisk
  <2> QED
    BY <1>1, <2>1, KnownType, SameWorkspace
<1> QED
  BY <1>2, <1>3

\* A batch of clones.
LEMMA ProcessCloningKeeps ==
    ASSUME MonoAssumption, OneProcess, MonoInv, NEW r \in Replicas, ProcessCloning(r)
    PROVE  MonoInv'
<1> DEFINE m == Copy(r)
           batch == Batch(m)
           d == CloneDisk(r, m)
<1>1. /\ InPhase(r, "Cloning") /\ PastNotes(r) /\ UNCHANGED hub
      /\ \/ Write(r, m, To(m, "Rewriting"), TRUE, 0) /\ disk' = [disk EXCEPT ![r] = d]
         \/ TokenUnresolved(r, m) /\ disk' = [disk EXCEPT ![r] = d]
         \/ \E failed \in SUBSET batch :
               /\ disk' = [disk EXCEPT ![r] = [d EXCEPT !.bare = (@ \cup batch) \ failed]]
               /\ \/ Write(r, m, AfterBatch(m, failed, batch), TRUE, Cardinality(failed))
                  \/ \E last \in failed, seen \in SUBSET (batch \ failed) :
                        Write(r, m, To(AfterBatch(m, failed, seen \cup {last}), "Failed"),
                              FALSE, Cardinality(failed))
  BY DEF ProcessCloning, InPhase
<1>2. /\ m \in Object /\ m.st = cache[r].st /\ (m = cache[r] \/ synced[r])
      /\ hub' \in Hub /\ Published(obj, hub') /\ m.st.phase = "Cloning"
  BY <1>1, CopyType, InPhaseMeans
<1>3. d \in Workspace /\ Local(obj, cache[r], d)
  BY <1>1, CloneDiskKeeps
<1>4. batch \subseteq Repos
  BY DEF Batch, InRepoPhase
<1> HIDE DEF d
<1>5. CASE Write(r, m, To(m, "Rewriting"), TRUE, 0) /\ disk' = [disk EXCEPT ![r] = d]
  BY <1>1, <1>2, <1>3, <1>5, PhaseMovesWith DEF Phases
<1>6. CASE TokenUnresolved(r, m) /\ disk' = [disk EXCEPT ![r] = d]
  BY <1>1, <1>2, <1>3, <1>6, PhaseMovesWith DEF TokenUnresolved, FailMigration, Phases
<1>7. ASSUME NEW bare \in SUBSET Repos, NEW o \in Object, Fewer(o, m), o.st.phase # "Completed",
             NEW again, NEW cost, Write(r, m, o, again, cost),
             disk' = [disk EXCEPT ![r] = [d EXCEPT !.bare = bare]]
      PROVE  MonoInv'
  <2> DEFINE e == [d EXCEPT !.bare = bare]
  <2>1. /\ e \in Workspace /\ e.mono = d.mono /\ e.merged = d.merged
        /\ e.asIs = d.asIs /\ e.work = d.work
    BY <1>3 DEF Workspace
  <2>2. disk' = [disk EXCEPT ![r] = e]
    BY <1>7
  <2> HIDE DEF e
  <2>3. Local(obj, cache[r], e)
    BY <1>3, <2>1, SameWorkspace
  <2>4. ASSUME cache[r] = obj PROVE Local(o, obj, e) /\ Published(o, hub')
    <3>1. Fewer(o, obj)
      BY <1>2, <1>7, <2>4 DEF Fewer, Done, InRepoPhase
    <3>2. Local(o, obj, e)
      BY <2>3, <2>4, <3>1, LessAsksLess
    <3>3. Published(o, hub')
      BY <1>2, <1>7 DEF Published
    <3> QED
      BY <3>2, <3>3
  <2> QED
    BY <1>2, <1>7, <2>1, <2>2, <2>3, <2>4, WriteStep
<1>8. ASSUME NEW failed \in SUBSET batch,
             disk' = [disk EXCEPT ![r] = [d EXCEPT !.bare = (@ \cup batch) \ failed]],
             \/ Write(r, m, AfterBatch(m, failed, batch), TRUE, Cardinality(failed))
             \/ \E last \in failed, seen \in SUBSET (batch \ failed) :
                   Write(r, m, To(AfterBatch(m, failed, seen \cup {last}), "Failed"),
                         FALSE, Cardinality(failed))
      PROVE  MonoInv'
  <2> DEFINE bare == (d.bare \cup batch) \ failed
  <2>1. bare \in SUBSET Repos /\ disk' = [disk EXCEPT ![r] = [d EXCEPT !.bare = bare]]
    BY <1>3, <1>4, <1>8 DEF Workspace
  <2> HIDE DEF bare
  <2>2. CASE Write(r, m, AfterBatch(m, failed, batch), TRUE, Cardinality(failed))
    <3>1. /\ AfterBatch(m, failed, batch) \in Object /\ Fewer(AfterBatch(m, failed, batch), m)
          /\ AfterBatch(m, failed, batch).st.phase = "Cloning"
      BY <1>2, AfterBatchType
    <3> QED
      BY <1>7, <2>1, <2>2, <3>1
  <2>3. ASSUME NEW last \in failed, NEW seen \in SUBSET (batch \ failed),
               Write(r, m, To(AfterBatch(m, failed, seen \cup {last}), "Failed"),
                     FALSE, Cardinality(failed))
        PROVE  MonoInv'
    <3> DEFINE s == seen \cup {last}
               o == AfterBatch(m, failed, s)
    <3>1. s \in SUBSET batch
      BY <2>3
    <3> HIDE DEF s
    <3>2. o \in Object /\ Fewer(o, m)
      BY <1>2, <3>1, AfterBatchType
    <3> HIDE DEF o
    <3>3. To(o, "Failed") \in Object /\ To(o, "Failed").st.repos = o.st.repos
          /\ To(o, "Failed").st.phase = "Failed"
      BY <3>2, ToType DEF Phases
    <3>4. Fewer(To(o, "Failed"), m)
      BY <3>2, <3>3 DEF Fewer, Done, InRepoPhase
    <3>5. Write(r, m, To(o, "Failed"), FALSE, Cardinality(failed))
      BY <2>3 DEF o, s
    <3> QED
      BY <1>7, <2>1, <3>3, <3>4, <3>5
  <2> QED
    BY <1>8, <2>2, <2>3
<1> QED
  BY <1>1, <1>5, <1>6, <1>8

\* A step of the rewrite of the repository k: either it is reported as rewritten and is, or
\* it is not reported.
LEMMA RewriteStep ==
    ASSUME OneProcess, MonoInv, NEW r \in Replicas, InPhase(r, "Rewriting"),
           NEW k \in InRepoPhase(cache[r], "Rewriting"),
           NEW e \in Workspace, disk' = [disk EXCEPT ![r] = e], UNCHANGED hub,
           e.mono = disk[r].mono, e.merged = disk[r].merged, e.asIs = disk[r].asIs,
           \A j \in Repos : j # k => e.work[j] = disk[r].work[j],
           NEW phase \in {"Merging", "Failed"}, NEW o \in Object,
           o.st.repos = [cache[r].st.repos EXCEPT ![k] = phase], o.st.phase # "Completed",
           NEW again, NEW cost, Write(r, Copy(r), o, again, cost),
           Nested = {} /\ phase = "Merging" => e.work[k] = "moved",
           Nested = {} /\ disk[r].work[k] = "moved" => e.work[k] = "moved"
    PROVE  MonoInv'
<1>1. /\ Copy(r) \in Object /\ Copy(r).st = cache[r].st /\ (Copy(r) = cache[r] \/ synced[r])
      /\ Local(obj, cache[r], disk[r]) /\ Published(obj, hub') /\ hub' \in Hub
      /\ cache[r].st.phase = "Rewriting" /\ ~cache[r].deleting
      /\ k \in Repos /\ cache[r].st.repos[k] = "Rewriting"
      /\ cache[r].st.repos \in [Repos -> RepoPhases]
  BY CopyType, InPhaseMeans DEF InRepoPhase, Object, Status
<1>2. Local(obj, cache[r], e)
  <2>1. e.mono => Done(obj) \subseteq e.merged
    BY <1>1 DEF Local
  <2>2. ASSUME Nested = {}
        PROVE  /\ e.asIs = {}
               /\ \A j \in Repos :
                     /\ obj.st.repos[j] = "Merging" \/ cache[r].st.repos[j] = "Merging" => e.work[j] # "plain"
                     /\ cache[r].st.repos[j] = "Rewriting" /\ obj.st.repos[j] = "Merging" => e.work[j] = "moved"
    <3>1. e.asIs = {}
      BY <1>1, <2>2 DEF Local
    <3>2. ASSUME NEW j \in Repos
          PROVE  /\ obj.st.repos[j] = "Merging" \/ cache[r].st.repos[j] = "Merging" => e.work[j] # "plain"
                 /\ cache[r].st.repos[j] = "Rewriting" /\ obj.st.repos[j] = "Merging" => e.work[j] = "moved"
      <4>1. CASE j = k
        <5>1. cache[r].st.repos[j] = "Rewriting" /\ (obj.st.repos[j] = "Merging" => disk[r].work[j] = "moved")
          BY <1>1, <2>2, <4>1 DEF Local
        <5>2. obj.st.repos[j] = "Merging" => e.work[j] = "moved"
          BY <2>2, <4>1, <5>1
        <5> QED
          BY <5>1, <5>2
      <4>2. CASE j # k
        BY <1>1, <2>2, <4>2 DEF Local
      <4> QED
        BY <4>1, <4>2
    <3> QED
      BY <3>1, <3>2
  <2> QED
    BY <1>1, <2>1, <2>2 DEF Local
<1>3. ASSUME cache[r] = obj PROVE Local(o, obj, e) /\ Published(o, hub')
  <2>1. \A j \in Repos : o.st.repos[j] = IF j = k THEN phase ELSE obj.st.repos[j]
    BY <1>1, <1>3
  <2>2. Done(o) \subseteq Done(obj)
    BY <2>1 DEF Done, InRepoPhase
  <2>3. obj.st.phase = "Rewriting" /\ ~obj.deleting
    BY <1>1, <1>3
  <2>4. \A j \in Repos : j # k /\ o.st.repos[j] = "Merging" => obj.st.repos[j] = "Merging"
    BY <2>1
  <2>5. o.st.repos[k] = "Merging" /\ Nested = {} => e.work[k] = "moved"
    BY <1>1, <2>1
  <2>6. Local(obj, obj, e)
    BY <1>2, <1>3
  <2>7. obj.st.repos[k] = "Rewriting"
    BY <1>1, <1>3
  <2>8. ASSUME Nested = {}, NEW j \in Repos
        PROVE  /\ o.st.repos[j] = "Merging" \/ obj.st.repos[j] = "Merging" => e.work[j] # "plain"
               /\ obj.st.repos[j] = "Rewriting" /\ o.st.repos[j] = "Merging" => e.work[j] = "moved"
    <3>1. CASE j = k
      BY <2>5, <2>7, <2>8, <3>1
    <3>2. CASE j # k
      BY <2>4, <2>6, <2>8, <3>2 DEF Local
    <3> QED
      BY <3>1, <3>2
  <2>9. e.mono => Done(o) \subseteq e.merged
    BY <2>2, <2>6 DEF Local
  <2>10. Nested = {} => e.asIs = {}
    BY <2>6 DEF Local
  <2>11. Local(o, obj, e)
    BY <2>3, <2>8, <2>9, <2>10 DEF Local
  <2>12. Published(o, hub')
    BY <1>1 DEF Published
  <2> QED
    BY <2>11, <2>12
<1> QED
  BY <1>1, <1>2, <1>3, WriteStep

\* A rewrite goes on only where the working copy has not been rewritten.
LEMMA RewritingMeans ==
    ASSUME NEW d, NEW k, NEW work, Rewriting(d, k, work)
    PROVE  d.work[k] # "moved"
BY DEF Rewriting, Rewritten

\* A reconcile that rewrites a repository.
LEMMA ProcessRewritingKeeps ==
    ASSUME MonoAssumption, OneProcess, MonoInv, NEW r \in Replicas, ProcessRewriting(r)
    PROVE  MonoInv'
<1> DEFINE m == Copy(r)
           d == Known(disk[r])
<1>1. InPhase(r, "Rewriting") /\ PastNotes(r) /\ UNCHANGED hub
  BY DEF ProcessRewriting, InPhase
<1>2. /\ m \in Object /\ m.st = cache[r].st
      /\ m.st.phase = "Rewriting"
      /\ disk[r] \in Workspace /\ disk \in [Replicas -> Workspace]
      /\ d \in Workspace /\ d.mono = disk[r].mono /\ d.merged = disk[r].merged
      /\ d.asIs = disk[r].asIs /\ d.work = disk[r].work
  BY <1>1, CopyType, InPhaseMeans, KnownType DEF MonoInv, TypeOK
<1>3. \A k \in Next1(m, "Rewriting") : k \in Repos /\ k \in InRepoPhase(cache[r], "Rewriting")
  BY <1>2 DEF Next1, InRepoPhase
<1> HIDE DEF d
<1>4. CASE Write(r, m, To(m, "Merging"), TRUE, 0) /\ UNCHANGED disk
  BY <1>1, <1>4, PhaseMoves DEF Phases
<1>5. ASSUME NEW k \in Repos, NEW e \in Workspace
      PROVE  /\ WithoutBare(e, k) \in Workspace /\ WithoutBare(e, k).mono = e.mono
             /\ WithoutBare(e, k).merged = e.merged /\ WithoutBare(e, k).asIs = e.asIs
             /\ WithoutBare(e, k).work = e.work
  <2> DEFINE b == IF CleanBetween THEN e.bare \ {k} ELSE e.bare
  <2>1. b \in SUBSET Repos
    BY DEF Workspace
  <2>2. WithoutBare(e, k) = [e EXCEPT !.bare = b]
    BY DEF WithoutBare
  <2> HIDE DEF b
  <2> QED
    BY <2>1, <2>2 DEF Workspace
<1>6. ASSUME NEW k \in Repos, NEW work \in {"none", "plain", "moved"}, NEW e \in Workspace
      PROVE  /\ [e EXCEPT !.work[k] = work] \in Workspace
             /\ [e EXCEPT !.work[k] = work].mono = e.mono
             /\ [e EXCEPT !.work[k] = work].merged = e.merged
             /\ [e EXCEPT !.work[k] = work].asIs = e.asIs
             /\ [e EXCEPT !.work[k] = work].work[k] = work
             /\ \A j \in Repos : j # k => [e EXCEPT !.work[k] = work].work[j] = e.work[j]
  <2> DEFINE w == [e.work EXCEPT ![k] = work]
  <2>1. /\ w \in [Repos -> {"none", "plain", "moved"}] /\ w[k] = work
        /\ \A j \in Repos : j # k => w[j] = e.work[j]
    BY <1>6 DEF Workspace
  <2>2. [e EXCEPT !.work[k] = work] = [e EXCEPT !.work = w]
    BY DEF Workspace
  <2> HIDE DEF w
  <2> QED
    BY <2>1, <2>2 DEF Workspace
<1>7. ASSUME NEW k \in Repos
      PROVE  /\ Advanced(m, k, "Merging") \in Object
             /\ Advanced(m, k, "Merging").st.repos = [cache[r].st.repos EXCEPT ![k] = "Merging"]
             /\ Advanced(m, k, "Merging").st.phase # "Completed"
             /\ AfterRepoError(m, k) \in Object
             /\ AfterRepoError(m, k).st.repos = [cache[r].st.repos EXCEPT ![k] = "Failed"]
             /\ AfterRepoError(m, k).st.phase # "Completed"
  <2> DEFINE o == Advanced(m, k, "Merging")
             p == AfterRepoError(m, k)
  <2>1. "Merging" \in RepoPhases
    BY DEF RepoPhases
  <2>2. /\ o \in Object /\ o.st.repos = [m.st.repos EXCEPT ![k] = "Merging"]
        /\ o.st.phase = m.st.phase
    BY <1>2, <2>1, MonoAssumption, AdvancedType
  <2>3. /\ p \in Object /\ p.st.repos = [m.st.repos EXCEPT ![k] = "Failed"]
        /\ p.st.phase \in {m.st.phase, "Failed"}
    BY <1>2, MonoAssumption, AfterRepoErrorType
  <2> HIDE DEF o, p
  <2> QED
    BY <1>2, <2>2, <2>3 DEF o, p
<1>8. ASSUME NEW k \in Next1(m, "Rewriting"), Rewritten(d, k),
             disk' = [disk EXCEPT ![r] = WithoutBare(d, k)],
             Write(r, m, Advanced(m, k, "Merging"), TRUE, 0)
      PROVE  MonoInv'
  <2> DEFINE e == WithoutBare(d, k)
  <2>1. /\ e \in Workspace /\ e.mono = disk[r].mono /\ e.merged = disk[r].merged
        /\ e.asIs = disk[r].asIs /\ e.work = disk[r].work
    BY <1>2, <1>3, <1>5
  <2>2. Nested = {} => e.work[k] = "moved"
    BY <1>2, <1>8, <2>1 DEF Rewritten
  <2> HIDE DEF e
  <2>3. disk' = [disk EXCEPT ![r] = e]
    BY <1>8 DEF e
  <2>4. \E again, cost : Write(r, m, Advanced(m, k, "Merging"), again, cost)
    BY <1>8
  <2>5. k \in InRepoPhase(cache[r], "Rewriting") /\ k \in Repos
    BY <1>3
  <2>6. \A j \in Repos : j # k => e.work[j] = disk[r].work[j]
    BY <2>1
  <2> QED
    BY <1>1, <1>7, <2>1, <2>2, <2>3, <2>4, <2>5, <2>6, RewriteStep
<1>9. ASSUME NEW k \in Next1(m, "Rewriting"), Rewriting(d, k, "moved"),
             disk' = [disk EXCEPT ![r] = WithoutBare([d EXCEPT !.work[k] = "moved"], k)],
             Write(r, m, Advanced(m, k, "Merging"), TRUE, 0)
      PROVE  MonoInv'
  <2> DEFINE f == [d EXCEPT !.work[k] = "moved"]
             e == WithoutBare(f, k)
  <2>1. /\ f \in Workspace /\ f.mono = d.mono /\ f.merged = d.merged /\ f.asIs = d.asIs
        /\ f.work[k] = "moved" /\ \A j \in Repos : j # k => f.work[j] = d.work[j]
    BY <1>2, <1>3, <1>6
  <2>2. disk' = [disk EXCEPT ![r] = e]
    BY <1>9
  <2> HIDE DEF f
  <2>3. /\ e \in Workspace /\ e.mono = f.mono /\ e.merged = f.merged /\ e.asIs = f.asIs
        /\ e.work = f.work
    BY <1>3, <1>5, <2>1
  <2> HIDE DEF e
  <2>4. /\ e.mono = disk[r].mono /\ e.merged = disk[r].merged /\ e.asIs = disk[r].asIs
        /\ e.work[k] = "moved" /\ \A j \in Repos : j # k => e.work[j] = disk[r].work[j]
    BY <1>2, <2>1, <2>3
  <2>5. \E again, cost : Write(r, m, Advanced(m, k, "Merging"), again, cost)
    BY <1>9
  <2> QED
    BY <1>1, <1>3, <1>7, <2>2, <2>3, <2>4, <2>5, RewriteStep
<1>10. ASSUME NEW k \in Next1(m, "Rewriting"), NEW work \in {"none", "plain"},
              Rewriting(d, k, work),
              disk' = [disk EXCEPT ![r].known = TRUE, ![r].work[k] = work],
              RepoError(r, m, k, IF k \in d.bare THEN 1 ELSE 0)
       PROVE  MonoInv'
  <2> DEFINE f == [d EXCEPT !.work[k] = work]
  <2>1. /\ f \in Workspace /\ f.mono = d.mono /\ f.merged = d.merged /\ f.asIs = d.asIs
        /\ \A j \in Repos : j # k => f.work[j] = d.work[j]
    BY <1>2, <1>3, <1>6
  <2>2. disk' = [disk EXCEPT ![r] = f]
    BY <1>2, <1>10 DEF d, Known, Workspace
  <2> HIDE DEF f
  <2>3. d.work[k] # "moved"
    BY <1>10, RewritingMeans
  <2>4. \E again, cost : Write(r, m, AfterRepoError(m, k), again, cost)
    BY <1>10 DEF RepoError
  <2>5. /\ f.mono = disk[r].mono /\ f.merged = disk[r].merged /\ f.asIs = disk[r].asIs
        /\ disk[r].work[k] # "moved" /\ \A j \in Repos : j # k => f.work[j] = disk[r].work[j]
    BY <1>2, <2>1, <2>3
  <2> QED
    BY <1>1, <1>3, <1>7, <2>1, <2>2, <2>4, <2>5, RewriteStep
<1>11. \/ Write(r, m, To(m, "Merging"), TRUE, 0) /\ UNCHANGED disk
       \/ \E k \in Next1(m, "Rewriting") :
             \/ /\ Rewritten(d, k)
                /\ disk' = [disk EXCEPT ![r] = WithoutBare(d, k)]
                /\ Write(r, m, Advanced(m, k, "Merging"), TRUE, 0)
             \/ /\ Rewriting(d, k, "moved")
                /\ disk' = [disk EXCEPT ![r] = WithoutBare([d EXCEPT !.work[k] = "moved"], k)]
                /\ Write(r, m, Advanced(m, k, "Merging"), TRUE, 0)
             \/ \E work \in {"none", "plain"} :
                   /\ Rewriting(d, k, work)
                   /\ disk' = [disk EXCEPT ![r].known = TRUE, ![r].work[k] = work]
                   /\ RepoError(r, m, k, IF k \in d.bare THEN 1 ELSE 0)
  BY DEF ProcessRewriting, d
<1> QED
  BY <1>4, <1>8, <1>9, <1>10, <1>11

\* What the first calls of a merge leave: a monorepo that has what the object reports.
LEMMA InitialisedKeeps ==
    ASSUME MonoInv, NEW r \in Replicas, InPhase(r, "Merging"), NEW f \in Workspace,
           f.mono = disk[r].mono, f.merged = disk[r].merged,
           f.asIs = disk[r].asIs, f.work = disk[r].work
    PROVE  /\ Initialised(f, Copy(r)) \in Workspace
           /\ Local(obj, cache[r], Initialised(f, Copy(r)))
           /\ NeedsInit(Copy(r)) => Initialised(f, Copy(r)).mono
           /\ Initialised(f, Copy(r)).merged = f.merged
           /\ Initialised(f, Copy(r)).work = f.work
           /\ Initialised(f, Copy(r)).asIs = f.asIs
<1> DEFINE d == Initialised(f, Copy(r))
<1>1. /\ Local(obj, cache[r], disk[r]) /\ Done(Copy(r)) = Done(cache[r])
      /\ cache[r].st.phase = "Merging" /\ ~cache[r].deleting
  BY CopyType, InPhaseMeans
<1>2. /\ d \in Workspace /\ d.merged = f.merged /\ d.asIs = f.asIs /\ d.work = f.work
      /\ d.mono = (f.mono \/ NeedsInit(Copy(r)))
  BY DEF Initialised, Workspace, NeedsInit
<1>3. NeedsInit(Copy(r)) /\ ~disk[r].mono => Done(obj) = {}
  BY <1>1 DEF Local, NeedsInit, Done
<1> HIDE DEF d
<1>4. d.mono => Done(obj) \subseteq d.merged
  BY <1>1, <1>2, <1>3 DEF Local
<1>5. ~d.mono => ~disk[r].mono
  BY <1>2
<1>6. Local(obj, cache[r], d)
  BY <1>1, <1>2, <1>4, <1>5 DEF Local
<1>7. NeedsInit(Copy(r)) => d.mono
  BY <1>2
<1> QED
  BY <1>2, <1>6, <1>7 DEF d

\* A merge of k adds it, and k has been rewritten.
LEMMA MergedKeeps ==
    ASSUME NEW o, NEW c, NEW d \in Workspace, Local(o, c, d), NEW k \in InRepoPhase(c, "Merging")
    PROVE  /\ Merged(d, k) \in Workspace /\ Local(o, c, Merged(d, k))
           /\ k \in Merged(d, k).merged /\ d.merged \subseteq Merged(d, k).merged
           /\ Merged(d, k).mono = d.mono
<1> DEFINE e == Merged(d, k)
           S == d.merged \cup {k}
           T == IF d.work[k] = "plain" THEN d.asIs \cup {k} ELSE d.asIs
<1>1. k \in Repos /\ c.st.repos[k] = "Merging"
  BY DEF InRepoPhase
<1>2. S \in SUBSET Repos /\ T \in SUBSET Repos
  BY <1>1 DEF Workspace
<1>3. e = [d EXCEPT !.merged = S, !.asIs = T]
  BY DEF Merged
<1>4. Nested = {} => T = d.asIs
  BY <1>1 DEF Local
<1>5. d.merged \subseteq S /\ k \in S
  OBVIOUS
<1> HIDE DEF S, T, e
<1>6. e \in Workspace /\ e.merged = S /\ e.asIs = T /\ e.mono = d.mono /\ e.work = d.work
  BY <1>2, <1>3 DEF Workspace
<1>7. Local(o, c, e)
  BY <1>4, <1>5, <1>6 DEF Local
<1> QED
  BY <1>5, <1>6, <1>7 DEF e

\* A remote that is left behind.
LEMMA LeftRemoteKeeps ==
    ASSUME NEW o, NEW c, NEW d \in Workspace, Local(o, c, d), NEW k \in Repos
    PROVE  LeftRemote(d, k) \in Workspace /\ Local(o, c, LeftRemote(d, k))
<1> DEFINE e == LeftRemote(d, k)
           S == IF d.mono THEN d.remotes \cup {k} ELSE d.remotes
<1>1. S \in SUBSET Repos
  BY DEF Workspace
<1>2. e = [d EXCEPT !.remotes = S]
  BY DEF LeftRemote
<1> HIDE DEF S, e
<1>3. e \in Workspace /\ e.merged = d.merged /\ e.asIs = d.asIs /\ e.mono = d.mono /\ e.work = d.work
  BY <1>1, <1>2 DEF Workspace
<1>4. Local(o, c, e)
  BY <1>3, SameWorkspace
<1> QED
  BY <1>3, <1>4 DEF e

\* A reconcile that merges a repository.
LEMMA ProcessMergingKeeps ==
    ASSUME MonoAssumption, OneProcess, MonoInv, NEW r \in Replicas, ProcessMerging(r)
    PROVE  MonoInv'
<1> DEFINE m == Copy(r)
           d == Initialised(Known(disk[r]), m)
<1>1. /\ InPhase(r, "Merging") /\ PastNotes(r) /\ UNCHANGED hub
      /\ hub' \in Hub /\ Published(obj, hub')
  BY CopyType DEF ProcessMerging, InPhase
<1>2. /\ m \in Object /\ m.st = cache[r].st /\ (m = cache[r] \/ synced[r])
      /\ m.st.phase = "Merging"
      /\ disk[r] \in Workspace /\ disk \in [Replicas -> Workspace]
      /\ Local(obj, cache[r], disk[r])
      /\ Done(m) = Done(cache[r]) /\ cache[r].st.repos \in [Repos -> RepoPhases]
  BY <1>1, CopyType, InPhaseMeans DEF MonoInv, TypeOK, Object, Status
<1>3. d \in Workspace /\ Local(obj, cache[r], d) /\ (NeedsInit(m) => d.mono)
  BY <1>1, <1>2, KnownType, InitialisedKeeps
<1>4. \A k \in Next1(m, "Merging") : k \in Repos /\ k \in InRepoPhase(cache[r], "Merging")
  BY <1>2 DEF Next1, InRepoPhase
<1>5. CASE FailMigration(r, m, 1) /\ disk' = [disk EXCEPT ![r].known = TRUE]
  <2>1. disk' = [disk EXCEPT ![r] = Known(disk[r])]
    BY <1>2, <1>5 DEF Known
  <2>2. Known(disk[r]) \in Workspace /\ Local(obj, cache[r], Known(disk[r]))
    BY <1>2, KnownType, SameWorkspace
  <2> QED
    BY <1>1, <1>5, <2>1, <2>2, PhaseMovesWith DEF FailMigration, Phases
<1> HIDE DEF d
<1>6. CASE Write(r, m, To(m, "Pushing"), TRUE, 0) /\ disk' = [disk EXCEPT ![r] = d]
  BY <1>1, <1>3, <1>6, PhaseMovesWith DEF Phases
<1>7. ASSUME NEW k \in Next1(m, "Merging"), CanMerge(d, k),
             disk' = [disk EXCEPT ![r] = Merged(d, k)],
             Write(r, m, Advanced(m, k, "Completed"), TRUE, 0)
      PROVE  MonoInv'
  <2> DEFINE e == Merged(d, k)
             o == Advanced(m, k, "Completed")
  <2>1. /\ e \in Workspace /\ Local(obj, cache[r], e) /\ k \in e.merged
        /\ d.merged \subseteq e.merged /\ e.mono = d.mono /\ d.mono
    BY <1>3, <1>4, <1>7, MergedKeeps DEF CanMerge
  <2>2. /\ o \in Object /\ o.st.repos = [cache[r].st.repos EXCEPT ![k] = "Completed"]
        /\ o.st.phase = "Merging"
    <3>1. "Completed" \in RepoPhases /\ k \in Repos
      BY <1>4 DEF RepoPhases
    <3>2. /\ o \in Object /\ o.st.repos = [m.st.repos EXCEPT ![k] = "Completed"]
          /\ o.st.phase = m.st.phase
      BY <1>2, <3>1, MonoAssumption, AdvancedType
    <3> QED
      BY <1>2, <3>2
  <2>3. disk' = [disk EXCEPT ![r] = e]
    BY <1>7
  <2> HIDE DEF e, o
  <2>4. ASSUME cache[r] = obj PROVE Local(o, obj, e) /\ Published(o, hub')
    <3>1. \A j \in Repos : o.st.repos[j] = IF j = k THEN "Completed" ELSE obj.st.repos[j]
      BY <1>2, <1>4, <2>2, <2>4
    <3>2. Done(o) \subseteq Done(obj) \cup {k}
      BY <3>1 DEF Done, InRepoPhase
    <3>3. Local(obj, obj, e)
      BY <2>1, <2>4
    <3>4. Done(o) \subseteq e.merged
      BY <2>1, <3>2, <3>3 DEF Local
    <3>5. \A j \in Repos : o.st.repos[j] = "Merging" => obj.st.repos[j] = "Merging"
      BY <3>1
    <3>6. Local(o, obj, e)
      BY <2>1, <3>3, <3>4, <3>5 DEF Local
    <3>7. Published(o, hub')
      BY <1>1, <2>2 DEF Published
    <3> QED
      BY <3>6, <3>7
  <2> QED
    BY <1>1, <1>2, <1>7, <2>1, <2>2, <2>3, <2>4, WriteStep DEF o
<1>8. ASSUME NEW k \in Next1(m, "Merging"),
             disk' = [disk EXCEPT ![r] = LeftRemote(d, k)],
             RepoError(r, m, k, IF CanMerge(d, k) THEN 1 ELSE 0)
      PROVE  MonoInv'
  <2> DEFINE e == LeftRemote(d, k)
             o == AfterRepoError(m, k)
  <2>1. e \in Workspace /\ Local(obj, cache[r], e)
    BY <1>3, <1>4, LeftRemoteKeeps
  <2>2. /\ o \in Object /\ o.st.repos = [cache[r].st.repos EXCEPT ![k] = "Failed"]
        /\ o.st.phase # "Completed"
    BY <1>2, <1>4, MonoAssumption, AfterRepoErrorType
  <2>3. disk' = [disk EXCEPT ![r] = e] /\ \E again, cost : Write(r, m, o, again, cost)
    BY <1>8 DEF RepoError
  <2> HIDE DEF e, o
  <2>4. ASSUME cache[r] = obj PROVE Local(o, obj, e) /\ Published(o, hub')
    <3>1. \A j \in Repos : o.st.repos[j] = IF j = k THEN "Failed" ELSE obj.st.repos[j]
      BY <1>2, <1>4, <2>2, <2>4
    <3>2. Fewer(o, obj)
      BY <3>1 DEF Fewer, Done, InRepoPhase
    <3>3. Local(o, obj, e)
      BY <2>1, <2>4, <3>2, LessAsksLess
    <3>4. Published(o, hub')
      BY <1>1, <2>2 DEF Published
    <3> QED
      BY <3>3, <3>4
  <2> QED
    BY <1>1, <1>2, <2>1, <2>2, <2>3, <2>4, WriteStep
<1>9. \/ FailMigration(r, m, 1) /\ disk' = [disk EXCEPT ![r].known = TRUE]
      \/ Write(r, m, To(m, "Pushing"), TRUE, 0) /\ disk' = [disk EXCEPT ![r] = d]
      \/ \E k \in Next1(m, "Merging") :
            \/ /\ CanMerge(d, k)
               /\ disk' = [disk EXCEPT ![r] = Merged(d, k)]
               /\ Write(r, m, Advanced(m, k, "Completed"), TRUE, 0)
            \/ /\ disk' = [disk EXCEPT ![r] = LeftRemote(d, k)]
               /\ RepoError(r, m, k, IF CanMerge(d, k) THEN 1 ELSE 0)
  BY DEF ProcessMerging, d
<1> QED
  BY <1>5, <1>6, <1>7, <1>8, <1>9

\* A push puts into the repository what the object reports, and only once.
LEMMA PushedKeeps ==
    ASSUME NEW o, NEW c, NEW d \in Workspace, Local(o, c, d), Published(o, hub), CanPush(d)
    PROVE  /\ Pushed(d) \in Hub /\ Published(o, Pushed(d))
           /\ Pushed(d).used /\ Done(o) \subseteq Pushed(d).content
           /\ Nested = {} => Pushed(d).asIs = {}
BY DEF Pushed, CanPush, Published, Local, Hub, Workspace

\* A reconcile that pushes.
LEMMA ProcessPushingKeeps ==
    ASSUME MonoAssumption, OneProcess, MonoInv, NEW r \in Replicas, ProcessPushing(r)
    PROVE  MonoInv'
<1> DEFINE m == Copy(r)
           d == Known(disk[r])
<1>1. InPhase(r, "Pushing") /\ PastNotes(r)
  BY DEF ProcessPushing, InPhase
<1>2. /\ m \in Object /\ m.st = cache[r].st /\ (m = cache[r] \/ synced[r])
      /\ cache[r].st.phase = "Pushing" /\ ~cache[r].deleting
      /\ disk[r] \in Workspace /\ Local(obj, cache[r], disk[r])
      /\ hub \in Hub /\ Published(obj, hub)
  BY <1>1, CopyType, InPhaseMeans
<1>3. d \in Workspace /\ Local(obj, cache[r], d)
  BY <1>2, KnownType, SameWorkspace
<1>4. d.known
  BY <1>2 DEF Known, Workspace
<1> HIDE DEF d
<1>5. CanPush(d) => /\ Pushed(d) \in Hub /\ Published(obj, Pushed(d))
                    /\ Pushed(d).used /\ Done(obj) \subseteq Pushed(d).content
                    /\ Nested = {} => Pushed(d).asIs = {}
  BY <1>2, <1>3, PushedKeeps
<1>6. ASSUME NEW cost, FailMigration(r, m, cost), UNCHANGED <<disk, hub>>
      PROVE  MonoInv'
  BY <1>1, <1>6, PhaseMoves DEF FailMigration, Phases
<1>7. CASE /\ CanPush(d)
           /\ disk' = [disk EXCEPT ![r] = Cleaned(d)]
           /\ hub' = Pushed(d)
           /\ Write(r, m, To(Recounted(m), "Completed"), FALSE, 0)
  <2> DEFINE o == To(Recounted(m), "Completed")
  <2>1. o \in Object /\ o.st.repos = cache[r].st.repos
    <3> DEFINE p == Recounted(m)
    <3>1. p \in Object /\ p.st.repos = m.st.repos
      BY <1>2, MonoAssumption, RecountedType
    <3>2. "Completed" \in Phases
      BY DEF Phases
    <3> HIDE DEF p
    <3>3. To(p, "Completed") \in Object /\ To(p, "Completed").st.repos = p.st.repos
      BY <3>1, <3>2, ToType
    <3> QED
      BY <1>2, <3>1, <3>3 DEF p
  <2>2. Cleaned(d) = NoWorkspace
    BY <1>4 DEF Cleaned
  <2> HIDE DEF o
  <2>3. Local(obj, cache[r], NoWorkspace)
    <3>1. \A k \in Repos : Nested = {} => ~(cache[r].st.repos[k] = "Rewriting" /\ obj.st.repos[k] = "Merging")
      BY <1>2 DEF Local
    <3> QED
      BY <1>2, <3>1, NoWorkspaceType DEF Local
  <2>4. ASSUME cache[r] = obj PROVE Local(o, obj, NoWorkspace) /\ Published(o, hub')
    <3>1. Local(o, obj, NoWorkspace) /\ Done(o) = Done(obj)
      BY <2>1, <2>3, <2>4, SameRepos
    <3> QED
      BY <1>5, <1>7, <3>1 DEF Published
  <2>5. hub' \in Hub /\ Published(obj, hub')
    BY <1>5, <1>7
  <2>6. disk' = [disk EXCEPT ![r] = NoWorkspace]
    BY <1>7, <2>2
  <2>7. Write(r, m, o, FALSE, 0)
    BY <1>7 DEF o
  <2> QED
    BY <1>2, <2>1, <2>3, <2>4, <2>5, <2>6, <2>7, NoWorkspaceType, WriteStep
<1>8. CASE /\ disk' = [disk EXCEPT ![r] = [d EXCEPT !.origin = d.mono]]
           /\ hub' \in IF CanPush(d) THEN {hub, Pushed(d)} ELSE {hub}
           /\ FailMigration(r, m, IF CanPush(d) THEN 1 ELSE 0)
  <2> DEFINE e == [d EXCEPT !.origin = d.mono]
  <2>1. /\ e \in Workspace /\ e.mono = d.mono /\ e.merged = d.merged
        /\ e.asIs = d.asIs /\ e.work = d.work
    BY <1>3 DEF Workspace
  <2>2. disk' = [disk EXCEPT ![r] = e]
    BY <1>8
  <2> HIDE DEF e
  <2>3. Local(obj, cache[r], e)
    BY <1>3, <2>1, SameWorkspace
  <2>4. hub' \in Hub /\ Published(obj, hub')
    BY <1>2, <1>5, <1>8
  <2> QED
    BY <1>1, <1>8, <2>1, <2>2, <2>3, <2>4, PhaseMovesWith DEF FailMigration, Phases
<1> QED
  BY <1>6, <1>7, <1>8 DEF ProcessPushing, d

\* The process is killed between two git commands.
LEMMA CrashAtWorkKeeps ==
    ASSUME MonoAssumption, OneProcess, MonoInv, NEW r \in Replicas, CrashAtWork(r)
    PROVE  MonoInv'
<1> DEFINE m == Copy(r)
<1>0. /\ m.st = cache[r].st /\ disk[r] \in Workspace /\ Local(obj, cache[r], disk[r])
      /\ hub \in Hub /\ Published(obj, hub)
  BY CopyType
<1>1. ASSUME InPhase(r, "Rewriting"), UNCHANGED hub, NEW k \in Next1(m, "Rewriting"),
             Rewriting(disk[r], k, "plain"),
             Restarted(r, [disk[r] EXCEPT !.work[k] = "plain"], FALSE)
      PROVE  MonoInv'
  <2> DEFINE w == [disk[r].work EXCEPT ![k] = "plain"]
             e == [disk[r] EXCEPT !.work = w]
  <2>1. k \in Repos /\ cache[r].st.repos[k] = "Rewriting" /\ disk[r].work[k] # "moved"
    BY <1>0, <1>1, RewritingMeans DEF Next1, InRepoPhase
  <2>2. /\ w \in [Repos -> {"none", "plain", "moved"}]
        /\ \A j \in Repos : j # k => w[j] = disk[r].work[j]
    BY <1>0, <2>1 DEF Workspace
  <2>3. Restarted(r, e, FALSE)
    BY <1>0, <1>1 DEF Workspace
  <2> HIDE DEF w
  <2>4. /\ e \in Workspace /\ e.mono = disk[r].mono /\ e.merged = disk[r].merged
        /\ e.asIs = disk[r].asIs /\ e.work = w
    BY <1>0, <2>2 DEF Workspace
  <2> HIDE DEF e
  <2>5. Nested = {} => obj.st.repos[k] # "Merging"
    BY <1>0, <2>1 DEF Local
  <2>6. Local(obj, obj, disk[r])
    BY <1>0, CaughtUp
  <2>7. Local(obj, obj, e)
    <3>1. ASSUME Nested = {}, NEW j \in Repos, obj.st.repos[j] = "Merging"
          PROVE  e.work[j] # "plain"
      <4>1. j # k
        BY <2>5, <3>1
      <4>2. e.work[j] = disk[r].work[j]
        BY <2>2, <2>4, <4>1
      <4> QED
        BY <2>6, <3>1, <4>2 DEF Local
    <3> QED
      BY <2>4, <2>6, <3>1 DEF Local
  <2> QED
    BY <1>0, <1>1, <2>3, <2>4, <2>7, RestartStep
<1>2. ASSUME InPhase(r, "Merging"), UNCHANGED hub, NEW k \in Next1(m, "Merging"),
             NEW e \in {Initialised(disk[r], m), Merged(Initialised(disk[r], m), k)},
             Restarted(r, LeftRemote(e, k), FALSE)
      PROVE  MonoInv'
  <2> DEFINE d == Initialised(disk[r], m)
  <2>1. k \in Repos /\ k \in InRepoPhase(cache[r], "Merging")
    BY <1>0, <1>2 DEF Next1, InRepoPhase
  <2>2. d \in Workspace /\ Local(obj, cache[r], d)
    BY <1>0, <1>2, InitialisedKeeps
  <2> HIDE DEF d
  <2>3. Merged(d, k) \in Workspace /\ Local(obj, cache[r], Merged(d, k))
    BY <2>1, <2>2, MergedKeeps
  <2>4. e \in Workspace /\ Local(obj, cache[r], e)
    BY <1>2, <2>2, <2>3 DEF d
  <2>5. LeftRemote(e, k) \in Workspace /\ Local(obj, obj, LeftRemote(e, k))
    BY <2>1, <2>4, LeftRemoteKeeps, CaughtUp
  <2> QED
    BY <1>0, <1>2, <2>5, RestartStep
<1>3. ASSUME CanPush(disk[r]), hub' \in {hub, Pushed(disk[r])},
             Restarted(r, [disk[r] EXCEPT !.origin = TRUE], FALSE)
      PROVE  MonoInv'
  <2> DEFINE e == [disk[r] EXCEPT !.origin = TRUE]
  <2>1. /\ e \in Workspace /\ e.mono = disk[r].mono /\ e.merged = disk[r].merged
        /\ e.asIs = disk[r].asIs /\ e.work = disk[r].work
    BY <1>0 DEF Workspace
  <2>2. Restarted(r, e, FALSE)
    BY <1>3
  <2> HIDE DEF e
  <2>3. Local(obj, obj, e)
    BY <1>0, <2>1, SameWorkspace, CaughtUp
  <2>4. hub' \in Hub /\ Published(obj, hub')
    BY <1>0, <1>3, PushedKeeps
  <2> QED
    BY <2>1, <2>2, <2>3, <2>4, RestartStep
<1> QED
  BY <1>1, <1>2, <1>3 DEF CrashAtWork

-----------------------------------------------------------------------------
(* The theorems.                                                           *)

\* A new object reports nothing.
LEMMA MonoStarts ==
    ASSUME MonoAssumption, Init
    PROVE  MonoInv
<1>1. NewStatus \in Status /\ NewStatus.phase = "" /\ \A k \in Repos : NewStatus.repos[k] = "Pending"
  BY DEF NewStatus, Status, Phases, RepoPhases
<1>2. NewObject \in Object /\ NewObject.st = NewStatus
  BY <1>1 DEF NewObject, Object
<1>3. TypeOK
  BY <1>2, NoWorkspaceType DEF Init, TypeOK, Hub
<1>4. Local(NewObject, NewObject, NoWorkspace)
  BY <1>1, <1>2, NoWorkspaceType DEF Local
<1>5. Published(obj, hub)
  BY <1>1, <1>2 DEF Init, Published
<1> QED
  BY <1>3, <1>4, <1>5 DEF Init, MonoInv, Fresh

\* Every step keeps the invariant.
LEMMA MonoKeeps ==
    ASSUME MonoAssumption, OneProcess, MonoInv, [Next]_vars
    PROVE  MonoInv'
<1>1. ASSUME NEW r \in Replicas, Reconcile(r)
      PROVE  MonoInv'
  BY <1>1, EarlyReturnsKeep, FirstPhasesKeep, ProcessCloningKeeps, ProcessRewritingKeeps,
     ProcessMergingKeeps, ProcessPushingKeeps
  DEF Reconcile
<1>2. CASE UNCHANGED vars
  BY <1>2, CalmStep DEF vars, MonoInv, TypeOK, Fresh
<1> QED
  BY <1>1, <1>2, UserKeeps, CacheSyncKeeps, CrashKeeps, CrashAtWorkKeeps DEF Next

\* The invariant holds in every behaviour of one process, whatever its cache shows, its
\* users order, its commands fail at and its crashes destroy.
THEOREM MonoInvariant ==
    ASSUME OneProcess
    PROVE  Spec => []MonoInv
<1>1. Init => MonoInv
  BY MonoAssumption, MonoStarts
<1>2. MonoInv /\ [Next]_vars => MonoInv'
  BY MonoAssumption, MonoKeeps
<1> QED
  BY <1>1, <1>2, PTL DEF Spec

\* A Completed migration has every repository that it reports as Completed on GitHub
\* (PushedHoldsCompleted), for any number of repositories, retries, refused writes, outdated
\* reads, lost disks and commands cut short.
THEOREM MonoPushed ==
    ASSUME OneProcess
    PROVE  Spec => []PushedHoldsCompleted
<1>1. MonoInv => PushedHoldsCompleted
  BY DEF MonoInv, Published, Done, PushedHoldsCompleted
<1> QED
  BY <1>1, MonoInvariant, PTL

\* No repository is merged before its files were moved to its subdirectory
\* (MergedAreRewritten), if none has a directory of that name to begin with.
THEOREM MonoRewritten ==
    ASSUME OneProcess, Nested = {}
    PROVE  Spec => []MergedAreRewritten
<1>1. MonoInv => MergedAreRewritten
  BY DEF MonoInv, Published, Local, MergedAreRewritten
<1> QED
  BY <1>1, MonoInvariant, PTL
================================================================================
