----------------------- MODULE ProjectDependencyProofs -----------------------
(* Theorems about ProjectDependency, for any replicas, migrations, items and *)
(* troubles: GitHub holds no more projects than were asked for, and without  *)
(* trouble a completed migration has its issues in the project, all of them. *)
EXTENDS ProjectDependency, FiniteSetTheorems, TLAPS

Places == {"idle", "got", "creating", "created"}

\* Every version of the custom resource there may be.
Project == [exists : BOOLEAN, owner : Migrations \cup {Nobody}, deleting : BOOLEAN, fin : BOOLEAN,
            app : BOOLEAN, field : BOOLEAN, gen : Nat, observed : Nat,
            phase : {"", "Pending", "Creating", "Ready", "Failed"}, id : Nat]

TypeOK ==
    /\ project \in Project
    /\ cache \in [Replicas -> Project]
    /\ mem \in [Replicas -> Project]
    /\ synced \in [Replicas -> BOOLEAN]
    /\ current \in [Replicas -> BOOLEAN]
    /\ queued \in [Replicas -> BOOLEAN]
    /\ pc \in [Replicas -> Places]
    /\ settings \in [Migrations -> Settings]
    /\ {made, born, resets} \subseteq Nat

\* What two versions must have in common for one to be written over the other.
Alike(o, p) == o.exists = p.exists /\ o.fin = p.fin /\ o.phase = p.phase

\* A copy whose write would be accepted is the custom resource, but for the number of a
\* project that has just been created.
Faithful(r) ==
    /\ synced[r] => cache[r] = project
    /\ current[r] /\ pc[r] # "idle" => Alike(mem[r], project)

\* The replicas that are about to create a project.
AtWork == {r \in Replicas : pc[r] = "creating"}

\* Whether the custom resource lets a replica begin.
Open(o) == IF o.exists /\ Creates(o.phase) THEN 1 ELSE 0

\* The inductive invariant: each custom resource and each order is good for one project,
\* which was made, is being made, or may be begun.
Budgeted ==
    /\ TypeOK
    /\ project.fin => project.exists
    /\ \A r \in Replicas : Faithful(r)
    /\ made + Cardinality(AtWork) + Open(project) <= born + resets

-----------------------------------------------------------------------------
(* The versions of the custom resource.                                    *)

LEMMA AbsentIsProject ==
    Absent \in Project /\ ~Absent.exists /\ ~Absent.fin /\ Open(Absent) = 0
BY DEF Absent, Project, Open

\* An edit of the generation or the observed generation.
LEMMA NumbersChange ==
    ASSUME NEW o \in Project, NEW n \in Nat
    PROVE  /\ [o EXCEPT !.gen = n] \in Project /\ Alike([o EXCEPT !.gen = n], o)
           /\ [o EXCEPT !.observed = n] \in Project /\ Alike([o EXCEPT !.observed = n], o)
           /\ [o EXCEPT !.id = n] \in Project /\ Alike([o EXCEPT !.id = n], o)
BY DEF Project, Alike

\* A new phase.
LEMMA PhaseChange ==
    ASSUME NEW o \in Project, NEW phase \in {"", "Pending", "Creating", "Ready", "Failed"}
    PROVE  /\ [o EXCEPT !.phase = phase] \in Project
           /\ [o EXCEPT !.phase = phase].phase = phase
           /\ [o EXCEPT !.phase = phase].exists = o.exists
           /\ [o EXCEPT !.phase = phase].fin = o.fin
BY DEF Project

\* A deletion marks the custom resource or removes it.
LEMMA DeletedKeeps ==
    ASSUME NEW o \in Project, o.fin => o.exists
    PROVE  /\ Deleted(o) \in Project
           /\ Deleted(o).fin => Deleted(o).exists
           /\ Open(Deleted(o)) <= Open(o)
<1>1. CASE ~o.fin
  <2>1. Deleted(o) = Absent
    BY <1>1 DEF Deleted
  <2> QED
    BY <2>1, AbsentIsProject DEF Open
<1>2. CASE o.fin
  <2> DEFINE n == o.gen + 1
             p == [o EXCEPT !.deleting = TRUE]
             q == [p EXCEPT !.gen = n]
  <2>1. o.gen \in Nat
    BY DEF Project
  <2>2. n \in Nat
    BY <2>1
  <2> HIDE DEF n
  <2>3. p \in Project /\ Alike(p, o)
    BY DEF Project, Alike
  <2> HIDE DEF p
  <2>4. q \in Project /\ Alike(q, p)
    BY <2>2, <2>3, NumbersChange
  <2>5. Deleted(o) = q
    BY <1>2 DEF Deleted, n, p
  <2> HIDE DEF q
  <2> QED
    BY <1>2, <2>3, <2>4, <2>5 DEF Alike, Open
<1> QED
  BY <1>1, <1>2

-----------------------------------------------------------------------------
(* The number of replicas at work.                                         *)

LEMMA AtWorkFinite ==
    ASSUME ProjectAssumption
    PROVE  IsFiniteSet(AtWork) /\ Cardinality(AtWork) \in Nat
BY FS_Subset, FS_CardinalityType DEF ProjectAssumption, AtWork

\* One replica moves.
LEMMA AtWorkMoves ==
    ASSUME ProjectAssumption, TypeOK, NEW r \in Replicas, NEW at \in Places,
           pc' = [pc EXCEPT ![r] = at]
    PROVE  /\ Cardinality(AtWork') \in Nat
           /\ at # "creating" => Cardinality(AtWork') <= Cardinality(AtWork)
           /\ at # "creating" /\ pc[r] = "creating" => Cardinality(AtWork') = Cardinality(AtWork) - 1
           /\ Cardinality(AtWork') <= Cardinality(AtWork) + 1
<1>1. IsFiniteSet(AtWork) /\ Cardinality(AtWork) \in Nat
  BY AtWorkFinite
<1>2. \A s \in Replicas : pc'[s] = IF s = r THEN at ELSE pc[s]
  BY DEF TypeOK
<1>3. AtWork' = IF at = "creating" THEN AtWork \cup {r} ELSE AtWork \ {r}
  BY <1>2 DEF AtWork
<1>4. pc[r] = "creating" <=> r \in AtWork
  BY DEF AtWork
<1>5. CASE at = "creating"
  <2>1. Cardinality(AtWork \cup {r}) = IF r \in AtWork THEN Cardinality(AtWork) ELSE Cardinality(AtWork) + 1
    BY <1>1, FS_AddElement
  <2> QED
    BY <1>1, <1>3, <1>5, <2>1
<1>6. CASE at # "creating"
  <2>1. Cardinality(AtWork \ {r}) = IF r \in AtWork THEN Cardinality(AtWork) - 1 ELSE Cardinality(AtWork)
    BY <1>1, FS_RemoveElement
  <2>2. Cardinality(AtWork \ {r}) \in Nat
    BY <1>1, FS_RemoveElement, FS_CardinalityType
  <2> QED
    BY <1>1, <1>3, <1>4, <1>6, <2>1, <2>2
<1> QED
  BY <1>5, <1>6

-----------------------------------------------------------------------------
(* What the steps of the API server and of a reconcile have in common.     *)

\* The custom resource becomes o and no replica goes on with a copy of it.
LEMMA StoredFaithful ==
    ASSUME ProjectAssumption, Budgeted, NEW o \in Project, Stored(o, Nobody), UNCHANGED cache,
           mem' \in [Replicas -> Project], pc' \in [Replicas -> Places],
           \A r \in Replicas : pc'[r] # "idle" => mem'[r] = mem[r] /\ pc[r] # "idle"
    PROVE  /\ synced' \in [Replicas -> BOOLEAN] /\ current' \in [Replicas -> BOOLEAN]
           /\ \A r \in Replicas : Faithful(r)'
<1>1. /\ project' = o
      /\ synced' = [r \in Replicas |-> synced[r] /\ o = project]
      /\ current' = [r \in Replicas |-> r = Nobody \/ (current[r] /\ o = project)]
  BY DEF Stored
<1>2. \A r \in Replicas : r # Nobody
  BY DEF ProjectAssumption
<1>3. \A r \in Replicas : /\ synced'[r] => synced[r] /\ o = project
                          /\ current'[r] => current[r] /\ o = project
  BY <1>1, <1>2
<1> QED
  BY <1>1, <1>3 DEF Budgeted, Faithful

\* A step outside the reconciles changes the custom resource and asks for no more projects
\* than it counts.
LEMMA OutsideKeeps ==
    ASSUME ProjectAssumption, Budgeted, NEW o \in Project, Stored(o, Nobody),
           UNCHANGED <<cache, queued, pc, mem, settings, made>>,
           o.fin => o.exists, born' \in Nat, resets' \in Nat,
           Open(o) - Open(project) <= (born' + resets') - (born + resets)
    PROVE  Budgeted'
<1>1. mem' \in [Replicas -> Project] /\ pc' \in [Replicas -> Places]
  BY DEF Budgeted, TypeOK
<1>2. /\ synced' \in [Replicas -> BOOLEAN] /\ current' \in [Replicas -> BOOLEAN]
      /\ \A r \in Replicas : Faithful(r)'
  BY <1>1, StoredFaithful
<1>3. project' = o /\ AtWork' = AtWork
  BY DEF Stored, AtWork
<1>4. TypeOK'
  BY <1>2, <1>3 DEF Budgeted, TypeOK
<1>5. Open(project) \in Int /\ Open(project') \in Int /\ Cardinality(AtWork) \in Nat
  BY AtWorkFinite DEF Open
<1>6. made' + Cardinality(AtWork') + Open(project)' <= born' + resets'
  BY <1>3, <1>5 DEF Budgeted, TypeOK, Open
<1> QED
  BY <1>2, <1>3, <1>4, <1>6 DEF Budgeted

\* A step that ends the reconcile of r and leaves the custom resource alone.
LEMMA ReturnKeeps ==
    ASSUME ProjectAssumption, Budgeted, NEW r \in Replicas, UNCHANGED server, Return(r),
           queued' \in [Replicas -> BOOLEAN], UNCHANGED <<cache, settings, made, born, resets>>
    PROVE  Budgeted'
<1>1. pc' = [pc EXCEPT ![r] = "idle"] /\ mem' = [mem EXCEPT ![r] = Absent]
  BY DEF Return
<1>2. TypeOK'
  BY <1>1, AbsentIsProject DEF Budgeted, TypeOK, server, Places
<1>3. \A s \in Replicas : Faithful(s)'
  <2>1. \A s \in Replicas : pc'[s] # "idle" => mem'[s] = mem[s] /\ pc[s] # "idle"
    BY <1>1 DEF Budgeted, TypeOK
  <2> QED
    BY <2>1 DEF Budgeted, Faithful, server
<1>4. Cardinality(AtWork') \in Nat /\ Cardinality(AtWork') <= Cardinality(AtWork)
  BY <1>1, AtWorkMoves DEF Budgeted, Places
<1>5. Open(project)' = Open(project) /\ Open(project) \in Int
  BY DEF server, Open
<1>6. Cardinality(AtWork) \in Nat
  BY AtWorkFinite
<1> QED
  BY <1>2, <1>3, <1>4, <1>5, <1>6 DEF Budgeted, TypeOK, server

\* A failed write.
LEMMA FailureKeeps ==
    ASSUME ProjectAssumption, Budgeted, NEW r \in Replicas, WriteFails(r)
    PROVE  Budgeted'
<1>1. queued' \in [Replicas -> BOOLEAN]
  BY DEF WriteFails, Budgeted, TypeOK
<1> QED
  BY <1>1, ReturnKeeps DEF WriteFails, Refused, Rest, world

\* The copy of a reconcile whose write would be accepted.
LEMMA CopyFaithful ==
    ASSUME Budgeted, NEW r \in Replicas
    PROVE  Copy(r) \in Project /\ (Latest(r) => Alike(Copy(r), project))
BY DEF Budgeted, TypeOK, Faithful, Copy, Latest, Alike

\* A reconcile writes and returns.
LEMMA WriteReturns ==
    ASSUME ProjectAssumption, Budgeted, NEW r \in Replicas, NEW o \in Project,
           WriteAndReturn(r, o),
           Latest(r) => (o.fin => o.exists) /\ Open(o) <= Open(project)
    PROVE  Budgeted'
<1>1. CASE WriteFails(r)
  BY <1>1, FailureKeeps
<1>2. CASE Put(r, o, Nobody) /\ Return(r) /\ Rest
           /\ queued' = [queued EXCEPT ![r] = @ /\ pc[r] # "idle"]
  <2>1. /\ Stored(o, Nobody) /\ UNCHANGED <<cache, settings, made, born, resets>>
        /\ (o.fin => o.exists) /\ Open(o) <= Open(project) /\ project' = o
        /\ pc' = [pc EXCEPT ![r] = "idle"] /\ mem' = [mem EXCEPT ![r] = Absent]
    BY <1>2 DEF Put, Return, Rest, world, Stored
  <2>2. /\ mem' \in [Replicas -> Project] /\ pc' \in [Replicas -> Places]
        /\ \A s \in Replicas : pc'[s] # "idle" => mem'[s] = mem[s] /\ pc[s] # "idle"
    BY <2>1, AbsentIsProject DEF Budgeted, TypeOK, Places
  <2>3. /\ synced' \in [Replicas -> BOOLEAN] /\ current' \in [Replicas -> BOOLEAN]
        /\ \A s \in Replicas : Faithful(s)'
    BY <2>1, <2>2, StoredFaithful
  <2>4. queued' \in [Replicas -> BOOLEAN]
    BY <1>2 DEF Budgeted, TypeOK
  <2>5. TypeOK'
    BY <2>1, <2>2, <2>3, <2>4 DEF Budgeted, TypeOK
  <2>6. Cardinality(AtWork') \in Nat /\ Cardinality(AtWork') <= Cardinality(AtWork)
    BY <2>1, AtWorkMoves DEF Budgeted, Places
  <2>7. Cardinality(AtWork) \in Nat /\ Open(project) \in Int /\ Open(o) \in Int
    BY AtWorkFinite DEF Open
  <2>8. Open(project)' = Open(o)
    BY <2>1 DEF Open
  <2>9. made' + Cardinality(AtWork') + Open(project)' <= born' + resets'
    BY <2>1, <2>6, <2>7, <2>8 DEF Budgeted, TypeOK
  <2> QED
    BY <2>1, <2>3, <2>5, <2>9 DEF Budgeted
<1> QED
  BY <1>1, <1>2 DEF WriteAndReturn

\* A reconcile writes and goes on.  To begin a creation it must have been allowed to.
LEMMA WriteGoesOn ==
    ASSUME ProjectAssumption, Budgeted, NEW r \in Replicas, NEW o \in Project,
           NEW at \in {"got", "creating"}, WriteAndGoOn(r, o, at),
           Latest(r) => /\ o.fin => o.exists
                        /\ Open(o) <= Open(project) /\ pc[r] # "creating"
                        /\ at = "creating" => Open(o) = 0 /\ Open(project) = 1
    PROVE  Budgeted'
<1>1. CASE WriteFails(r)
  BY <1>1, FailureKeeps
<1>2. CASE /\ Put(r, o, r) /\ Rest
           /\ pc' = [pc EXCEPT ![r] = at] /\ mem' = [mem EXCEPT ![r] = o]
           /\ queued' = [queued EXCEPT ![r] = @ /\ pc[r] # "idle"]
  <2>1. /\ UNCHANGED <<cache, settings, made, born, resets>>
        /\ (o.fin => o.exists) /\ Open(o) <= Open(project) /\ project' = o
        /\ (at = "creating" => Open(o) = 0 /\ Open(project) = 1)
        /\ synced' = [s \in Replicas |-> synced[s] /\ o = project]
        /\ current' = [s \in Replicas |-> s = r \/ (current[s] /\ o = project)]
    BY <1>2 DEF Put, Rest, world, Stored
  <2>2. /\ mem' \in [Replicas -> Project] /\ pc' \in [Replicas -> Places]
        /\ synced' \in [Replicas -> BOOLEAN] /\ current' \in [Replicas -> BOOLEAN]
        /\ queued' \in [Replicas -> BOOLEAN]
    BY <1>2, <2>1 DEF Budgeted, TypeOK, Places
  <2>3. TypeOK'
    BY <2>1, <2>2 DEF Budgeted, TypeOK
  <2>4. ASSUME NEW s \in Replicas PROVE Faithful(s)'
    <3>1. synced'[s] => cache'[s] = project'
      BY <2>1 DEF Budgeted, Faithful
    <3>2. CASE s = r
      <4>1. mem'[s] = project'
        BY <1>2, <2>1, <3>2 DEF Budgeted, TypeOK
      <4> QED
        BY <3>1, <4>1 DEF Faithful, Alike
    <3>3. CASE s # r
      <4>1. mem'[s] = mem[s] /\ pc'[s] = pc[s] /\ (current'[s] => current[s] /\ project' = project)
        BY <1>2, <2>1, <3>3 DEF Budgeted, TypeOK
      <4> QED
        BY <3>1, <4>1 DEF Budgeted, Faithful, Alike
    <3> QED
      BY <3>2, <3>3
  <2>5. /\ Cardinality(AtWork') \in Nat
        /\ at # "creating" => Cardinality(AtWork') <= Cardinality(AtWork)
        /\ Cardinality(AtWork') <= Cardinality(AtWork) + 1
    BY <1>2, AtWorkMoves DEF Budgeted, Places
  <2>6. Cardinality(AtWork) \in Nat /\ Open(project) \in Int /\ Open(o) \in Int
    BY AtWorkFinite DEF Open
  <2>7. Open(project)' = Open(o)
    BY <2>1 DEF Open
  <2>8. made' + Cardinality(AtWork') + Open(project)' <= born' + resets'
    BY <2>1, <2>5, <2>6, <2>7 DEF Budgeted, TypeOK
  <2> QED
    BY <2>1, <2>3, <2>4, <2>8 DEF Budgeted
<1> QED
  BY <1>1, <1>2 DEF WriteAndGoOn

-----------------------------------------------------------------------------
(* The actions.                                                            *)

\* Users, the garbage collector and the migrations that create the custom resource.
LEMMA UsersKeep ==
    ASSUME ProjectAssumption, Budgeted,
           ChangeProjectSpec \/ DeleteProject \/ ResetProject \/ CollectGarbage
    PROVE  Budgeted'
<1>0. project \in Project /\ born \in Nat /\ resets \in Nat /\ (project.fin => project.exists)
  BY DEF Budgeted, TypeOK
<1>1. CASE ChangeProjectSpec
  <2> DEFINE n == project.gen + 1
             o == [project EXCEPT !.gen = n]
  <2>1. project.gen \in Nat
    BY <1>0 DEF Project
  <2>2. n \in Nat
    BY <2>1
  <2>3. Stored(o, Nobody) /\ UNCHANGED <<cache, queued, pc, mem, settings, made, born, resets>>
    BY <1>1 DEF ChangeProjectSpec, world
  <2> HIDE DEF n
  <2>4. o \in Project /\ Alike(o, project)
    BY <1>0, <2>2, NumbersChange
  <2> HIDE DEF o
  <2>5. (o.fin => o.exists) /\ Open(o) = Open(project) /\ Open(o) \in Int
    BY <1>0, <2>4 DEF Alike, Open
  <2>6. Open(o) - Open(project) <= (born' + resets') - (born + resets)
    BY <1>0, <2>3, <2>5
  <2> QED
    BY <1>0, <2>3, <2>4, <2>5, <2>6, OutsideKeeps
<1>2. CASE DeleteProject \/ CollectGarbage
  <2>1. /\ Stored(Deleted(project), Nobody)
        /\ UNCHANGED <<cache, queued, pc, mem, settings, made, born, resets>>
    BY <1>2 DEF DeleteProject, CollectGarbage, world
  <2>2. /\ Deleted(project) \in Project /\ (Deleted(project).fin => Deleted(project).exists)
        /\ Open(Deleted(project)) <= Open(project)
    BY <1>0, DeletedKeeps
  <2>3. Open(project) \in Int /\ Open(Deleted(project)) \in Int
    BY DEF Open
  <2>4. Open(Deleted(project)) - Open(project) <= (born' + resets') - (born + resets)
    BY <1>0, <2>1, <2>2, <2>3
  <2> QED
    BY <1>0, <2>1, <2>2, <2>4, OutsideKeeps
<1>3. CASE ResetProject
  <2> DEFINE o == [project EXCEPT !.phase = "Pending"]
  <2>1. /\ Stored(o, Nobody) /\ resets' = resets + 1 /\ project.phase = "Failed"
        /\ UNCHANGED <<cache, queued, pc, mem, settings, made, born>>
    BY <1>3 DEF ResetProject, world
  <2>2. o \in Project /\ o.exists = project.exists /\ o.fin = project.fin
    BY <1>0, PhaseChange
  <2>3. Open(project) = 0 /\ Open(o) \in {0, 1}
    BY <2>1 DEF Open, Creates
  <2> HIDE DEF o
  <2>4. Open(o) - Open(project) <= (born' + resets') - (born + resets) /\ resets' \in Nat
    BY <1>0, <2>1, <2>3
  <2> QED
    BY <1>0, <2>1, <2>2, <2>4, OutsideKeeps
<1> QED
  BY <1>1, <1>2, <1>3

\* A migration creates the custom resource that is not there.
LEMMA CreationKeeps ==
    ASSUME ProjectAssumption, Budgeted, NEW m \in Migrations, NEW r \in Replicas,
           CreateProjectObject(m, r), ~project.exists
    PROVE  Budgeted'
<1>0. project \in Project /\ born \in Nat /\ resets \in Nat
  BY DEF Budgeted, TypeOK
<1>1. /\ Stored(Born(m), Nobody) /\ born' = born + 1
      /\ UNCHANGED <<cache, queued, pc, mem, settings, made, resets>>
  BY DEF CreateProjectObject, world
<1>2. Born(m) \in Project /\ ~Born(m).fin
  BY DEF Budgeted, TypeOK, Settings, Born, Absent, Project
<1>3. Open(project) = 0 /\ Open(Born(m)) \in {0, 1}
  BY DEF Open
<1>4. Open(Born(m)) - Open(project) <= (born' + resets') - (born + resets) /\ born' \in Nat
  BY <1>0, <1>1, <1>3
<1> QED
  BY <1>0, <1>1, <1>2, <1>4, OutsideKeeps

\* A reconcile of the project.
LEMMA ReconcileKeeps ==
    ASSUME ProjectAssumption, Budgeted, NEW r \in Replicas, ReconcileProject(r)
    PROVE  Budgeted'
<1> DEFINE c == Copy(r)
<1>0. /\ c \in Project /\ (Latest(r) => Alike(c, project))
      /\ (project.fin => project.exists) /\ project \in Project /\ pc \in [Replicas -> Places]
  BY CopyFaithful DEF Budgeted, TypeOK
<1>1. Open(project) \in {0, 1}
  BY DEF Open
<1>2. CASE NotFound(r)
  <2>1. UNCHANGED <<server, cache, pc, mem, settings, made, born, resets>>
        /\ queued' \in [Replicas -> BOOLEAN]
    BY <1>2 DEF NotFound, world, Budgeted, TypeOK
  <2> QED
    BY <2>1 DEF server, Budgeted, TypeOK, Faithful, AtWork
<1>3. CASE HandleSpecChange(r)
  <2> DEFINE n == c.gen
             o == [c EXCEPT !.observed = n]
  <2>1. n \in Nat
    BY <1>0 DEF Project
  <2>2. WriteAndReturn(r, o)
    BY <1>3 DEF HandleSpecChange, Observed
  <2> HIDE DEF n
  <2>3. o \in Project /\ Alike(o, c)
    BY <1>0, <2>1, NumbersChange
  <2> HIDE DEF o, c
  <2>4. Open(o) = Open(c) /\ o.fin = c.fin /\ o.exists = c.exists
    BY <2>3 DEF Alike, Open
  <2>5. Latest(r) => Open(c) = Open(project) /\ c.fin = project.fin /\ c.exists = project.exists
    BY <1>0 DEF Alike, Open
  <2>6. Latest(r) => (o.fin => o.exists)
    BY <1>0, <2>4, <2>5
  <2>7. Latest(r) => Open(o) <= Open(project)
    BY <1>1, <2>4, <2>5
  <2> QED
    BY <2>2, <2>3, <2>6, <2>7, WriteReturns
<1>4. CASE AddFinalizer(r)
  <2> DEFINE o == [c EXCEPT !.fin = TRUE]
  <2>1. WriteAndGoOn(r, o, "got") /\ c.exists /\ pc[r] # "creating"
    BY <1>4 DEF AddFinalizer, At
  <2>2. o \in Project /\ o.exists = c.exists /\ o.phase = c.phase
    BY <1>0 DEF Project
  <2> HIDE DEF o, c
  <2>3. Open(o) = Open(c) /\ o.exists
    BY <2>1, <2>2 DEF Open
  <2>4. Latest(r) => Open(c) = Open(project)
    BY <1>0 DEF Alike, Open
  <2>5. Latest(r) => Open(o) <= Open(project)
    BY <1>1, <2>3, <2>4
  <2> QED
    BY <2>1, <2>2, <2>3, <2>5, WriteGoesOn
<1>5. CASE ReconcileDelete(r)
  <2>1. WriteAndReturn(r, Absent)
    BY <1>5 DEF ReconcileDelete
  <2> QED
    BY <1>1, <2>1, AbsentIsProject, WriteReturns
<1>6. CASE StartCreation(r)
  <2> DEFINE n == c.gen
             p == [c EXCEPT !.observed = n]
             o == [p EXCEPT !.phase = "Creating"]
  <2>1. /\ WriteAndGoOn(r, o, "creating")
        /\ pc[r] # "creating" /\ c.fin /\ Creates(c.phase)
    BY <1>6 DEF StartCreation, Live, At, Observed
  <2>2. n \in Nat
    BY <1>0 DEF Project
  <2> HIDE DEF n
  <2>3. p \in Project /\ Alike(p, c)
    BY <1>0, <2>2, NumbersChange
  <2> HIDE DEF p
  <2>4. o \in Project /\ o.phase = "Creating" /\ o.exists = p.exists /\ o.fin = p.fin
    BY <2>3, PhaseChange
  <2> HIDE DEF o, c
  <2>5. Latest(r) => (o.fin => o.exists) /\ Open(o) = 0 /\ Open(project) = 1
    BY <1>0, <2>1, <2>3, <2>4 DEF Alike, Open, Creates
  <2>6. Latest(r) => Open(o) <= Open(project)
    BY <2>5
  <2> QED
    BY <2>1, <2>4, <2>5, <2>6, WriteGoesOn
<1>7. CASE CheckCreationStatus(r)
  <2>1. /\ Return(r) /\ UNCHANGED <<server, cache, settings, made, born, resets>>
        /\ queued' \in [Replicas -> BOOLEAN]
    BY <1>7 DEF CheckCreationStatus, world, Budgeted, TypeOK
  <2> QED
    BY <2>1, ReturnKeeps
<1>8. CASE CreateProject(r)
  <2> DEFINE n == made + 1
  <2>1. made \in Nat /\ n \in Nat /\ mem[r] \in Project
    BY DEF Budgeted, TypeOK
  <2>2. /\ pc[r] = "creating" /\ made' = made + 1 /\ pc' = [pc EXCEPT ![r] = "created"]
        /\ mem' = [mem EXCEPT ![r] = [mem[r] EXCEPT !.id = n]]
        /\ UNCHANGED <<server, cache, queued, settings, born, resets>>
    BY <1>8 DEF CreateProject, Budgeted, TypeOK
  <2>3. n = made + 1
    OBVIOUS
  <2> HIDE DEF n
  <2>4. made \in Nat /\ n \in Nat /\ mem[r] \in Project /\ [mem[r] EXCEPT !.id = n] \in Project
        /\ Alike([mem[r] EXCEPT !.id = n], mem[r])
    BY <2>1, NumbersChange
  <2>5. TypeOK'
    BY <2>4, <2>2 DEF Budgeted, TypeOK, server, Places
  <2>6. \A s \in Replicas : Faithful(s)'
    <3>1. \A s \in Replicas : Alike(mem'[s], mem[s]) /\ (pc'[s] # "idle" => pc[s] # "idle")
      BY <2>4, <2>2 DEF Budgeted, TypeOK, Alike
    <3> QED
      BY <2>2, <3>1 DEF Budgeted, Faithful, server, Alike
  <2>7. Cardinality(AtWork') = Cardinality(AtWork) - 1
    BY <2>2, AtWorkMoves DEF Budgeted, Places
  <2>8. Cardinality(AtWork) \in Nat
    BY AtWorkFinite
  <2>9. Open(project)' = Open(project) /\ project' = project
    BY <2>2 DEF server, Open
  <2>10. made' + Cardinality(AtWork') + Open(project)' <= born' + resets'
    BY <1>1, <2>4, <2>2, <2>7, <2>8, <2>9 DEF Budgeted, TypeOK
  <2> QED
    BY <2>5, <2>6, <2>9, <2>10 DEF Budgeted
<1>9. CASE SetFailedStatus(r) \/ RecordProject(r)
  <2>1. mem[r] \in Project /\ c = mem[r] /\ pc[r] # "idle"
    BY <1>9 DEF SetFailedStatus, RecordProject, Copy, Budgeted, TypeOK
  <2>2. PICK phase \in {"Failed", "Ready"}, n \in Nat :
            WriteAndReturn(r, [[mem[r] EXCEPT !.phase = phase] EXCEPT !.id = n])
    <3>1. CASE SetFailedStatus(r)
      <4>1. WriteAndReturn(r, [[mem[r] EXCEPT !.phase = "Failed"] EXCEPT !.id = 0])
        BY <3>1 DEF SetFailedStatus
      <4> QED
        BY <4>1
    <3>2. CASE RecordProject(r)
      <4> DEFINE x == [mem[r] EXCEPT !.phase = "Ready"]
      <4>1. WriteAndReturn(r, x)
        BY <3>2 DEF RecordProject
      <4>2. x \in Project
        BY <2>1, PhaseChange
      <4>3. x.id \in Nat /\ [x EXCEPT !.id = x.id] = x
        BY <4>2 DEF Project
      <4> QED
        BY <4>1, <4>3
    <3> QED
      BY <1>9, <3>1, <3>2
  <2> DEFINE p == [mem[r] EXCEPT !.phase = phase]
             o == [p EXCEPT !.id = n]
  <2>3. phase \in {"", "Pending", "Creating", "Ready", "Failed"}
    OBVIOUS
  <2>4. p \in Project /\ p.phase = phase /\ p.exists = c.exists /\ p.fin = c.fin
    <3> HIDE DEF c
    <3> QED
      BY <2>1, <2>3, PhaseChange DEF Project
  <2>5. WriteAndReturn(r, o)
    BY <2>2
  <2> HIDE DEF p
  <2>6. o \in Project /\ Alike(o, p)
    BY <2>4, NumbersChange
  <2> HIDE DEF o, c
  <2>7. Open(o) = 0 /\ o.exists = c.exists /\ o.fin = c.fin
    BY <2>4, <2>6 DEF Alike, Open, Creates
  <2>8. Latest(r) => c.fin = project.fin /\ c.exists = project.exists
    BY <1>0 DEF Alike
  <2>9. Latest(r) => (o.fin => o.exists)
    BY <1>0, <2>7, <2>8
  <2>10. Open(o) <= Open(project)
    BY <1>1, <2>7
  <2> QED
    BY <2>5, <2>6, <2>9, <2>10, WriteReturns
<1> QED
  BY <1>2, <1>3, <1>4, <1>5, <1>6, <1>7, <1>8, <1>9 DEF ReconcileProject

\* The watch delivers, and a process dies.
LEMMA ProcessKeeps ==
    ASSUME ProjectAssumption, Budgeted, NEW r \in Replicas, CacheSync(r) \/ Crash(r)
    PROVE  Budgeted'
<1>1. /\ project' = project /\ UNCHANGED <<settings, made, born, resets>>
      /\ cache' = [cache EXCEPT ![r] = project] /\ synced' = [synced EXCEPT ![r] = TRUE]
      /\ queued' \in [Replicas -> BOOLEAN]
  BY DEF CacheSync, Crash, world, Budgeted, TypeOK, Project
<1>2. /\ current' \in [Replicas -> BOOLEAN] /\ mem' \in [Replicas -> Project]
      /\ pc' \in [Replicas -> Places]
      /\ \A s \in Replicas : current'[s] /\ pc'[s] # "idle"
            => current[s] /\ pc[s] # "idle" /\ mem'[s] = mem[s]
  <2>1. CASE CacheSync(r)
    BY <2>1 DEF CacheSync, Budgeted, TypeOK
  <2>2. CASE Crash(r)
    <3>1. /\ current' = [current EXCEPT ![r] = FALSE] /\ mem' = [mem EXCEPT ![r] = Absent]
          /\ pc' = [pc EXCEPT ![r] = "idle"]
      BY <2>2 DEF Crash, Return
    <3> QED
      BY <3>1, AbsentIsProject DEF Budgeted, TypeOK, Places
  <2> QED
    BY <2>1, <2>2
<1>3. TypeOK'
  BY <1>1, <1>2 DEF Budgeted, TypeOK
<1>4. \A s \in Replicas : Faithful(s)'
  BY <1>1, <1>2 DEF Budgeted, TypeOK, Faithful
<1>5. Cardinality(AtWork') \in Nat /\ Cardinality(AtWork') <= Cardinality(AtWork)
  <2>1. CASE CacheSync(r)
    BY <2>1, AtWorkFinite DEF CacheSync, AtWork
  <2>2. CASE Crash(r)
    BY <2>2, AtWorkMoves DEF Crash, Return, Budgeted, Places
  <2> QED
    BY <2>1, <2>2
<1>6. Cardinality(AtWork) \in Nat /\ Open(project)' = Open(project) /\ Open(project) \in Int
  BY <1>1, AtWorkFinite DEF Open
<1>7. made' + Cardinality(AtWork') + Open(project)' <= born' + resets'
  BY <1>1, <1>5, <1>6 DEF Budgeted, TypeOK
<1> QED
  BY <1>1, <1>3, <1>4, <1>7 DEF Budgeted

\* What has nothing to do with the custom resource.
LEMMA OthersKeep ==
    ASSUME Budgeted,
           UNCHANGED <<server, cache, queued, pc, mem, settings, made, born, resets>>
    PROVE  Budgeted'
BY DEF server, Budgeted, TypeOK, Faithful, AtWork

\* Every step.
LEMMA StepKeeps ==
    ASSUME ProjectAssumption, Budgeted, [Next]_vars
    PROVE  Budgeted'
<1>1. ASSUME NEW m \in Migrations, ReconcileMigration(m) PROVE Budgeted'
  <2>1. CASE \E r \in Replicas : CreateProjectObject(m, r) /\ ~project.exists
    BY <2>1, CreationKeeps
  <2>2. CASE \E r \in Replicas : CreateProjectObject(m, r) /\ project.exists
    BY <2>2, OthersKeep DEF CreateProjectObject, world
  <2>3. CASE \E r \in Replicas : CheckRepository(m, r) \/ CreateTargetRepository(m, r)
    BY <2>3, OthersKeep DEF CheckRepository, CreateTargetRepository, world
  <2>4. CASE RetryFailed(m) \/ FailMigration(m) \/ AddIssuesToProject(m)
    BY <2>4, OthersKeep DEF RetryFailed, FailMigration, AddIssuesToProject, world
  <2> QED
    BY <1>1, <2>1, <2>2, <2>3, <2>4 DEF ReconcileMigration
<1>2. CASE Users
  <2>1. CASE CreateSecret \/ \E m \in Migrations : DeleteMigration(m)
    BY <2>1, OthersKeep DEF CreateSecret, DeleteMigration
  <2> QED
    BY <1>2, <2>1, UsersKeep DEF Users
<1>3. CASE RepositoryMigrationEnds \/ UNCHANGED vars
  BY <1>3, OthersKeep DEF RepositoryMigrationEnds, vars, world
<1> QED
  BY <1>1, <1>2, <1>3, UsersKeep, ProcessKeeps, ReconcileKeeps DEF Next

\* At first there is nothing, or the custom resource of a user.
LEMMA InitBudgeted ==
    ASSUME ProjectAssumption, Init
    PROVE  Budgeted
<1>1. project \in Project /\ ~project.fin /\ born \in Nat
  <2>1. Given \in Project /\ ~Given.fin
    <3> DEFINE p == [Absent EXCEPT !.exists = TRUE]
    <3>1. p \in Project /\ ~p.fin
      BY DEF Absent, Project
    <3>2. Given = [p EXCEPT !.field = TRUE]
      BY DEF Given
    <3> HIDE DEF p
    <3> QED
      BY <3>1, <3>2 DEF Project
  <2> QED
    BY <2>1, AbsentIsProject DEF Init
<1>2. TypeOK
  <2>1. project \in Project /\ Absent \in Project /\ project.exists \in BOOLEAN
    BY <1>1, AbsentIsProject DEF Project
  <2>2. cache \in [Replicas -> Project] /\ mem \in [Replicas -> Project]
    BY <2>1 DEF Init
  <2>3. /\ synced \in [Replicas -> BOOLEAN] /\ current \in [Replicas -> BOOLEAN]
        /\ queued \in [Replicas -> BOOLEAN] /\ pc \in [Replicas -> Places]
    BY <2>1 DEF Init, Places
  <2>4. settings \in [Migrations -> Settings] /\ {made, born, resets} \subseteq Nat
    BY DEF Init
  <2> QED
    BY <2>1, <2>2, <2>3, <2>4 DEF TypeOK
<1>3. \A r \in Replicas : Faithful(r)
  BY DEF Init, Faithful
<1>4. AtWork = {} /\ Cardinality(AtWork) = 0
  BY FS_EmptySet DEF Init, AtWork
<1>5. made = 0 /\ resets = 0 /\ Open(project) <= born
  BY DEF Init, Open
<1>6. Open(project) \in Int
  BY DEF Open
<1>7. made + Cardinality(AtWork) + Open(project) <= born + resets
  BY <1>1, <1>4, <1>5, <1>6
<1> QED
  BY <1>1, <1>2, <1>3, <1>7 DEF Budgeted

-----------------------------------------------------------------------------

\* In every behaviour the copies whose writes would be accepted are faithful, and the right
\* to create a project is handed on by the phase Creating, never doubled.
THEOREM BudgetKept == Spec => []Budgeted
<1>1. Init => Budgeted
  BY ProjectAssumption, InitBudgeted
<1>2. Budgeted /\ [Next]_vars => Budgeted'
  BY ProjectAssumption, StepKeeps
<1> QED
  BY <1>1, <1>2, PTL DEF Spec

\* No number of replicas, outdated copies, refused writes and crashes makes the reconciler
\* create a project that no custom resource and no order of a user accounts for
\* (ProjectsWithinAttempts).
THEOREM OneProjectEach == Spec => []ProjectsWithinAttempts
<1>1. Budgeted => ProjectsWithinAttempts
  <2> SUFFICES ASSUME Budgeted PROVE ProjectsWithinAttempts
    OBVIOUS
  <2>1. Cardinality(AtWork) \in Nat
    BY ProjectAssumption, AtWorkFinite
  <2>2. Open(project) \in {0, 1}
    BY DEF Open
  <2> QED
    BY <2>1, <2>2 DEF Budgeted, TypeOK, ProjectsWithinAttempts
<1> QED
  BY <1>1, BudgetKept, PTL

-----------------------------------------------------------------------------
(* What the requests and the chunks amount to.                             *)

\* The place of a position among the members of S.
PlaceIn(S) == [i \in S |-> Cardinality({j \in S : j <= i})]

LEMMA PlacesDiffer ==
    ASSUME NEW n \in Nat, NEW S \in SUBSET (1 .. n)
    PROVE  /\ IsFiniteSet(S) /\ Cardinality(S) \in Nat
           /\ PlaceIn(S) \in [S -> 1 .. Cardinality(S)]
           /\ \A a, b \in S : PlaceIn(S)[a] = PlaceIn(S)[b] => a = b
<1> DEFINE upto(i) == {j \in S : j <= i}
<1>1. IsFiniteSet(S) /\ Cardinality(S) \in Nat
  <2>1. IsFiniteSet(1 .. n)
    BY FS_Interval
  <2> QED
    BY <2>1, FS_Subset, FS_CardinalityType
<1>2. ASSUME NEW i \in S
      PROVE  /\ IsFiniteSet(upto(i)) /\ Cardinality(upto(i)) \in 1 .. Cardinality(S)
             /\ PlaceIn(S)[i] = Cardinality(upto(i))
  <2>1. upto(i) \in SUBSET S /\ i \in upto(i)
    OBVIOUS
  <2>2. IsFiniteSet(upto(i)) /\ Cardinality(upto(i)) <= Cardinality(S)
    BY <1>1, <2>1, FS_Subset
  <2>3. Cardinality(upto(i)) \in Nat /\ Cardinality(upto(i)) # 0
    BY <2>1, <2>2, FS_EmptySet, FS_CardinalityType
  <2>4. PlaceIn(S)[i] = Cardinality(upto(i))
    BY DEF PlaceIn
  <2> QED
    BY <1>1, <2>2, <2>3, <2>4
<1>3. PlaceIn(S) \in [S -> 1 .. Cardinality(S)]
  <2>1. PlaceIn(S) = [i \in S |-> Cardinality(upto(i))]
    BY DEF PlaceIn
  <2> HIDE DEF upto
  <2> QED
    BY <1>2, <2>1
<1>4. ASSUME NEW a \in S, NEW b \in S, a < b
      PROVE  PlaceIn(S)[a] # PlaceIn(S)[b]
  <2>1. \A j \in S : j \in Int
    OBVIOUS
  <2>2. (\A j \in S : j <= a => j <= b) /\ b <= b /\ ~(b <= a)
    BY <1>4, <2>1
  <2>3. upto(a) \in SUBSET upto(b)
    BY <2>2
  <2>4. b \in upto(b) /\ b \notin upto(a)
    BY <2>2
  <2> HIDE DEF upto
  <2> QED
    BY <1>2, <2>3, <2>4, FS_Subset
<1>5. ASSUME NEW a \in S, NEW b \in S, PlaceIn(S)[a] = PlaceIn(S)[b]
      PROVE  a = b
  <2>1. a \in Int /\ b \in Int
    OBVIOUS
  <2>2. ~(a < b) /\ ~(b < a)
    BY <1>4, <1>5
  <2> QED
    BY <2>1, <2>2
<1> QED
  BY <1>1, <1>3, <1>5

\* The members of a set of positions are all put in order, each of them once.
LEMMA AllInOrder ==
    ASSUME NEW n \in Nat, NEW S \in SUBSET (1 .. n)
    PROVE  /\ InOrder(S) \in Seq(S) /\ Len(InOrder(S)) = Cardinality(S)
           /\ \A i \in S : \E k \in 1 .. Len(InOrder(S)) : InOrder(S)[k] = i
<1> DEFINE p == PlaceIn(S)
           N == Cardinality(S)
<1>1. /\ IsFiniteSet(S) /\ N \in Nat
      /\ p \in [S -> 1 .. N]
      /\ \A a, b \in S : p[a] = p[b] => a = b
  BY PlacesDiffer
<1>2. InOrder(S) = [k \in 1 .. N |-> CHOOSE i \in S : p[i] = k]
  BY DEF InOrder, PlaceIn
<1> HIDE DEF p, N
<1>3. \A k \in 1 .. N : \E i \in S : p[i] = k
  <2>1. p \in Injection(S, 1 .. N)
    BY <1>1 DEF Injection, IsInjective
  <2>2. IsFiniteSet(1 .. N) /\ Cardinality(1 .. N) = N
    BY <1>1, FS_Interval
  <2>3. p \in Surjection(S, 1 .. N)
    BY <2>1, <2>2, FS_Injection DEF N
  <2> QED
    BY <2>3 DEF Surjection
<1>4. \A k \in 1 .. N : InOrder(S)[k] \in S /\ p[InOrder(S)[k]] = k
  BY <1>2, <1>3
<1>5. InOrder(S) \in Seq(S) /\ Len(InOrder(S)) = N
  BY <1>1, <1>2, <1>4
<1>6. ASSUME NEW i \in S PROVE \E k \in 1 .. N : InOrder(S)[k] = i
  <2>1. p[i] \in 1 .. N
    BY <1>1
  <2>2. InOrder(S)[p[i]] = i
    BY <1>1, <1>4, <2>1
  <2> QED
    BY <2>1, <2>2
<1> QED
  BY <1>5, <1>6 DEF N

\* The requests read every id.
LEMMA BatchesCover ==
    ASSUME WorkItemIssuesAssumption, NEW n \in Nat
    PROVE  UNION {Batch(n, i) : i \in {i \in 0 .. n - 1 : i % FetchSize = 0}} = 1 .. n
<1> DEFINE begins == {i \in 0 .. n - 1 : i % FetchSize = 0}
<1>0. FetchSize \in Nat \ {0}
  BY DEF WorkItemIssuesAssumption
<1>1. \A i \in begins : Batch(n, i) \subseteq 1 .. n
  BY <1>0 DEF Batch
<1>2. ASSUME NEW j \in 1 .. n PROVE \E i \in begins : j \in Batch(n, i)
  <2> DEFINE a == j - 1
             q == a \div FetchSize
             i == FetchSize * q
  <2>1. a \in Nat
    OBVIOUS
  <2>2. q \in Nat
    BY <1>0, <2>1
  <2>3. i > a - FetchSize
    BY <1>0, <2>1
  <2>4. i <= a
    BY <1>0, <2>1
  <2> HIDE DEF q
  <2>5. i % FetchSize = 0 /\ i \in Nat
    BY <1>0, <2>2
  <2> HIDE DEF i
  <2>6. i \in begins
    BY <2>4, <2>5
  <2>7. j \in Batch(n, i)
    BY <1>0, <2>3, <2>4, <2>5 DEF Batch
  <2> QED
    BY <2>6, <2>7
<1> QED
  BY <1>1, <1>2

\* The query gives the work items that the filter asks for, all of them.
LEMMA FetchesWanted ==
    ASSUME WorkItemIssuesAssumption, NEW f
    PROVE  /\ QueryWorkItems(f) \in Seq(DOMAIN Items)
           /\ ToSet(QueryWorkItems(f)) = {i \in DOMAIN Items : WIQLQuery(f, Items[i])}
<1> DEFINE wanted == {i \in DOMAIN Items : WIQLQuery(f, Items[i])}
           ids == InOrder(wanted)
<1>1. Len(Items) \in Nat /\ wanted \in SUBSET (1 .. Len(Items)) /\ DOMAIN Items = 1 .. Len(Items)
  BY DEF WorkItemIssuesAssumption
<1>2. ids \in Seq(wanted) /\ \A i \in wanted : \E k \in 1 .. Len(ids) : ids[k] = i
  BY <1>1, AllInOrder
<1>3. QueryWorkItems(f) = [n \in 1 .. Len(ids) |-> ids[n]]
  <2>1. Len(ids) \in Nat
    BY <1>2
  <2>2. UNION {Batch(Len(ids), i) : i \in {i \in 0 .. Len(ids) - 1 : i % FetchSize = 0}}
          = 1 .. Len(ids)
    BY <2>1, BatchesCover
  <2> QED
    BY <2>2 DEF QueryWorkItems
<1>4. QueryWorkItems(f) = ids
  <2> HIDE DEF ids
  <2> QED
    BY <1>2, <1>3
<1> HIDE DEF ids
<1>5. ids \in Seq(DOMAIN Items)
  BY <1>2
<1>6. ToSet(ids) = wanted
  <2> HIDE DEF wanted
  <2>1. DOMAIN ids = 1 .. Len(ids) /\ \A k \in 1 .. Len(ids) : ids[k] \in wanted
    BY <1>2
  <2>2. \A i \in wanted : \E k \in DOMAIN ids : ids[k] = i
    BY <1>2, <2>1
  <2> QED
    BY <2>1, <2>2 DEF ToSet
<1> QED
  BY <1>4, <1>5, <1>6

\* The chunks have room for every issue.
LEMMA AllAdded ==
    ASSUME ProjectAssumption, NEW S, NEW issues \in Seq(S)
    PROVE  BatchAddIssuesToProject(issues) = issues
<1>1. Len(issues) \in Nat /\ ChunkSize \in Nat \ {0}
  BY DEF ProjectAssumption
<1>2. ((Len(issues) + ChunkSize - 1) \div ChunkSize) * ChunkSize >= Len(issues)
  <2>1. \A a \in Nat, c \in Nat \ {0} : ((a + c - 1) \div c) * c >= a
    OBVIOUS
  <2> QED
    BY <1>1, <2>1
<1>3. BatchAddIssuesToProject(issues) = SubSeq(issues, 1, Len(issues))
  <2> DEFINE room == ((Len(issues) + ChunkSize - 1) \div ChunkSize) * ChunkSize
  <2>1. room \in Int
    BY <1>1
  <2>2. BatchAddIssuesToProject(issues)
          = SubSeq(issues, 1, IF room < Len(issues) THEN room ELSE Len(issues))
    BY DEF BatchAddIssuesToProject
  <2>3. ~(room < Len(issues))
    BY <1>1, <1>2, <2>1
  <2> HIDE DEF room
  <2> QED
    BY <2>2, <2>3
<1> QED
  BY <1>1, <1>3

\* The default mapping closes what has ended, whatever the state is called.
LEMMA EndedStates ==
    Ended = {i \in DOMAIN Items : Items[i].state \in {"Closed", "Resolved", "Removed"}}
<1> SUFFICES ASSUME NEW s
             PROVE  MapState(s, ApplyDefaults(<<>>)) = "closed"
                      <=> s \in {"Closed", "Resolved", "Removed"}
  BY DEF Ended
<1>1. ApplyDefaults(<<>>) = DefaultStateMapping
  BY DEF ApplyDefaults
<1>2. DOMAIN DefaultStateMapping = {"New", "Active", "Resolved", "Closed", "Removed"}
  BY DEF DefaultStateMapping
<1>3. \A x \in {"New", "Active", "Resolved", "Closed", "Removed"} :
         DefaultStateMapping[x] = IF x \in {"New", "Active"} THEN "open" ELSE "closed"
  BY DEF DefaultStateMapping
<1> QED
  BY <1>1, <1>2, <1>3 DEF MapState

-----------------------------------------------------------------------------
(* What a behaviour without trouble comes to.                              *)

\* Whoever made a version of the custom resource, and whenever: nobody edited or deleted
\* it, and it only ever belonged to one migration.  A version that is Ready tells the number
\* of the one project there is, whose status field was created when it was asked for.
Quiet(o) == o.gen = 1 /\ ~o.deleting /\ o.observed \in {0, 1} /\ (o.fin => o.exists)

SameAs(o, p) == o.exists => p.exists /\ o.owner = p.owner /\ o.field = p.field

MadeFor(o, p, n, F) ==
    o.phase = "Ready" => /\ o.exists /\ p.phase = "Ready"
                         /\ o.id = n /\ n # 0 /\ (o.field <=> n \in F)

Version(o, p, n, F) == Quiet(o) /\ SameAs(o, p) /\ MadeFor(o, p, n, F)

\* The issues of a migration that asks for f, as they should be in project n.
JoinedFor(f, field, n) ==
    LET wanted == {i \in DOMAIN Items : WIQLQuery(f, Items[i])} IN
    [project |-> n,
     issues |-> wanted,
     columns |-> {i \in wanted : field /\ Items[i].state # "Blocked"},
     closed |-> {i \in wanted : Items[i].state \in {"Closed", "Resolved", "Removed"}}]

\* A replica that is creating the project, or has created it and not yet said so.
CreatesWell(r) ==
    /\ pc[r] \in {"creating", "created"} => mem[r].phase = "Creating" /\ mem[r].exists
    /\ pc[r] = "created" => mem[r].id = made /\ made # 0 /\ (mem[r].field <=> made \in fields)

\* A migration that runs was started because of a cached project that is Ready, and one that
\* is completed has its issues there.
RunsWell(m) ==
    /\ wi[m].phase = "Running" => wi[m].host \in Replicas /\ cache[wi[m].host].phase = "Ready"
    /\ wi[m].phase = "Completed" => /\ project.phase = "Ready"
                                    /\ joined[m] = JoinedFor(settings[m].filter, project.field, made)

\* What holds as long as there is no trouble.
Undisturbed ==
    /\ resets = 0 /\ born = IF project.exists THEN 1 ELSE 0
    /\ project.owner # Nobody => wi[project.owner].phase # "Gone"
    /\ Version(project, project, made, fields)
    /\ \A r \in Replicas : /\ Version(cache[r], project, made, fields)
                           /\ Version(mem[r], project, made, fields)
                           /\ CreatesWell(r)
    /\ \A m \in Migrations : RunsWell(m)

\* The types of what Budgeted leaves open.
Known ==
    /\ troubles \in Nat
    /\ DOMAIN wi = Migrations /\ DOMAIN joined = Migrations
    /\ fields \subseteq 1 .. made

\* The options of a status field: every state of an item has its column, but for Blocked.
ColumnsForStates ==
    \A i \in DOMAIN Items :
        MapAdoStateToProjectStatus(Items[i].state) \in Columns <=> Items[i].state # "Blocked"

LEMMA AbsentVersion ==
    ASSUME NEW p, NEW n, NEW F
    PROVE  Version(Absent, p, n, F) /\ Absent.owner = Nobody /\ Absent.id = 0
<1>1. Quiet(Absent) /\ SameAs(Absent, p) /\ Absent.owner = Nobody /\ Absent.id = 0
  BY DEF Absent, Quiet, SameAs
<1>2. Absent.phase # "Ready"
  BY Zenon DEF Absent
<1> QED
  BY <1>1, <1>2 DEF Version, MadeFor

\* Once the project is made nobody is about to make one.
LEMMA MadeOnce ==
    ASSUME ProjectAssumption, Budgeted, Undisturbed
    PROVE  /\ made \in {0, 1}
           /\ made # 0 => \A r \in Replicas : pc[r] # "creating"
<1>1. IsFiniteSet(AtWork) /\ Cardinality(AtWork) \in Nat
  BY AtWorkFinite
<1>2. made \in Nat /\ Open(project) \in {0, 1} /\ born + resets <= 1 /\ born + resets \in Nat
  BY DEF Budgeted, TypeOK, Open, Undisturbed
<1>3. made + Cardinality(AtWork) <= 1
  BY <1>1, <1>2 DEF Budgeted
<1>4. made # 0 => Cardinality(AtWork) = 0
  BY <1>1, <1>2, <1>3
<1>5. made # 0 => AtWork = {}
  BY <1>1, <1>4, FS_EmptySet
<1> QED
  BY <1>1, <1>2, <1>3, <1>5 DEF AtWork

\* What a reconcile works with.
LEMMA CopyVersion ==
    ASSUME Undisturbed, NEW r \in Replicas
    PROVE  /\ Version(Copy(r), project, made, fields)
           /\ ~SpecChanged(Copy(r)) /\ ~Copy(r).deleting
BY DEF Undisturbed, Version, Quiet, Copy, SpecChanged

\* A step that changes nothing of this.
LEMMA FrameUndisturbed ==
    ASSUME Undisturbed,
           UNCHANGED <<project, cache, pc, mem, wi, settings, made, fields, joined, born, resets>>
    PROVE  Undisturbed'
BY DEF Undisturbed, Version, Quiet, SameAs, MadeFor, CreatesWell, RunsWell

\* A reconcile returns without writing.
LEMMA ReturnUndisturbed ==
    ASSUME Budgeted, Undisturbed, NEW r \in Replicas, Return(r),
           UNCHANGED <<project, cache, wi, settings, made, fields, joined, born, resets>>
    PROVE  Undisturbed'
<1>1. pc' = [pc EXCEPT ![r] = "idle"] /\ mem' = [mem EXCEPT ![r] = Absent]
  BY DEF Return
<1>2. \A s \in Replicas : /\ pc'[s] = IF s = r THEN "idle" ELSE pc[s]
                          /\ mem'[s] = IF s = r THEN Absent ELSE mem[s]
  BY <1>1 DEF Budgeted, TypeOK
<1>3. \A s \in Replicas : CreatesWell(s)'
  BY <1>2 DEF Undisturbed, CreatesWell
<1>4. \A s \in Replicas : Version(mem'[s], project, made, fields)
  BY <1>2, AbsentVersion DEF Undisturbed
<1>5. \A m \in Migrations : RunsWell(m)'
  BY DEF Undisturbed, RunsWell
<1> QED
  BY <1>3, <1>4, <1>5 DEF Undisturbed

\* One migration moves, not to its end.
LEMMA MigrationUndisturbed ==
    ASSUME Budgeted, Known, Undisturbed, NEW m \in Migrations, NEW to,
           wi' = [wi EXCEPT ![m] = to], to.phase # "Gone", to.phase # "Completed",
           to.phase = "Running" => to.host \in Replicas /\ cache[to.host].phase = "Ready",
           UNCHANGED <<project, cache, pc, mem, settings, made, fields, joined, born, resets>>
    PROVE  Undisturbed'
<1>1. \A n \in Migrations : wi'[n] = IF n = m THEN to ELSE wi[n]
  BY DEF Known
<1>2. project'.owner # Nobody => wi'[project'.owner].phase # "Gone"
  <2>1. project.owner \in Migrations \cup {Nobody}
    BY DEF Budgeted, TypeOK, Project
  <2> QED
    BY <1>1, <2>1 DEF Undisturbed
<1>3. \A n \in Migrations : RunsWell(n)'
  BY <1>1 DEF Undisturbed, RunsWell
<1>4. \A r \in Replicas : CreatesWell(r)'
  BY DEF Undisturbed, CreatesWell
<1> QED
  BY <1>2, <1>3, <1>4 DEF Undisturbed

\* The reconcile of r makes o of the custom resource and goes on, or returns.
LEMMA WrittenUndisturbed ==
    ASSUME Budgeted, Undisturbed, NEW r \in Replicas, NEW o,
           project' = o, Quiet(o), o.exists, project.exists,
           o.owner = project.owner, o.field = project.field,
           project.phase = "Ready" => o.phase = "Ready", MadeFor(o, o, made, fields),
           NEW at, NEW x \in {Absent, o},
           pc' = [pc EXCEPT ![r] = at], mem' = [mem EXCEPT ![r] = x],
           at # "created", at = "creating" => x = o /\ o.phase = "Creating",
           UNCHANGED <<cache, wi, settings, made, fields, joined, born, resets>>
    PROVE  Undisturbed'
<1>1. \A s \in Replicas : /\ pc'[s] = IF s = r THEN at ELSE pc[s]
                          /\ mem'[s] = IF s = r THEN x ELSE mem[s]
  BY DEF Budgeted, TypeOK
<1>2. \A q : Version(q, project, made, fields) => Version(q, o, made, fields)
  BY DEF Version, SameAs, MadeFor
<1>3. Version(o, o, made, fields) /\ Version(Absent, o, made, fields)
  BY AbsentVersion DEF Version, SameAs
<1>4. \A s \in Replicas : CreatesWell(s)'
  BY <1>1 DEF Undisturbed, CreatesWell
<1>5. \A s \in Replicas : Version(mem'[s], o, made, fields)
  BY <1>1, <1>2, <1>3 DEF Undisturbed
<1>6. \A m \in Migrations : RunsWell(m)'
  BY DEF Undisturbed, RunsWell
<1> QED
  BY <1>2, <1>3, <1>4, <1>5, <1>6 DEF Undisturbed

\* A write that returns, or fails.
LEMMA WriteReturnUndisturbed ==
    ASSUME Budgeted, Known, Undisturbed, troubles = 0, troubles' = 0,
           NEW r \in Replicas, NEW o, WriteAndReturn(r, o),
           Latest(r) => /\ Quiet(o) /\ o.exists /\ project.exists
                        /\ o.owner = project.owner /\ o.field = project.field
                        /\ project.phase = "Ready" => o.phase = "Ready"
                        /\ MadeFor(o, o, made, fields)
    PROVE  Undisturbed'
<1>1. CASE WriteFails(r)
  BY <1>1, ReturnUndisturbed DEF WriteFails, Refused, Rest, world, server
<1>2. CASE Put(r, o, Nobody) /\ Return(r) /\ Rest
  <2>1. /\ Latest(r) /\ project' = o
        /\ UNCHANGED <<cache, wi, settings, made, fields, joined, born, resets>>
        /\ pc' = [pc EXCEPT ![r] = "idle"] /\ mem' = [mem EXCEPT ![r] = Absent]
    BY <1>2 DEF Put, Stored, Rest, world, Return
  <2> QED
    BY <2>1, WrittenUndisturbed
<1> QED
  BY <1>1, <1>2 DEF WriteAndReturn

\* A write that goes on, or fails.
LEMMA WriteGoOnUndisturbed ==
    ASSUME Budgeted, Known, Undisturbed, troubles = 0, troubles' = 0,
           NEW r \in Replicas, NEW o, NEW at \in {"got", "creating"}, WriteAndGoOn(r, o, at),
           at = "creating" => o.phase = "Creating",
           Latest(r) => /\ Quiet(o) /\ o.exists /\ project.exists
                        /\ o.owner = project.owner /\ o.field = project.field
                        /\ project.phase = "Ready" => o.phase = "Ready"
                        /\ MadeFor(o, o, made, fields)
    PROVE  Undisturbed'
<1>1. CASE WriteFails(r)
  BY <1>1, ReturnUndisturbed DEF WriteFails, Refused, Rest, world, server
<1>2. CASE /\ Put(r, o, r) /\ Rest
           /\ pc' = [pc EXCEPT ![r] = at] /\ mem' = [mem EXCEPT ![r] = o]
  <2>1. /\ Latest(r) /\ project' = o
        /\ UNCHANGED <<cache, wi, settings, made, fields, joined, born, resets>>
    BY <1>2 DEF Put, Stored, Rest, world
  <2> QED
    BY <1>2, <2>1, WrittenUndisturbed
<1> QED
  BY <1>1, <1>2 DEF WriteAndGoOn

-----------------------------------------------------------------------------
(* The types of the rest, and troubles, which no step takes back.          *)

LEMMA WriteFrame ==
    ASSUME NEW r \in Replicas, NEW o, NEW at,
           WriteAndReturn(r, o) \/ WriteAndGoOn(r, o, at)
    PROVE  UNCHANGED <<wi, settings, joined, made, fields>> /\ (Trouble \/ UNCHANGED troubles)
BY DEF WriteAndReturn, WriteAndGoOn, WriteFails, Put, Refused, Rest, world

LEMMA ReconcileFrame ==
    ASSUME NEW r \in Replicas, ReconcileProject(r)
    PROVE  /\ UNCHANGED <<wi, settings, joined>> /\ (Trouble \/ UNCHANGED troubles)
           /\ \/ UNCHANGED <<made, fields>>
              \/ made' = made + 1 /\ fields' \in {fields, fields \union {made + 1}}
<1>1. CASE NotFound(r) \/ CheckCreationStatus(r)
  BY <1>1 DEF NotFound, CheckCreationStatus, world
<1>2. CASE CreateProject(r)
  BY <1>2 DEF CreateProject, ConfigureStatusField
<1>3. CASE HandleSpecChange(r) \/ AddFinalizer(r) \/ ReconcileDelete(r) \/ StartCreation(r)
  BY <1>3, WriteFrame DEF HandleSpecChange, AddFinalizer, ReconcileDelete, StartCreation
<1>4. CASE SetFailedStatus(r) \/ RecordProject(r)
  BY <1>4, WriteFrame DEF SetFailedStatus, RecordProject
<1> QED
  BY <1>1, <1>2, <1>3, <1>4 DEF ReconcileProject

\* A migration moves, and may have its issues joined.
Moves(m) == UNCHANGED wi \/ \E to : wi' = [wi EXCEPT ![m] = to]

Enters(m) == UNCHANGED joined \/ \E x : joined' = [joined EXCEPT ![m] = x]

LEMMA BecomesMoves ==
    ASSUME NEW m, NEW phase, NEW why, NEW r, Becomes(m, phase, why, r)
    PROVE  Moves(m)
BY DEF Becomes, Moves

LEMMA MigrationFrame ==
    ASSUME NEW m \in Migrations, ReconcileMigration(m) \/ DeleteMigration(m)
    PROVE  /\ Moves(m) /\ Enters(m) /\ UNCHANGED <<made, fields, settings>>
           /\ Trouble \/ UNCHANGED troubles
<1>1. ASSUME NEW r \in Replicas, CreateProjectObject(m, r)
      PROVE  Moves(m) /\ UNCHANGED <<joined, made, fields, settings, troubles>>
  BY <1>1, BecomesMoves DEF CreateProjectObject, world
<1>2. ASSUME NEW r \in Replicas, CheckRepository(m, r)
      PROVE  Moves(m) /\ UNCHANGED <<joined, made, fields, settings, troubles>>
  BY <1>2, BecomesMoves DEF CheckRepository, world
<1>3. ASSUME NEW r \in Replicas, CreateTargetRepository(m, r)
      PROVE  /\ Moves(m) /\ UNCHANGED <<joined, made, fields, settings>>
             /\ Trouble \/ UNCHANGED troubles
  <2>1. UNCHANGED wi => Moves(m)
    BY DEF Moves
  <2> QED
    BY <1>3, <2>1, BecomesMoves DEF CreateTargetRepository
<1>4. CASE RetryFailed(m)
  <2>1. Becomes(m, "Validating", "none", Nobody) => Moves(m)
    BY BecomesMoves
  <2> QED
    BY <1>4, <2>1 DEF RetryFailed, Enters, world
<1>5. CASE FailMigration(m)
  <2>1. Becomes(m, "Failed", "other", Nobody) => Moves(m)
    BY BecomesMoves
  <2> QED
    BY <1>5, <2>1 DEF FailMigration, Enters, world
<1>6. CASE AddIssuesToProject(m)
  <2>1. Becomes(m, "Completed", "none", Nobody) => Moves(m)
    BY BecomesMoves
  <2>2. Becomes(m, "Completed", "none", Nobody) /\ UNCHANGED <<made, fields, settings>>
    BY <1>6 DEF AddIssuesToProject
  <2>3. ASSUME NEW id, NEW issues, NEW columns, NEW closed, Joins(m, id, issues, columns, closed)
        PROVE  Enters(m)
    BY <2>3 DEF Joins, Enters
  <2>4. ASSUME NEW id, NEW field, AddingFails(m, id, field)
        PROVE  Trouble /\ Enters(m)
    BY <2>3, <2>4 DEF AddingFails
  <2>5. Enters(m) /\ (Trouble \/ UNCHANGED troubles)
    BY <1>6, <2>3, <2>4 DEF AddIssuesToProject
  <2> QED
    BY <2>1, <2>2, <2>5
<1>7. CASE DeleteMigration(m)
  <2>1. Becomes(m, "Gone", "none", Nobody) => Moves(m)
    BY BecomesMoves
  <2> QED
    BY <1>7, <2>1 DEF DeleteMigration, Enters
<1>8. UNCHANGED joined => Enters(m)
  BY DEF Enters
<1> QED
  BY <1>1, <1>2, <1>3, <1>4, <1>5, <1>6, <1>7, <1>8 DEF ReconcileMigration

LEMMA OthersFrame ==
    ASSUME \/ ChangeProjectSpec \/ DeleteProject \/ ResetProject \/ CreateSecret
           \/ CollectGarbage \/ RepositoryMigrationEnds \/ UNCHANGED vars
           \/ \E r \in Replicas : CacheSync(r) \/ Crash(r)
    PROVE  UNCHANGED <<wi, joined, made, fields, settings>> /\ (Trouble \/ UNCHANGED troubles)
BY DEF ChangeProjectSpec, DeleteProject, ResetProject, CreateSecret, CollectGarbage,
       RepositoryMigrationEnds, vars, CacheSync, Crash, world

LEMMA KnownKeeps ==
    ASSUME Budgeted, Known, [Next]_vars
    PROVE  Known' /\ (troubles' = 0 => troubles = 0 /\ ~Trouble)
<1>1. /\ Trouble \/ UNCHANGED troubles
      /\ UNCHANGED <<wi, joined>> \/ \E m \in Migrations : Moves(m) /\ Enters(m)
      /\ \/ UNCHANGED <<made, fields>>
         \/ made' = made + 1 /\ fields' \in {fields, fields \union {made + 1}}
  BY ReconcileFrame, MigrationFrame, OthersFrame DEF Next, Users
<1>2. troubles' \in Nat /\ (troubles' = 0 => troubles = 0 /\ ~Trouble)
  BY <1>1 DEF Known, Trouble
<1>3. DOMAIN wi' = Migrations /\ DOMAIN joined' = Migrations
  BY <1>1 DEF Known, Moves, Enters
<1>4. fields' \subseteq 1 .. made'
  <2>1. made \in Nat
    BY DEF Budgeted, TypeOK
  <2>2. fields \subseteq 1 .. made /\ 1 .. made \subseteq 1 .. made + 1 /\ made + 1 \in 1 .. made + 1
    BY <2>1 DEF Known
  <2> QED
    BY <1>1, <2>2
<1> QED
  BY <1>2, <1>3, <1>4 DEF Known

-----------------------------------------------------------------------------
(* No step disturbs it, as long as there is no trouble.                    *)

\* The first write of a reconcile, of a copy with another phase, or another number.
LEMMA FinalizerUndisturbed ==
    ASSUME Budgeted, Known, Undisturbed, troubles = 0, troubles' = 0,
           NEW r \in Replicas, AddFinalizer(r)
    PROVE  Undisturbed'
<1> DEFINE c == Copy(r)
           o == [c EXCEPT !.fin = TRUE]
<1>1. c.exists /\ WriteAndGoOn(r, o, "got")
  BY DEF AddFinalizer
<1>2. /\ c \in Project /\ Version(c, project, made, fields)
      /\ Latest(r) => Alike(c, project)
  BY CopyVersion, CopyFaithful
<1> HIDE DEF c
<1>3. /\ o.fin = TRUE /\ o.exists = c.exists /\ o.owner = c.owner /\ o.deleting = c.deleting
      /\ o.field = c.field /\ o.gen = c.gen /\ o.observed = c.observed
      /\ o.phase = c.phase /\ o.id = c.id
  BY <1>2 DEF Project
<1> HIDE DEF o
<1>4. Quiet(o) /\ MadeFor(o, o, made, fields)
  BY <1>1, <1>2, <1>3 DEF Version, Quiet, MadeFor
<1>5. Latest(r) => /\ project.exists /\ o.owner = project.owner /\ o.field = project.field
                   /\ project.phase = "Ready" => o.phase = "Ready"
  BY <1>1, <1>2, <1>3 DEF Version, SameAs, Alike
<1> QED
  BY <1>1, <1>3, <1>4, <1>5, WriteGoOnUndisturbed

LEMMA CreationUndisturbed ==
    ASSUME Budgeted, Known, Undisturbed, troubles = 0, troubles' = 0,
           NEW r \in Replicas, StartCreation(r)
    PROVE  Undisturbed'
<1> DEFINE c == Copy(r)
           p == [c EXCEPT !.observed = c.gen]
           o == [p EXCEPT !.phase = "Creating"]
<1>1. c.fin /\ Creates(c.phase) /\ WriteAndGoOn(r, o, "creating")
  BY DEF StartCreation, Live, Observed
<1>2. /\ c \in Project /\ Version(c, project, made, fields)
      /\ Latest(r) => Alike(c, project)
  BY CopyVersion, CopyFaithful
<1> HIDE DEF c
<1>3. /\ o.fin = c.fin /\ o.exists = c.exists /\ o.owner = c.owner /\ o.deleting = c.deleting
      /\ o.field = c.field /\ o.gen = c.gen /\ o.observed = c.gen
      /\ o.phase = "Creating"
  BY <1>2 DEF Project
<1> HIDE DEF o
<1>4. Quiet(o) /\ MadeFor(o, o, made, fields) /\ o.exists
  BY <1>1, <1>2, <1>3 DEF Version, Quiet, MadeFor
<1>5. c.phase # "Ready"
  BY <1>1, Zenon DEF Creates
<1>6. Latest(r) => /\ project.exists /\ o.owner = project.owner /\ o.field = project.field
                   /\ project.phase = "Ready" => o.phase = "Ready"
  BY <1>1, <1>2, <1>3, <1>4, <1>5 DEF Version, SameAs, Alike
<1> QED
  BY <1>1, <1>3, <1>4, <1>6, WriteGoOnUndisturbed

LEMMA FailedStatusUndisturbed ==
    ASSUME Budgeted, Known, Undisturbed, troubles = 0, troubles' = 0,
           NEW r \in Replicas, SetFailedStatus(r)
    PROVE  Undisturbed'
<1> DEFINE c == mem[r]
           p == [c EXCEPT !.phase = "Failed"]
           o == [p EXCEPT !.id = 0]
<1>1. pc[r] \in {"creating", "created"} /\ WriteAndReturn(r, o)
  BY DEF SetFailedStatus
<1>2. /\ c \in Project /\ Version(c, project, made, fields)
      /\ Latest(r) => Alike(c, project)
      /\ c.phase = "Creating" /\ c.exists
  BY <1>1, CopyFaithful DEF Undisturbed, CreatesWell, Copy, Budgeted, TypeOK
<1> HIDE DEF c
<1>3. /\ o.fin = c.fin /\ o.exists = c.exists /\ o.owner = c.owner /\ o.deleting = c.deleting
      /\ o.field = c.field /\ o.gen = c.gen /\ o.observed = c.observed
      /\ o.phase = "Failed"
  BY <1>2 DEF Project
<1> HIDE DEF o
<1>4. Quiet(o) /\ MadeFor(o, o, made, fields) /\ o.exists
  BY <1>2, <1>3 DEF Version, Quiet, MadeFor
<1>5. Latest(r) => /\ project.exists /\ o.owner = project.owner /\ o.field = project.field
                   /\ project.phase = "Ready" => o.phase = "Ready"
  BY <1>2, <1>3, <1>4 DEF Version, SameAs, Alike
<1> QED
  BY <1>1, <1>4, <1>5, WriteReturnUndisturbed

LEMMA RecordUndisturbed ==
    ASSUME Budgeted, Known, Undisturbed, troubles = 0, troubles' = 0,
           NEW r \in Replicas, RecordProject(r)
    PROVE  Undisturbed'
<1> DEFINE c == mem[r]
           o == [c EXCEPT !.phase = "Ready"]
<1>1. pc[r] = "created" /\ WriteAndReturn(r, o)
  BY DEF RecordProject
<1>2. /\ c \in Project /\ Version(c, project, made, fields)
      /\ Latest(r) => Alike(c, project)
      /\ c.phase = "Creating" /\ c.exists
      /\ c.id = made /\ made # 0 /\ (c.field <=> made \in fields)
  BY <1>1, CopyFaithful DEF Undisturbed, CreatesWell, Copy, Budgeted, TypeOK
<1> HIDE DEF c
<1>3. /\ o.fin = c.fin /\ o.exists = c.exists /\ o.owner = c.owner /\ o.deleting = c.deleting
      /\ o.field = c.field /\ o.gen = c.gen /\ o.observed = c.observed
      /\ o.phase = "Ready" /\ o.id = c.id
  BY <1>2 DEF Project
<1> HIDE DEF o
<1>4. Quiet(o) /\ o.exists
  BY <1>2, <1>3 DEF Version, Quiet
<1>5. MadeFor(o, o, made, fields)
  BY <1>2, <1>3 DEF MadeFor
<1>6. Latest(r) => project.exists /\ o.owner = project.owner /\ o.field = project.field
  BY <1>2, <1>3, <1>4 DEF Version, SameAs, Alike
<1> QED
  BY <1>1, <1>3, <1>4, <1>5, <1>6, WriteReturnUndisturbed

\* The project is made, the first and only one: before it nothing is Ready.
LEMMA NothingReady ==
    ASSUME Undisturbed, made = 0
    PROVE  /\ project.phase # "Ready"
           /\ \A r \in Replicas : /\ cache[r].phase # "Ready" /\ mem[r].phase # "Ready"
                                  /\ pc[r] # "created"
           /\ \A m \in Migrations : wi[m].phase \notin {"Running", "Completed"}
BY DEF Undisturbed, Version, MadeFor, CreatesWell, RunsWell

LEMMA ProjectMadeUndisturbed ==
    ASSUME ProjectAssumption, Budgeted, Known, Undisturbed, troubles = 0, troubles' = 0, ~Trouble,
           NEW r \in Replicas, CreateProject(r)
    PROVE  Undisturbed'
<1>1. /\ pc[r] = "creating" /\ made' = made + 1
      /\ mem' = [mem EXCEPT ![r].id = made + 1] /\ pc' = [pc EXCEPT ![r] = "created"]
      /\ fields' = IF mem[r].field THEN fields \union {made + 1} ELSE fields
      /\ UNCHANGED <<project, cache, wi, settings, joined, born, resets>>
  BY DEF CreateProject, ConfigureStatusField, server
<1>2. made = 0 /\ fields = {}
  <2>1. made = 0
    BY <1>1, MadeOnce
  <2> QED
    BY <2>1 DEF Known
<1>3. made' = 1 /\ fields' = IF mem[r].field THEN {1} ELSE {}
  BY <1>1, <1>2
<1> DEFINE o == [mem[r] EXCEPT !.id = 1]
<1>4. \A s \in Replicas : /\ pc'[s] = IF s = r THEN "created" ELSE pc[s]
                          /\ mem'[s] = IF s = r THEN o ELSE mem[s]
  BY <1>1, <1>2 DEF Budgeted, TypeOK
<1>5. mem[r] \in Project /\ mem[r].phase = "Creating" /\ mem[r].exists
  BY <1>1 DEF Budgeted, TypeOK, Undisturbed, CreatesWell
<1>6. /\ o.fin = mem[r].fin /\ o.exists = mem[r].exists /\ o.owner = mem[r].owner
      /\ o.deleting = mem[r].deleting /\ o.field = mem[r].field /\ o.gen = mem[r].gen
      /\ o.observed = mem[r].observed /\ o.phase = mem[r].phase /\ o.id = 1
  BY <1>5 DEF Project
<1> HIDE DEF o
<1>7. \A q : q.phase # "Ready" /\ Version(q, project, made, fields) =>
               Version(q, project, made', fields')
  BY DEF Version, MadeFor
<1>8. Version(o, project, made', fields')
  BY <1>5, <1>6 DEF Undisturbed, Version, Quiet, SameAs, MadeFor
<1>9. \A s \in Replicas : CreatesWell(s)'
  <2>1. CreatesWell(r)'
    <3>1. o.field <=> 1 \in fields'
      BY <1>3, <1>6
    <3>2. pc'[r] = "created" /\ mem'[r] = o /\ made' = 1
      BY <1>3, <1>4
    <3>3. mem'[r].phase = "Creating" /\ mem'[r].exists /\ mem'[r].id = made' /\ made' # 0
      <4>1. o.phase = "Creating" /\ o.exists /\ o.id = 1
        BY <1>5, <1>6
      <4> QED
        BY <3>2, <4>1
    <3>4. mem'[r].field <=> made' \in fields'
      BY <3>1, <3>2
    <3> QED
      BY <3>3, <3>4 DEF CreatesWell
  <2>2. ASSUME NEW s \in Replicas, s # r PROVE CreatesWell(s)'
    <3>1. pc[s] # "created" /\ CreatesWell(s)
      BY <1>2, NothingReady DEF Undisturbed
    <3> QED
      BY <1>4, <2>2, <3>1 DEF CreatesWell
  <2> QED
    BY <2>1, <2>2
<1>10. /\ Version(project, project, made', fields')
       /\ \A s \in Replicas : /\ Version(cache[s], project, made', fields')
                              /\ Version(mem'[s], project, made', fields')
  BY <1>2, <1>4, <1>7, <1>8, NothingReady DEF Undisturbed
<1>11. \A m \in Migrations : RunsWell(m)'
  BY <1>1, <1>2, NothingReady DEF RunsWell
<1> QED
  BY <1>1, <1>9, <1>10, <1>11 DEF Undisturbed

LEMMA ReconcileUndisturbed ==
    ASSUME ProjectAssumption, Budgeted, Known, Undisturbed, troubles = 0, troubles' = 0, ~Trouble,
           NEW r \in Replicas, ReconcileProject(r)
    PROVE  Undisturbed'
<1>1. CASE NotFound(r)
  BY <1>1, FrameUndisturbed DEF NotFound, server, world
<1>2. CASE HandleSpecChange(r) \/ ReconcileDelete(r)
  BY <1>2, CopyVersion DEF HandleSpecChange, ReconcileDelete
<1>3. CASE CheckCreationStatus(r)
  BY <1>3, ReturnUndisturbed DEF CheckCreationStatus, server, world
<1> QED
  BY <1>1, <1>2, <1>3, FinalizerUndisturbed, CreationUndisturbed, FailedStatusUndisturbed,
     RecordUndisturbed, ProjectMadeUndisturbed DEF ReconcileProject

-----------------------------------------------------------------------------
(* The steps of the environment and of the migrations.                     *)

LEMMA SyncUndisturbed ==
    ASSUME Budgeted, Known, Undisturbed, NEW r \in Replicas, CacheSync(r)
    PROVE  Undisturbed'
<1>1. /\ cache' = [cache EXCEPT ![r] = project]
      /\ UNCHANGED <<project, pc, mem, wi, settings, made, fields, joined, born, resets>>
  BY DEF CacheSync, world
<1>2. \A s \in Replicas : cache'[s] = IF s = r THEN project ELSE cache[s]
  BY <1>1 DEF Budgeted, TypeOK
<1>3. \A s \in Replicas : Version(cache'[s], project, made, fields)
  BY <1>2 DEF Undisturbed
<1>4. \A s \in Replicas : cache[s].phase = "Ready" => cache'[s].phase = "Ready"
  BY <1>2 DEF Undisturbed, Version, MadeFor
<1>5. \A m \in Migrations : RunsWell(m)'
  BY <1>1, <1>4 DEF Undisturbed, RunsWell
<1>6. \A s \in Replicas : CreatesWell(s)'
  BY <1>1 DEF Undisturbed, CreatesWell
<1> QED
  BY <1>1, <1>3, <1>5, <1>6 DEF Undisturbed

\* Nothing is collected: no owner is gone.
LEMMA OthersUndisturbed ==
    ASSUME Budgeted, Known, Undisturbed, ~Trouble,
           \/ ChangeProjectSpec \/ DeleteProject \/ ResetProject \/ CreateSecret
           \/ CollectGarbage \/ RepositoryMigrationEnds \/ UNCHANGED vars
           \/ \E r \in Replicas : CacheSync(r) \/ Crash(r)
           \/ \E m \in Migrations : DeleteMigration(m)
    PROVE  Undisturbed'
<1>1. CASE CreateSecret \/ RepositoryMigrationEnds \/ UNCHANGED vars
  <2>1. UNCHANGED <<project, cache, pc, mem, wi, settings, made, fields, joined, born, resets>>
    BY <1>1 DEF CreateSecret, RepositoryMigrationEnds, vars, server, world
  <2> QED
    BY <2>1, FrameUndisturbed
<1>2. ~ChangeProjectSpec /\ ~DeleteProject /\ ~ResetProject /\ ~CollectGarbage
  BY DEF ChangeProjectSpec, DeleteProject, ResetProject, CollectGarbage, Undisturbed
<1>3. /\ \A r \in Replicas : ~Crash(r)
      /\ \A m \in Migrations : ~DeleteMigration(m)
  BY DEF Crash, DeleteMigration
<1> QED
  BY <1>1, <1>2, <1>3, SyncUndisturbed

LEMMA BecomesUndisturbed ==
    ASSUME Budgeted, Known, Undisturbed, NEW m \in Migrations, NEW phase, NEW why, NEW r,
           Becomes(m, phase, why, r), phase # "Gone", phase # "Completed",
           phase = "Running" => r \in Replicas /\ cache[r].phase = "Ready",
           UNCHANGED <<project, cache, pc, mem, settings, made, fields, joined, born, resets>>
    PROVE  Undisturbed'
<1> DEFINE to == [phase |-> phase, why |-> why, host |-> r]
<1>1. wi' = [wi EXCEPT ![m] = to] /\ to.phase = phase /\ to.host = r
  BY DEF Becomes
<1> HIDE DEF to
<1> QED
  BY <1>1, MigrationUndisturbed

\* The custom resource is born: there was no version of it.
LEMMA BirthUndisturbed ==
    ASSUME Budgeted, Known, Undisturbed, NEW m \in Migrations, ~project.exists,
           project' = Born(m), Becomes(m, "Failed", "waiting", Nobody), born' = born + 1,
           UNCHANGED <<cache, pc, mem, settings, made, fields, joined, resets>>
    PROVE  Undisturbed'
<1>1. /\ Born(m).exists /\ Born(m).owner = m /\ Born(m).gen = 1 /\ ~Born(m).deleting
      /\ Born(m).observed = 0 /\ Born(m).phase = Absent.phase
  BY DEF Born, Absent
<1>2. Absent.phase # "Ready"
  BY Zenon DEF Absent
<1>3. \A r \in Replicas : ~cache[r].exists /\ ~mem[r].exists
  BY DEF Undisturbed, Version, SameAs
<1>4. /\ \A r \in Replicas : /\ cache[r].phase # "Ready" /\ mem[r].phase # "Ready"
                             /\ pc[r] # "creating" /\ pc[r] # "created"
      /\ project.phase # "Ready"
  BY <1>3 DEF Undisturbed, Version, MadeFor, CreatesWell
<1>5. \A r \in Replicas : /\ Version(cache[r], Born(m), made, fields)
                          /\ Version(mem[r], Born(m), made, fields)
  BY <1>3, <1>4 DEF Undisturbed, Version, SameAs, MadeFor
<1>6. Version(Born(m), Born(m), made, fields)
  BY <1>1, <1>2 DEF Version, Quiet, SameAs, MadeFor
<1>7. \A r \in Replicas : CreatesWell(r)'
  BY <1>4 DEF CreatesWell
<1>8. \A n \in Migrations : wi'[n].phase = IF n = m THEN "Failed" ELSE wi[n].phase
  BY DEF Becomes, Known
<1>9. \A n \in Migrations : RunsWell(n)'
  <2>1. \A n \in Migrations : wi[n].phase \notin {"Running", "Completed"}
    BY <1>4 DEF Undisturbed, RunsWell
  <2> QED
    BY <1>8, <2>1 DEF RunsWell
<1>10. born' = 1 /\ resets' = 0
  BY DEF Undisturbed
<1> QED
  BY <1>1, <1>5, <1>6, <1>7, <1>8, <1>9, <1>10 DEF Undisturbed

\* What a migration adds to its project.
LEMMA AddsWanted ==
    ASSUME ProjectAssumption, WorkItemIssuesAssumption, ColumnsForStates,
           Budgeted, NEW m \in Migrations, NEW f, f = settings[m].filter
    PROVE  LET wanted == {i \in DOMAIN Items : WIQLQuery(f, Items[i])} IN
           /\ ToSet(BatchAddIssuesToProject(Created(m))) = wanted
           /\ SetProjectItemStatus(wanted) = {i \in wanted : Items[i].state # "Blocked"}
           /\ Closed(m) = {i \in wanted : Items[i].state \in {"Closed", "Resolved", "Removed"}}
<1> DEFINE wanted == {i \in DOMAIN Items : WIQLQuery(f, Items[i])}
<1>1. f \in Filters
  BY DEF Budgeted, TypeOK, Settings
<1>2. Created(m) = QueryWorkItems(f)
  BY <1>1 DEF Created, Found
<1>3. Created(m) \in Seq(DOMAIN Items) /\ ToSet(Created(m)) = wanted
  BY <1>2, FetchesWanted
<1>4. ToSet(BatchAddIssuesToProject(Created(m))) = wanted
  BY <1>3, AllAdded
<1>5. SetProjectItemStatus(wanted) = {i \in wanted : Items[i].state # "Blocked"}
  BY DEF SetProjectItemStatus, WithColumn, ColumnsForStates
<1>6. Closed(m) = {i \in wanted : Items[i].state \in {"Closed", "Resolved", "Removed"}}
  BY <1>3, EndedStates DEF Closed
<1> QED
  BY <1>4, <1>5, <1>6

LEMMA AdditionUndisturbed ==
    ASSUME ProjectAssumption, WorkItemIssuesAssumption, ColumnsForStates,
           Budgeted, Known, Undisturbed, ~Trouble, NEW m \in Migrations, AddIssuesToProject(m)
    PROVE  Undisturbed'
<1> PICK o : o = cache[wi[m].host]
  OBVIOUS
<1> PICK f : f = settings[m].filter
  OBVIOUS
<1> DEFINE wanted == {i \in DOMAIN Items : WIQLQuery(f, Items[i])}
           ended == {i \in wanted : Items[i].state \in {"Closed", "Resolved", "Removed"}}
           columns == {i \in wanted : project.field /\ Items[i].state # "Blocked"}
<1>1. wi[m].phase = "Running" /\ wi[m].host \in Replicas /\ o.phase = "Ready" /\ o \in Project
  BY DEF AddIssuesToProject, Undisturbed, RunsWell, Budgeted, TypeOK
<1>2. /\ o.exists /\ o.gen = 1 /\ project.phase = "Ready" /\ o.id = made /\ made # 0
      /\ o.field = project.field /\ (o.field <=> made \in fields)
  BY <1>1 DEF Undisturbed, Version, Quiet, SameAs, MadeFor
<1>3. GetProjectFieldID(o) = {project.field}
  <2>1. project.field \in BOOLEAN
    BY DEF Budgeted, TypeOK, Project
  <2>2. ~(o.gen > 1)
    BY <1>2
  <2>3. CASE project.field = TRUE
    <3>1. o.id \in fields
      BY <1>2, <2>3
    <3> QED
      BY <2>2, <2>3, <3>1 DEF GetProjectFieldID
  <2>4. CASE project.field = FALSE
    <3>1. o.id \notin fields
      BY <1>2, <2>4
    <3> QED
      BY <2>4, <3>1 DEF GetProjectFieldID
  <2> QED
    BY <2>1, <2>3, <2>4
<1>4. /\ ToSet(BatchAddIssuesToProject(Created(m))) = wanted
      /\ SetProjectItemStatus(wanted) = {i \in wanted : Items[i].state # "Blocked"}
      /\ Closed(m) = ended
  BY AddsWanted
<1>5. SetProjectItemStatus({}) = {}
  BY DEF SetProjectItemStatus
<1>6. SetProjectItemStatus(IF project.field THEN wanted ELSE {}) = columns
  BY <1>4, <1>5
<1>7. Joins(m, made, wanted, SetProjectItemStatus(IF project.field THEN wanted ELSE {}), ended)
  <2>1. ~AddingFails(m, o.id, project.field)
    BY DEF AddingFails
  <2> QED
    BY <1>2, <1>3, <1>4, <2>1 DEF AddIssuesToProject
<1>8. joined' = [joined EXCEPT ![m] = JoinedFor(f, project.field, made)]
  BY <1>6, <1>7 DEF Joins, JoinedFor
<1>9. /\ Becomes(m, "Completed", "none", Nobody)
      /\ UNCHANGED <<project, cache, pc, mem, settings, made, fields, born, resets>>
  BY DEF AddIssuesToProject, server
<1>10. \A n \in Migrations :
          /\ wi'[n].phase = IF n = m THEN "Completed" ELSE wi[n].phase
          /\ wi'[n].host = IF n = m THEN Nobody ELSE wi[n].host
          /\ joined'[n] = IF n = m THEN JoinedFor(f, project.field, made) ELSE joined[n]
  BY <1>8, <1>9 DEF Becomes, Known
<1>11. \A n \in Migrations : RunsWell(n)'
  <2>1. RunsWell(m)'
    BY <1>2, <1>9, <1>10 DEF RunsWell
  <2>2. ASSUME NEW n \in Migrations, n # m PROVE RunsWell(n)'
    BY <1>9, <1>10, <2>2 DEF Undisturbed, RunsWell
  <2> QED
    BY <2>1, <2>2
<1>12. project'.owner # Nobody => wi'[project'.owner].phase # "Gone"
  <2>1. project.owner \in Migrations \cup {Nobody}
    BY DEF Budgeted, TypeOK, Project
  <2> QED
    BY <1>9, <1>10, <2>1 DEF Undisturbed
<1>13. \A r \in Replicas : CreatesWell(r)'
  BY <1>9 DEF Undisturbed, CreatesWell
<1> QED
  BY <1>9, <1>11, <1>12, <1>13 DEF Undisturbed

LEMMA ReconcileMigrationUndisturbed ==
    ASSUME ProjectAssumption, WorkItemIssuesAssumption, ColumnsForStates,
           Budgeted, Known, Undisturbed, ~Trouble, NEW m \in Migrations, ReconcileMigration(m)
    PROVE  Undisturbed'
<1>1. ASSUME NEW r \in Replicas, CreateProjectObject(m, r)
      PROVE  Undisturbed'
  <2>1. UNCHANGED <<cache, pc, mem, settings, made, fields, joined, resets>>
    BY <1>1 DEF CreateProjectObject, world
  <2>2. CASE project.exists
    <3>1. Becomes(m, "Failed", "other", Nobody) /\ UNCHANGED <<project, born>>
      BY <1>1, <2>2 DEF CreateProjectObject, server
    <3> QED
      BY <2>1, <3>1, BecomesUndisturbed
  <2>3. CASE ~project.exists
    <3>1. /\ Becomes(m, "Failed", "waiting", Nobody) /\ project' = Born(m) /\ born' = born + 1
      BY <1>1, <2>3 DEF CreateProjectObject, Stored
    <3> QED
      BY <2>1, <2>3, <3>1, BirthUndisturbed
  <2> QED
    BY <2>2, <2>3
<1>2. ASSUME NEW r \in Replicas, CheckRepository(m, r)
      PROVE  Undisturbed'
  <2>1. /\ UNCHANGED <<project, cache, pc, mem, settings, made, fields, joined, born, resets>>
        /\ cache[r].phase = "Ready"
        /\ \/ Becomes(m, "Failed", "waiting", Nobody) \/ Becomes(m, "Failed", "other", Nobody)
           \/ Becomes(m, "Running", "none", r)
    BY <1>2 DEF CheckRepository, UsableProject, server, world
  <2> QED
    BY <2>1, BecomesUndisturbed
<1>3. ASSUME NEW r \in Replicas, CreateTargetRepository(m, r)
      PROVE  Undisturbed'
  <2>1. UNCHANGED <<project, cache, pc, mem, wi, settings, made, fields, joined, born, resets>>
    BY <1>3 DEF CreateTargetRepository, server
  <2> QED
    BY <2>1, FrameUndisturbed
<1>4. CASE RetryFailed(m)
  <2>1. /\ UNCHANGED <<project, cache, pc, mem, settings, made, fields, joined, born, resets>>
        /\ Becomes(m, "Validating", "none", Nobody)
    BY <1>4 DEF RetryFailed, server, world
  <2> QED
    BY <2>1, BecomesUndisturbed
<1>5. CASE FailMigration(m)
  <2>1. /\ UNCHANGED <<project, cache, pc, mem, settings, made, fields, joined, born, resets>>
        /\ Becomes(m, "Failed", "other", Nobody)
    BY <1>5 DEF FailMigration, server, world
  <2> QED
    BY <2>1, BecomesUndisturbed
<1>6. CASE AddIssuesToProject(m)
  BY <1>6, AdditionUndisturbed
<1> QED
  BY <1>1, <1>2, <1>3, <1>4, <1>5, <1>6 DEF ReconcileMigration

LEMMA StepUndisturbed ==
    ASSUME ProjectAssumption, WorkItemIssuesAssumption, ColumnsForStates,
           Budgeted, Known, Undisturbed, troubles = 0, troubles' = 0, ~Trouble, [Next]_vars
    PROVE  Undisturbed'
<1>1. ASSUME NEW r \in Replicas, ReconcileProject(r)
      PROVE  Undisturbed'
  BY <1>1, ReconcileUndisturbed
<1>2. ASSUME NEW m \in Migrations, ReconcileMigration(m)
      PROVE  Undisturbed'
  BY <1>2, ReconcileMigrationUndisturbed
<1> QED
  BY <1>1, <1>2, OthersUndisturbed DEF Next, Users

LEMMA InitUndisturbed ==
    ASSUME Init
    PROVE  Known /\ Undisturbed
<1> PICK p : p = project
  OBVIOUS
<1>1. /\ \A r \in Replicas : cache[r] = p /\ mem[r] = Absent /\ pc[r] = "idle"
      /\ \A m \in Migrations : wi[m].phase \in {"Validating", "Gone"}
      /\ made = 0 /\ resets = 0 /\ born = IF p.exists THEN 1 ELSE 0
  BY DEF Init
<1>2. Known
  <2>1. DOMAIN wi = Migrations /\ DOMAIN joined = Migrations
    BY DEF Init
  <2>2. fields = {} /\ troubles = 0
    BY DEF Init
  <2> QED
    BY <2>1, <2>2 DEF Known
<1>3. Version(Absent, p, made, fields)
  BY AbsentVersion
<1>4. Version(p, p, made, fields) /\ p.owner = Nobody
  <2>1. CASE p = Absent
    BY <1>3, <2>1, AbsentVersion
  <2>2. CASE p = Given
    <3> DEFINE e == [Absent EXCEPT !.exists = TRUE]
               g == [e EXCEPT !.field = TRUE]
    <3>1. p = g
      BY <2>2 DEF Given
    <3>2. Absent \in Project /\ Absent.owner = Nobody /\ Absent.gen = 1 /\ Absent.observed = 0
          /\ ~Absent.deleting
      BY AbsentIsProject, AbsentVersion DEF Absent
    <3>3. /\ g.exists /\ g.owner = Absent.owner /\ g.gen = Absent.gen
          /\ g.observed = Absent.observed /\ g.phase = Absent.phase /\ g.deleting = Absent.deleting
      BY <3>2 DEF Project
    <3> HIDE DEF g
    <3>4. Absent.phase # "Ready"
      BY Zenon DEF Absent
    <3> QED
      BY <3>1, <3>2, <3>3, <3>4 DEF Version, Quiet, SameAs, MadeFor
  <2> QED
    BY <2>1, <2>2 DEF Init
<1>5. /\ \A r \in Replicas : CreatesWell(r)
      /\ \A m \in Migrations : RunsWell(m)
  BY <1>1 DEF CreatesWell, RunsWell
<1> QED
  BY <1>1, <1>2, <1>3, <1>4, <1>5 DEF Undisturbed

\* Without trouble, whatever the interleaving of replicas, migrations and outdated caches,
\* and for all numbers of items and sizes of requests and chunks: a completed migration has
\* in the one project an issue for each item that its filter asks for, closed when the item
\* has ended, and with a status field in the column of its state (CompletedJoined).
THEOREM IssuesJoined ==
    ASSUME ColumnsForStates
    PROVE  Spec => []CompletedJoined
<1> DEFINE Joined == Budgeted /\ Known /\ (troubles = 0 => Undisturbed)
<1>1. Init => Joined
  BY ProjectAssumption, InitBudgeted, InitUndisturbed
<1>2. Joined /\ [Next]_vars => Joined'
  <2> SUFFICES ASSUME Joined, [Next]_vars
               PROVE  Joined'
    OBVIOUS
  <2>1. Budgeted'
    BY ProjectAssumption, StepKeeps
  <2>2. Known' /\ (troubles' = 0 => troubles = 0 /\ ~Trouble)
    BY KnownKeeps
  <2>3. troubles' = 0 => Undisturbed'
    BY <2>2, ProjectAssumption, WorkItemIssuesAssumption, ColumnsForStates, StepUndisturbed
  <2> QED
    BY <2>1, <2>2, <2>3
<1>3. Joined => CompletedJoined
  BY DEF Undisturbed, RunsWell, JoinedFor, CompletedJoined
<1> QED
  BY <1>1, <1>2, <1>3, PTL DEF Spec
=============================================================================
