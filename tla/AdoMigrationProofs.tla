------------------------- MODULE AdoMigrationProofs -------------------------
(* Theorems about the AdoToGitMigration reconciler.  First, what its        *)
(* handlers preserve when they are applied one at a time to the latest      *)
(* version of the object (AtomicMigration).  Then, that the replicas, their *)
(* caches and the copies they work on (AdoMigration) implement that, so     *)
(* that what is proved of the handlers holds of the reconcilers.            *)
EXTENDS AdoMigration, FiniteSetTheorems, WellFoundedInduction, TLAPS

-----------------------------------------------------------------------------
(* The handlers yield objects.                                             *)

\* The resources of an object are a finite sequence of resources.
LEMMA ResourcesType ==
    ASSUME NEW o \in Object
    PROVE  /\ ResourcesOf(o) \in Seq(Resource)
           /\ o.spec \in Specs
           /\ o.spec.sync \in BOOLEAN
           /\ \A k \in DOMAIN ResourcesOf(o) : ResourcesOf(o)[k] \in Resource
BY SpecsAssumption DEF Object, ResourcesOf

\* Replacing or appending an entry gives a status again.
LEMMA RecordedType ==
    ASSUME NEW s \in Status, NEW res \in Resource, NEW st \in Processed
    PROVE  Recorded(s, res, st) \in Status
<1>1. [res |-> res, st |-> st] \in Entry
  BY DEF Entry, Processed, ResourcePhases
<1>2. s.statuses \in Seq(Entry)
  BY DEF Status
<1> DEFINE new == [res |-> res, st |-> st]
           at == EntryAt(s.statuses, res.name)
           sts == IF at = {} THEN Append(s.statuses, new)
                  ELSE [i \in DOMAIN s.statuses |-> IF i \in at THEN new ELSE s.statuses[i]]
           done == IF st = "Completed" THEN s.completed + 1 ELSE s.completed
           fails == IF st = "Failed" THEN s.failed + 1 ELSE s.failed
<1>3. sts \in Seq(Entry)
  <2>1. [i \in DOMAIN s.statuses |-> IF i \in at THEN new ELSE s.statuses[i]] \in Seq(Entry)
    BY <1>1, <1>2
  <2>2. Append(s.statuses, new) \in Seq(Entry)
    BY <1>1, <1>2
  <2> QED
    BY <2>1, <2>2
<1>4. done \in Int /\ fails \in Int
  BY DEF Status
<1>5. Recorded(s, res, st) = [s EXCEPT !.statuses = sts, !.completed = done,
                                       !.failed = fails, !.processing = 0]
  BY DEF Recorded
<1> HIDE DEF sts, done, fails
<1> QED
  BY <1>3, <1>4, <1>5 DEF Status

\* The observed status and the phase moves are statuses of the object.
LEMMA ObservedType ==
    ASSUME NEW o \in Object
    PROVE  /\ Observed(o) \in Status
           /\ o.status \in Status
           /\ \A phase \in Phases : InNewPhase(o, phase) \in Object
BY DEF Object, Status, Observed, InNewPhase, WithStatus

\* S, a set of positions of a sequence, put in order.
LEMMA InOrderType ==
    ASSUME NEW n \in Nat, NEW S \in SUBSET (1 .. n)
    PROVE  InOrder(S) \in Seq(S)
<1>1. IsFiniteSet(S)
  <2>1. IsFiniteSet(1 .. n)
    BY FS_Interval
  <2> QED
    BY <2>1, FS_Subset
<1>2. Cardinality(S) \in Nat
  BY <1>1, FS_CardinalityType
<1> DEFINE increasing == {f \in [1 .. Cardinality(S) -> S] :
                            \A a, b \in 1 .. Cardinality(S) : a < b => f[a] < f[b]}
<1>3. CASE increasing = {}
  <2>1. InOrder(S) = <<>>
    BY <1>3 DEF InOrder
  <2> QED
    BY <2>1
<1>4. CASE increasing # {}
  <2>1. InOrder(S) \in increasing
    BY <1>4 DEF InOrder
  <2> QED
    BY <1>2, <2>1
<1> QED
  BY <1>3, <1>4

\* The positions a set constructor selects in a finite sequence can be counted.
LEMMA PositionsFinite ==
    ASSUME NEW T, NEW sts \in Seq(T), NEW S \in SUBSET DOMAIN sts
    PROVE  IsFiniteSet(S) /\ Cardinality(S) \in Nat
<1>1. DOMAIN sts = 1 .. Len(sts) /\ Len(sts) \in Nat
  OBVIOUS
<1>2. IsFiniteSet(DOMAIN sts)
  BY <1>1, FS_Interval
<1>3. IsFiniteSet(S)
  BY <1>2, FS_Subset
<1> QED
  BY <1>3, FS_CardinalityType

\* Restarting a migration gives a status again.
LEMMA RestartedType ==
    ASSUME NEW o \in Object
    PROVE  Restarted(o) \in Status
<1> DEFINE s == o.status
           removed == RemovedEntries(o)
           modified == ModifiedEntries(o)
           order == InOrder(NewResources(o))
           kept == [i \in DOMAIN s.statuses |->
                      IF i \in removed THEN [s.statuses[i] EXCEPT !.st = "Skipped"]
                      ELSE IF i \in modified
                      THEN [res |-> ResourcesOf(o)[CHOOSE k \in ModifiedResources(o) :
                                       ResourcesOf(o)[k].id = s.statuses[i].res.id],
                            st |-> "Pending"]
                      ELSE s.statuses[i]]
           added == [n \in DOMAIN order |->
                       [res |-> ResourcesOf(o)[order[n]], st |-> "Pending"]]
           dropped(st) == Cardinality({i \in removed \cup modified : s.statuses[i].st = st})
<1>1. s \in Status /\ s.statuses \in Seq(Entry) /\ o.gen \in Nat
  BY DEF Object, Status
<1>2. ResourcesOf(o) \in Seq(Resource)
  BY ResourcesType
<1> HIDE DEF s
<1>3. kept \in Seq(Entry)
  <2>1. ASSUME NEW i \in DOMAIN s.statuses
        PROVE  [s.statuses[i] EXCEPT !.st = "Skipped"] \in Entry
    <3>1. s.statuses[i] \in Entry
      BY <1>1
    <3> QED
      BY <3>1 DEF Entry, ResourcePhases
  <2>2. ASSUME NEW i \in modified
        PROVE  [res |-> ResourcesOf(o)[CHOOSE k \in ModifiedResources(o) :
                           ResourcesOf(o)[k].id = s.statuses[i].res.id],
                st |-> "Pending"] \in Entry
    <3> DEFINE k0 == CHOOSE k \in ModifiedResources(o) :
                        ResourcesOf(o)[k].id = s.statuses[i].res.id
    <3>1. \E k \in ModifiedResources(o) : ResourcesOf(o)[k].id = s.statuses[i].res.id
      BY DEF ModifiedEntries, s
    <3>2. k0 \in ModifiedResources(o)
      BY <3>1
    <3>3. k0 \in DOMAIN ResourcesOf(o)
      BY <3>2 DEF ModifiedResources
    <3> HIDE DEF k0
    <3>4. ResourcesOf(o)[k0] \in Resource
      BY <3>3, <1>2
    <3> QED
      BY <3>4 DEF Entry, ResourcePhases, k0
  <2>3. ASSUME NEW i \in DOMAIN s.statuses
        PROVE  kept[i] \in Entry
    <3>1. CASE i \in removed
      BY <3>1, <2>1
    <3>2. CASE i \notin removed /\ i \in modified
      BY <3>2, <2>2
    <3>3. CASE i \notin removed /\ i \notin modified
      BY <3>3, <1>1
    <3> QED
      BY <3>1, <3>2, <3>3
  <2>4. kept \in [1 .. Len(s.statuses) -> Entry]
    <3>1. DOMAIN s.statuses = 1 .. Len(s.statuses)
      BY <1>1
    <3>2. kept = [i \in 1 .. Len(s.statuses) |-> kept[i]]
      BY <3>1
    <3> HIDE DEF kept
    <3> QED
      BY <3>1, <3>2, <2>3
  <2>5. Len(s.statuses) \in Nat
    BY <1>1
  <2> HIDE DEF kept
  <2> QED
    BY <2>4, <2>5
<1>4. added \in Seq(Entry)
  <2>1. NewResources(o) \subseteq 1 .. Len(ResourcesOf(o)) /\ Len(ResourcesOf(o)) \in Nat
    BY <1>2 DEF NewResources
  <2>2. order \in Seq(NewResources(o))
    BY <2>1, InOrderType
  <2> HIDE DEF order
  <2>3. ASSUME NEW n \in DOMAIN order
        PROVE  [res |-> ResourcesOf(o)[order[n]], st |-> "Pending"] \in Entry
    <3>1. order[n] \in DOMAIN ResourcesOf(o)
      BY <2>2 DEF NewResources
    <3> QED
      BY <3>1, <1>2 DEF Entry, ResourcePhases
  <2> QED
    BY <2>2, <2>3
<1>5. removed \subseteq DOMAIN s.statuses /\ modified \subseteq DOMAIN s.statuses
  BY DEF RemovedEntries, ModifiedEntries, s
<1>6. Cardinality(removed) \in Nat /\ dropped("Completed") \in Nat /\ dropped("Failed") \in Nat
  <2>1. \A S \in SUBSET DOMAIN s.statuses : Cardinality(S) \in Nat
    BY <1>1, PositionsFinite
  <2> QED
    BY <2>1, <1>5
<1>7. kept \o added \in Seq(Entry)
  <2> HIDE DEF kept, added
  <2> QED
    BY <1>3, <1>4
<1>8. Len(ResourcesOf(o)) \in Nat
  BY <1>2
<1>9. Restarted(o) = [s EXCEPT !.phase = "Running", !.obs = o.gen,
                               !.statuses = kept \o added,
                               !.total = Len(ResourcesOf(o)),
                               !.completed = s.completed - dropped("Completed"),
                               !.failed = s.failed - dropped("Failed"),
                               !.skipped = s.skipped + Cardinality(removed)]
  BY DEF Restarted, s
<1> HIDE DEF kept, added, dropped, removed, modified, order
<1>10. /\ s.completed - dropped("Completed") \in Int
       /\ s.failed - dropped("Failed") \in Int
       /\ s.skipped + Cardinality(removed) \in Nat
       /\ "Running" \in Phases
  <2>1. s.completed \in Int /\ s.failed \in Int /\ s.skipped \in Nat
    BY <1>1 DEF Status
  <2>2. "Running" \in Phases
    BY DEF Phases
  <2> QED
    BY <1>6, <2>1, <2>2
<1> QED
  BY <1>1, <1>7, <1>8, <1>9, <1>10 DEF Status

\* Every handler makes an object of an object.
LEMMA HandlersType ==
    ASSUME NEW o \in Object
    PROVE  /\ AfterRestart(o) \in Object
           /\ AfterAddFinalizer(o) \in Object
           /\ AfterRemoveFinalizer(o) \in Object
           /\ AfterTrigger(o) \in Object
           /\ AfterInitialize(o) \in Object
           /\ AfterMark(o) \in Object
           /\ AfterFail(o) \in Object
           /\ \A k \in DOMAIN ResourcesOf(o) : AfterSuccess(o, k) \in Object
           /\ \A k \in DOMAIN ResourcesOf(o) : AfterFailure(o, k) \in Object
           /\ AfterComplete(o) \in Object
           /\ WithStatus(o, Observed(o)) \in Object
<1>1. ASSUME NEW s \in Status
      PROVE  WithStatus(o, s) \in Object
  BY DEF WithStatus, Object
<1>2. o.gen \in Nat /\ Len(ResourcesOf(o)) \in Nat /\ Observed(o) \in Status
  BY ResourcesType, ObservedType DEF Object
<1>3. AfterRestart(o) \in Object
  BY <1>1, <1>2, RestartedType DEF AfterRestart
<1>4. AfterAddFinalizer(o) \in Object /\ AfterRemoveFinalizer(o) \in Object
  BY DEF AfterAddFinalizer, AfterRemoveFinalizer, Object
<1>5. AfterTrigger(o) \in Object
  BY DEF AfterTrigger, Object
<1>6. AfterInitialize(o) \in Object
  <2>1. NoStatus \in Status
    BY DEF NoStatus, Status, Phases
  <2>2. [NoStatus EXCEPT !.phase = "Pending", !.obs = o.gen,
                         !.total = Len(ResourcesOf(o))] \in Status
    BY <1>2, <2>1 DEF Status, Phases
  <2> QED
    BY <1>1, <2>2 DEF AfterInitialize
<1>7. AfterMark(o) \in Object
  BY <1>1, <1>2 DEF AfterMark, Status
<1>8. AfterFail(o) \in Object
  BY <1>1, <1>2 DEF AfterFail, Status, Phases
<1>9. ASSUME NEW k \in DOMAIN ResourcesOf(o), NEW st \in Processed
      PROVE  Recorded(Observed(o), ResourcesOf(o)[k], st) \in Status
  BY <1>2, ResourcesType, RecordedType
<1>10. ASSUME NEW k \in DOMAIN ResourcesOf(o)
       PROVE  AfterSuccess(o, k) \in Object
  BY <1>1, <1>9 DEF AfterSuccess, Processed
<1>11. ASSUME NEW k \in DOMAIN ResourcesOf(o)
       PROVE  AfterFailure(o, k) \in Object
  <2>1. Recorded(Observed(o), ResourcesOf(o)[k], "Failed") \in Status
    BY <1>9 DEF Processed
  <2>2. [Recorded(Observed(o), ResourcesOf(o)[k], "Failed") EXCEPT !.phase = "Failed"] \in Status
    BY <2>1 DEF Status, Phases
  <2> QED
    BY <1>1, <2>2 DEF AfterFailure
<1>12. AfterComplete(o) \in Object
  BY <1>1, <1>2 DEF AfterComplete, Status, Phases
<1>13. WithStatus(o, Observed(o)) \in Object
  BY <1>1, <1>2
<1> QED
  BY <1>3, <1>4, <1>5, <1>6, <1>7, <1>8, <1>10, <1>11, <1>12, <1>13

\* The object a user creates, and what a user makes of an object.
LEMMA NewObjectType == \A s \in Specs : NewObject(s) \in Object
<1>1. NoStatus \in Status
  BY DEF NoStatus, Status, Phases
<1> QED
  BY <1>1 DEF NewObject, Object, Annotations

LEMMA UserStepType ==
    ASSUME ObjectTypeOK, UserStep
    PROVE  ObjectTypeOK'
<1>1. ASSUME EditSpec PROVE obj' \in Object
  <2>1. PICK s \in Specs : obj' = [obj EXCEPT !.spec = s, !.gen = obj.gen + 1]
    BY <1>1 DEF EditSpec
  <2>2. obj.gen + 1 \in Nat
    BY DEF ObjectTypeOK, Object
  <2> QED
    BY <2>1, <2>2 DEF ObjectTypeOK, Object
<1>2. ASSUME Annotate PROVE obj' \in Object
  <2>1. PICK a \in UserAnnotations : obj' = [obj EXCEPT !.ann = obj.ann \cup {a}]
    BY <1>2 DEF Annotate
  <2>2. a \in Annotations
    BY SpecsAssumption DEF Annotations
  <2> QED
    BY <2>1, <2>2 DEF ObjectTypeOK, Object
<1>3. ASSUME Unannotate PROVE obj' \in Object
  BY <1>3 DEF Unannotate, ObjectTypeOK, Object
<1>4. ASSUME Delete PROVE obj' \in Object
  <2>1. obj.gen + 1 \in Nat /\ obj.fin \in BOOLEAN
    BY DEF ObjectTypeOK, Object
  <2> QED
    BY <1>4, <2>1 DEF Delete, ObjectTypeOK, Object
<1> QED
  BY <1>1, <1>2, <1>3, <1>4 DEF UserStep, ObjectTypeOK

LEMMA HandledType ==
    ASSUME ObjectTypeOK, Handled
    PROVE  obj' \in Object
<1>1. obj \in Object
  BY DEF ObjectTypeOK
<1>2. \A phase \in {"Paused", "Cancelled", "Validating", "Running", "Failed", "Completed"} :
         InNewPhase(obj, phase) \in Object
  BY <1>1, ObservedType DEF Phases
<1> QED
  BY <1>1, <1>2, HandlersType
  DEF Handled, RestartTaken, FinalizerAdded, FinalizerRemoved, TriggerTaken, PausedByUser,
      CancelledByUser, StatusInitialized, ValidationBegun, ValidationEnded, MigrationFailed,
      ProcessingMarked, ResourceCompleted, ResourceFailed, MigrationCompleted, SyncStopped,
      SyncDone

\* The object is an object at every moment: its status fields, its entries and
\* the counters keep their types through every handler and the restart's merge.
THEOREM AtomicTypeCorrect == AtomicSpec => []ObjectTypeOK
<1>1. AtomicInit => ObjectTypeOK
  BY NewObjectType DEF AtomicInit, ObjectTypeOK, RepositoryStates
<1>2. ObjectTypeOK /\ [AtomicNext]_objectVars => ObjectTypeOK'
  <2> SUFFICES ASSUME ObjectTypeOK, [AtomicNext]_objectVars
               PROVE  ObjectTypeOK'
    OBVIOUS
  <2>1. CASE UserStep
    BY <2>1, UserStepType
  <2>2. CASE HandlerStep
    BY <2>2, HandledType DEF HandlerStep, GitHubAdvances, ObjectTypeOK
  <2>3. CASE UNCHANGED objectVars
    BY <2>3 DEF objectVars, ObjectTypeOK
  <2> QED
    BY <2>1, <2>2, <2>3 DEF AtomicNext
<1> QED
  BY <1>1, <1>2, PTL DEF AtomicSpec

-----------------------------------------------------------------------------
(* The counters count the entries.                                         *)

\* The counters of a status are the numbers of its entries.
Counted(s) ==
    /\ s.completed = Count(s.statuses, "Completed")
    /\ s.failed = Count(s.statuses, "Failed")

Positions(sts, st) == {i \in DOMAIN sts : sts[i].st = st}

LEMMA PositionsCounted ==
    ASSUME NEW sts \in Seq(Entry), NEW st
    PROVE  /\ IsFiniteSet(Positions(sts, st))
           /\ Count(sts, st) = Cardinality(Positions(sts, st))
           /\ Count(sts, st) \in Nat
<1>1. Positions(sts, st) \in SUBSET DOMAIN sts
  BY DEF Positions
<1>2. IsFiniteSet(Positions(sts, st)) /\ Cardinality(Positions(sts, st)) \in Nat
  BY <1>1, PositionsFinite
<1> QED
  BY <1>2 DEF Count, Positions

\* Recording a resource that is not processed adds one position to the state
\* recorded and takes none from the processed states.
LEMMA RecordedPositions ==
    ASSUME NEW s \in Status, NEW res \in Resource, NEW st \in Processed,
           ~IsProcessed(s.statuses, res)
    PROVE  LET new == Recorded(s, res, st).statuses
           IN \E p : /\ p \notin Positions(s.statuses, st)
                     /\ Positions(new, st) = Positions(s.statuses, st) \cup {p}
                     /\ \A x \in Processed \ {st} : Positions(new, x) = Positions(s.statuses, x)
<1> DEFINE old == s.statuses
           entry == [res |-> res, st |-> st]
           at == EntryAt(old, res.name)
           new == Recorded(s, res, st).statuses
<1>1. old \in Seq(Entry) /\ Len(old) \in Nat /\ DOMAIN old = 1 .. Len(old)
  BY DEF Status
<1>2. new = IF at = {} THEN Append(old, entry)
            ELSE [i \in DOMAIN old |-> IF i \in at THEN entry ELSE old[i]]
  BY DEF Recorded, Status
<1>3. entry.st = st
  OBVIOUS
<1>4. CASE at = {}
  <2> DEFINE p == Len(old) + 1
  <2>1. new = Append(old, entry)
    BY <1>2, <1>4
  <2>2. DOMAIN new = DOMAIN old \cup {p} /\ p \notin DOMAIN old
    BY <1>1, <2>1
  <2>3. new[p] = entry /\ \A i \in DOMAIN old : new[i] = old[i]
    BY <1>1, <2>1
  <2> HIDE DEF new, entry, p, old
  <2>4. \A x : Positions(new, x) = IF x = st THEN Positions(old, x) \cup {p}
                                   ELSE Positions(old, x)
    BY <1>3, <2>2, <2>3 DEF Positions
  <2>5. p \notin Positions(old, st)
    BY <2>2 DEF Positions
  <2> QED
    BY <2>4, <2>5 DEF new, old
<1>5. CASE at # {}
  <2>1. PICK p \in at : TRUE
    BY <1>5
  <2>2. p \in DOMAIN old /\ old[p].st \notin Processed
    BY <2>1 DEF EntryAt, IsProcessed
  <2>3. at = {p}
    <3>1. ASSUME NEW q \in at PROVE q = p
      <4>1. q \in 1 .. Len(old) /\ p \in 1 .. Len(old)
        BY <1>1, <2>1 DEF EntryAt
      <4>2. /\ \A j \in 1 .. q - 1 : old[j].res.name # res.name
            /\ \A j \in 1 .. p - 1 : old[j].res.name # res.name
            /\ old[q].res.name = res.name
            /\ old[p].res.name = res.name
        BY <2>1 DEF EntryAt
      <4>3. ~(q < p) /\ ~(p < q)
        BY <4>1, <4>2
      <4> QED
        BY <4>1, <4>3
    <3> QED
      BY <2>1, <3>1
  <2>4. new = [i \in DOMAIN old |-> IF i = p THEN entry ELSE old[i]]
    BY <1>2, <1>5, <2>3
  <2> HIDE DEF new, entry, old
  <2>5. \A x \in Processed : Positions(new, x) = IF x = st THEN Positions(old, x) \cup {p}
                                                 ELSE Positions(old, x)
    BY <1>3, <2>2, <2>4 DEF Positions
  <2>6. p \notin Positions(old, st)
    BY <2>2 DEF Positions
  <2> QED
    BY <2>5, <2>6 DEF new, old
<1> QED
  BY <1>4, <1>5

\* So the counters of a counted status stay right when a resource is recorded.
LEMMA RecordedCounted ==
    ASSUME NEW s \in Status, Counted(s), NEW res \in Resource, NEW st \in Processed,
           ~IsProcessed(s.statuses, res)
    PROVE  Counted(Recorded(s, res, st))
<1> DEFINE new == Recorded(s, res, st)
<1>1. s.statuses \in Seq(Entry) /\ new.statuses \in Seq(Entry)
  BY RecordedType DEF Status
<1>2. PICK p : /\ p \notin Positions(s.statuses, st)
               /\ Positions(new.statuses, st) = Positions(s.statuses, st) \cup {p}
               /\ \A x \in Processed \ {st} :
                     Positions(new.statuses, x) = Positions(s.statuses, x)
  BY RecordedPositions
<1>3. Count(new.statuses, st) = Count(s.statuses, st) + 1
  BY <1>1, <1>2, PositionsCounted, FS_AddElement
<1>4. \A x \in Processed \ {st} : Count(new.statuses, x) = Count(s.statuses, x)
  BY <1>1, <1>2, PositionsCounted
<1>5. /\ new.completed = IF st = "Completed" THEN s.completed + 1 ELSE s.completed
      /\ new.failed = IF st = "Failed" THEN s.failed + 1 ELSE s.failed
  <2>1. DOMAIN s = {"phase", "obs", "statuses", "total", "completed", "failed", "skipped",
                    "processing"}
    BY DEF Status
  <2> QED
    BY <2>1 DEF Recorded
<1>6. "Completed" \in Processed /\ "Failed" \in Processed
  BY DEF Processed
<1>7. s.completed = Count(s.statuses, "Completed") /\ s.failed = Count(s.statuses, "Failed")
  BY DEF Counted
<1> HIDE DEF new
<1>8. new.completed = Count(new.statuses, "Completed")
  <2>1. CASE st = "Completed"
    BY <1>3, <1>5, <1>7, <2>1
  <2>2. CASE st # "Completed"
    BY <1>4, <1>5, <1>6, <1>7, <2>2
  <2> QED
    BY <2>1, <2>2
<1>9. new.failed = Count(new.statuses, "Failed")
  <2>1. CASE st = "Failed"
    BY <1>3, <1>5, <1>7, <2>1
  <2>2. CASE st # "Failed"
    BY <1>4, <1>5, <1>6, <1>7, <2>2
  <2> QED
    BY <2>1, <2>2
<1> QED
  BY <1>8, <1>9 DEF Counted, new

\* The elements of a concatenation.
LEMMA ConcatAt ==
    ASSUME NEW S, NEW a \in Seq(S), NEW T, NEW b \in Seq(T)
    PROVE  /\ DOMAIN (a \o b) = 1 .. Len(a) + Len(b)
           /\ \A i \in 1 .. Len(a) : (a \o b)[i] = a[i]
           /\ \A i \in 1 .. Len(a) + Len(b) : i > Len(a) => (a \o b)[i] = b[i - Len(a)]
<1>1. a \in Seq(S \cup T) /\ b \in Seq(S \cup T)
  OBVIOUS
<1> QED
  BY <1>1

\* What a restart makes of entry i, and the n-th entry it adds.
KeptEntry(o, i) ==
    LET old == o.status.statuses
    IN IF i \in RemovedEntries(o) THEN [old[i] EXCEPT !.st = "Skipped"]
       ELSE IF i \in ModifiedEntries(o)
       THEN [res |-> ResourcesOf(o)[CHOOSE k \in ModifiedResources(o) :
                        ResourcesOf(o)[k].id = old[i].res.id],
             st |-> "Pending"]
       ELSE old[i]
AddedEntry(o, n) ==
    [res |-> ResourcesOf(o)[InOrder(NewResources(o))[n]], st |-> "Pending"]

\* The entries after a restart: those kept, and behind them the added ones.
LEMMA RestartedParts ==
    ASSUME NEW o \in Object
    PROVE  LET old == o.status.statuses
               new == Restarted(o).statuses
               order == InOrder(NewResources(o))
           IN /\ old \in Seq(Entry)
              /\ order \in Seq(NewResources(o))
              /\ DOMAIN new = 1 .. Len(old) + Len(order)
              /\ \A i \in 1 .. Len(old) : new[i] = KeptEntry(o, i)
              /\ \A i \in 1 .. Len(old) + Len(order) :
                    i > Len(old) => new[i] = AddedEntry(o, i - Len(old))
<1> DEFINE s == o.status
           old == s.statuses
           removed == RemovedEntries(o)
           modified == ModifiedEntries(o)
           order == InOrder(NewResources(o))
           kept == [i \in DOMAIN old |->
                      IF i \in removed THEN [old[i] EXCEPT !.st = "Skipped"]
                      ELSE IF i \in modified
                      THEN [res |-> ResourcesOf(o)[CHOOSE k \in ModifiedResources(o) :
                                       ResourcesOf(o)[k].id = old[i].res.id],
                            st |-> "Pending"]
                      ELSE old[i]]
           added == [n \in DOMAIN order |->
                       [res |-> ResourcesOf(o)[order[n]], st |-> "Pending"]]
           new == Restarted(o).statuses
<1>1. s \in Status /\ old \in Seq(Entry)
  BY DEF Object, Status
<1>2. new = kept \o added
  <2>1. DOMAIN s = {"phase", "obs", "statuses", "total", "completed", "failed", "skipped",
                    "processing"}
    BY <1>1 DEF Status
  <2> QED
    BY <2>1 DEF Restarted
<1>3. DOMAIN kept = 1 .. Len(old) /\ Len(old) \in Nat
  BY <1>1
<1>4. order \in Seq(NewResources(o))
  <2>1. ResourcesOf(o) \in Seq(Resource)
    BY ResourcesType
  <2>2. NewResources(o) \subseteq 1 .. Len(ResourcesOf(o)) /\ Len(ResourcesOf(o)) \in Nat
    BY <2>1 DEF NewResources
  <2> QED
    BY <2>2, InOrderType
<1>5. DOMAIN added = 1 .. Len(order) /\ Len(order) \in Nat
  BY <1>4
<1>6. /\ \A i \in 1 .. Len(old) : kept[i] = KeptEntry(o, i)
      /\ \A n \in 1 .. Len(order) : added[n] = AddedEntry(o, n)
  BY <1>3, <1>5 DEF KeptEntry, AddedEntry
<1> HIDE DEF s, old, order, kept, added, new
<1>7. kept \in Seq({kept[i] : i \in DOMAIN kept}) /\ Len(kept) = Len(old)
  <2>1. kept = [i \in 1 .. Len(old) |-> kept[i]]
    BY <1>3 DEF kept
  <2> QED
    BY <1>3, <2>1
<1>8. added \in Seq({added[n] : n \in DOMAIN added}) /\ Len(added) = Len(order)
  <2>1. added = [n \in 1 .. Len(order) |-> added[n]]
    BY <1>5 DEF added
  <2> QED
    BY <1>5, <2>1
<1>9. /\ DOMAIN new = 1 .. Len(old) + Len(order)
      /\ \A i \in 1 .. Len(old) : new[i] = kept[i]
      /\ \A i \in 1 .. Len(old) + Len(order) : i > Len(old) => new[i] = added[i - Len(old)]
  <2>1. /\ DOMAIN (kept \o added) = 1 .. Len(kept) + Len(added)
        /\ \A i \in 1 .. Len(kept) : (kept \o added)[i] = kept[i]
        /\ \A i \in 1 .. Len(kept) + Len(added) :
              i > Len(kept) => (kept \o added)[i] = added[i - Len(kept)]
    BY <1>7, <1>8, ConcatAt
  <2> QED
    BY <1>2, <1>7, <1>8, <2>1
<1>10. \A i \in 1 .. Len(old) + Len(order) :
          i > Len(old) => i - Len(old) \in 1 .. Len(order)
  BY <1>3, <1>5
<1>11. \A i \in 1 .. Len(old) : new[i] = KeptEntry(o, i)
  BY <1>6, <1>9
<1>12. \A i \in 1 .. Len(old) + Len(order) :
          i > Len(old) => new[i] = AddedEntry(o, i - Len(old))
  BY <1>6, <1>9, <1>10
<1> QED
  BY <1>1, <1>4, <1>9, <1>11, <1>12 DEF new, old, order, s

\* The added entries are Pending.  An entry is Completed or Failed only if it was
\* and was left alone.
LEMMA RestartedEntries ==
    ASSUME NEW o \in Object
    PROVE  LET old == o.status.statuses
               new == Restarted(o).statuses
               touched == RemovedEntries(o) \cup ModifiedEntries(o)
           IN /\ DOMAIN old \subseteq DOMAIN new
              /\ \A i \in DOMAIN old \ touched : new[i] = old[i]
              /\ \A i \in DOMAIN new : new[i].st \in Processed => i \in DOMAIN old \ touched
<1> DEFINE old == o.status.statuses
           new == Restarted(o).statuses
           touched == RemovedEntries(o) \cup ModifiedEntries(o)
           m == Len(InOrder(NewResources(o)))
<1>1. /\ old \in Seq(Entry) /\ m \in Nat
      /\ DOMAIN new = 1 .. Len(old) + m
      /\ \A i \in 1 .. Len(old) : new[i] = KeptEntry(o, i)
      /\ \A i \in 1 .. Len(old) + m : i > Len(old) => new[i] = AddedEntry(o, i - Len(old))
  BY RestartedParts
<1>2. DOMAIN old = 1 .. Len(old) /\ Len(old) \in Nat
  BY <1>1
<1>3. \A i \in DOMAIN old \ touched : KeptEntry(o, i) = old[i]
  BY DEF KeptEntry
<1>4. \A i \in DOMAIN old \cap touched : KeptEntry(o, i).st \notin Processed
  <2> SUFFICES ASSUME NEW i \in DOMAIN old \cap touched
               PROVE  KeptEntry(o, i).st \notin Processed
    OBVIOUS
  <2>1. [old[i] EXCEPT !.st = "Skipped"].st = "Skipped"
    BY <1>1 DEF Entry
  <2> QED
    BY <2>1 DEF KeptEntry, Processed
<1>5. \A n : AddedEntry(o, n).st \notin Processed
  BY DEF AddedEntry, Processed
<1> HIDE DEF old, new, touched, m
<1>6. DOMAIN old \subseteq DOMAIN new
  BY <1>1, <1>2
<1>7. \A i \in DOMAIN old \ touched : new[i] = old[i]
  BY <1>1, <1>2, <1>3
<1>8. ASSUME NEW i \in DOMAIN new, new[i].st \in Processed
      PROVE  i \in DOMAIN old \ touched
  <2>1. ~(i > Len(old))
    BY <1>1, <1>5, <1>8
  <2>2. i \in DOMAIN old
    BY <1>1, <1>2, <2>1
  <2> QED
    BY <1>1, <1>2, <1>4, <1>8, <2>2
<1> QED
  BY <1>6, <1>7, <1>8 DEF new, old, touched

\* The decrements of a restart are the entries it takes back.
LEMMA RestartedCounted ==
    ASSUME NEW o \in Object, Counted(o.status)
    PROVE  Counted(Restarted(o))
<1> DEFINE old == o.status.statuses
           new == Restarted(o)
           touched == RemovedEntries(o) \cup ModifiedEntries(o)
           dropped(st) == Cardinality({i \in touched : old[i].st = st})
<1>1. old \in Seq(Entry) /\ new.statuses \in Seq(Entry)
  BY RestartedType DEF Object, Status
<1>2. touched \subseteq DOMAIN old
  BY DEF RemovedEntries, ModifiedEntries
<1>3. /\ new.completed = o.status.completed - dropped("Completed")
      /\ new.failed = o.status.failed - dropped("Failed")
  <2>1. DOMAIN o.status = {"phase", "obs", "statuses", "total", "completed", "failed",
                           "skipped", "processing"}
    BY DEF Object, Status
  <2> QED
    BY <2>1 DEF Restarted
<1>4. ASSUME NEW st \in Processed
      PROVE  Count(new.statuses, st) = Count(old, st) - dropped(st)
  <2>1. Positions(new.statuses, st) = Positions(old, st) \ touched
    BY RestartedEntries DEF Positions
  <2>2. Positions(old, st) \cap touched = {i \in touched : old[i].st = st}
    BY <1>2 DEF Positions
  <2>3. Cardinality(Positions(old, st) \ touched)
          = Cardinality(Positions(old, st)) - dropped(st)
    <3>1. IsFiniteSet(Positions(old, st))
      BY <1>1, PositionsCounted
    <3>2. Cardinality(Positions(old, st) \ touched)
            = Cardinality(Positions(old, st)) - Cardinality(Positions(old, st) \cap touched)
      BY <3>1, FS_Difference
    <3> QED
      BY <2>2, <3>2
  <2> HIDE DEF old, new, touched, dropped
  <2> QED
    BY <1>1, <2>1, <2>3, PositionsCounted
<1> QED
  BY <1>3, <1>4 DEF Counted, Processed

-----------------------------------------------------------------------------
(* The invariants of the object.                                           *)

\* A step that leaves the entries and the counters alone leaves them right.
SameCounts(s, n) ==
    n.statuses = s.statuses /\ n.completed = s.completed /\ n.failed = s.failed

LEMMA SameCountsCounted ==
    ASSUME NEW s, NEW n, Counted(s), SameCounts(s, n)
    PROVE  Counted(n)
BY DEF Counted, SameCounts

LEMMA ObservedSameCounts ==
    ASSUME NEW o \in Object
    PROVE  /\ SameCounts(o.status, Observed(o))
           /\ WithStatus(o, Observed(o)).status = Observed(o)
           /\ \A phase : SameCounts(o.status, InNewPhase(o, phase).status)
           /\ SameCounts(o.status, AfterMark(o).status)
           /\ SameCounts(o.status, AfterFail(o).status)
           /\ SameCounts(o.status, AfterComplete(o).status)
           /\ AfterAddFinalizer(o).status = o.status
           /\ AfterRemoveFinalizer(o).status = o.status
           /\ AfterTrigger(o).status = o.status
BY DEF Object, Status, SameCounts, Observed, WithStatus, InNewPhase, AfterMark, AfterFail,
       AfterComplete, AfterAddFinalizer, AfterRemoveFinalizer, AfterTrigger

\* What the resources of the object are recorded as, one by one.
LEMMA ProcessedCounted ==
    ASSUME NEW o \in Object, Counted(o.status), NEW k \in DOMAIN ResourcesOf(o), IsNext(o, k)
    PROVE  Counted(AfterSuccess(o, k).status) /\ Counted(AfterFailure(o, k).status)
<1>1. Observed(o) \in Status /\ Counted(Observed(o)) /\ Observed(o).statuses = o.status.statuses
  BY ObservedType, ObservedSameCounts, SameCountsCounted DEF SameCounts
<1>2. ~IsProcessed(Observed(o).statuses, ResourcesOf(o)[k])
  BY <1>1 DEF IsNext
<1>3. ResourcesOf(o)[k] \in Resource
  BY ResourcesType
<1>4. \A st \in Processed : /\ Counted(Recorded(Observed(o), ResourcesOf(o)[k], st))
                            /\ Recorded(Observed(o), ResourcesOf(o)[k], st) \in Status
  BY <1>1, <1>2, <1>3, RecordedCounted, RecordedType
<1>5. \A s \in Status : WithStatus(o, s).status = s
  BY DEF WithStatus, Object
<1>6. Counted(AfterSuccess(o, k).status)
  BY <1>4, <1>5 DEF AfterSuccess, Processed
<1>7. Counted(AfterFailure(o, k).status)
  <2> DEFINE s == Recorded(Observed(o), ResourcesOf(o)[k], "Failed")
             n == [s EXCEPT !.phase = "Failed"]
  <2>1. s \in Status /\ Counted(s)
    BY <1>4 DEF Processed
  <2> HIDE DEF s
  <2>2. n \in Status /\ SameCounts(s, n)
    BY <2>1 DEF Status, Phases, SameCounts
  <2>3. Counted(n)
    BY <2>1, <2>2, SameCountsCounted
  <2> QED
    BY <1>5, <2>2, <2>3 DEF AfterFailure, s
<1> QED
  BY <1>6, <1>7

\* The handlers that move the phase only keep the entries and the counters.
LEMMA PhaseMovesSameCounts ==
    ASSUME obj \in Object,
           \/ PausedByUser \/ CancelledByUser \/ ValidationBegun \/ ValidationEnded
           \/ MigrationFailed \/ ProcessingMarked \/ MigrationCompleted \/ SyncStopped
           \/ SyncDone
    PROVE  SameCounts(obj.status, obj'.status)
<1>1. \A phase : SameCounts(obj.status, InNewPhase(obj, phase).status)
  BY ObservedSameCounts
<1>2. CASE PausedByUser \/ CancelledByUser \/ ValidationBegun \/ ValidationEnded \/ SyncStopped
  BY <1>1, <1>2 DEF PausedByUser, CancelledByUser, ValidationBegun, ValidationEnded, SyncStopped
<1>3. CASE MigrationFailed \/ ProcessingMarked \/ MigrationCompleted
  BY <1>3, ObservedSameCounts DEF MigrationFailed, ProcessingMarked, MigrationCompleted
<1>4. CASE SyncDone
  <2>1. obj' = WithStatus(obj, Observed(obj))
    BY <1>4 DEF SyncDone
  <2>2. obj'.status = Observed(obj)
    BY <2>1, ObservedSameCounts
  <2>3. SameCounts(obj.status, Observed(obj))
    BY ObservedSameCounts
  <2> QED
    BY <2>2, <2>3
<1> QED
  BY <1>2, <1>3, <1>4

LEMMA HandledCounted ==
    ASSUME ObjectTypeOK, Counted(obj.status), Handled
    PROVE  Counted(obj'.status)
<1>1. obj \in Object
  BY DEF ObjectTypeOK
<1>2. CASE RestartTaken
  <2>1. AfterRestart(obj).status = IF NoChanges(obj) THEN Observed(obj) ELSE Restarted(obj)
    BY <1>1 DEF AfterRestart, WithStatus, Object
  <2>2. Counted(Observed(obj)) /\ Counted(Restarted(obj))
    BY <1>1, ObservedSameCounts, SameCountsCounted, RestartedCounted
  <2> QED
    BY <1>2, <2>1, <2>2 DEF RestartTaken
<1>3. CASE StatusInitialized
  <2>1. obj'.status = [NoStatus EXCEPT !.phase = "Pending", !.obs = obj.gen,
                                       !.total = Len(ResourcesOf(obj))]
    BY <1>1, <1>3 DEF StatusInitialized, AfterInitialize, WithStatus, Object
  <2>2. obj'.status.statuses = <<>> /\ obj'.status.completed = 0 /\ obj'.status.failed = 0
    BY <2>1 DEF NoStatus
  <2>3. \A st : Count(<<>>, st) = 0
    <3>1. \A st : {i \in DOMAIN <<>> : <<>>[i].st = st} = {}
      OBVIOUS
    <3> QED
      BY <3>1, FS_EmptySet DEF Count
  <2> QED
    BY <2>2, <2>3 DEF Counted
<1>4. CASE ResourceCompleted
  BY <1>1, <1>4, ProcessedCounted DEF ResourceCompleted
<1>5. CASE ResourceFailed
  BY <1>1, <1>5, ProcessedCounted DEF ResourceFailed
<1>6. CASE FinalizerAdded \/ FinalizerRemoved \/ TriggerTaken
  <2>1. obj'.status = obj.status
    BY <1>1, <1>6, ObservedSameCounts DEF FinalizerAdded, FinalizerRemoved, TriggerTaken
  <2> QED
    BY <2>1
<1>7. CASE \/ PausedByUser \/ CancelledByUser \/ ValidationBegun \/ ValidationEnded
           \/ MigrationFailed \/ ProcessingMarked \/ MigrationCompleted \/ SyncStopped
           \/ SyncDone
  BY <1>1, <1>7, PhaseMovesSameCounts, SameCountsCounted
<1> QED
  BY <1>2, <1>3, <1>4, <1>5, <1>6, <1>7 DEF Handled

\* The user never touches the status.
LEMMA UserKeepsStatus ==
    ASSUME ObjectTypeOK, UserStep
    PROVE  obj'.status = obj.status
BY DEF ObjectTypeOK, Object, UserStep, EditSpec, Annotate, Unannotate, Delete

\* A new object has nothing recorded.
LEMMA InitNoStatus ==
    ASSUME AtomicInit
    PROVE  obj.status.statuses = <<>> /\ obj.status.completed = 0 /\ obj.status.failed = 0
<1>1. PICK s \in Specs : obj = NewObject(s)
  BY DEF AtomicInit
<1>2. obj.status = NoStatus
  <2>1. NewObject(s).status = NoStatus
    BY DEF NewObject
  <2> QED
    BY <1>1, <2>1
<1>3. NoStatus.statuses = <<>> /\ NoStatus.completed = 0 /\ NoStatus.failed = 0
  BY DEF NoStatus
<1> QED
  BY <1>2, <1>3

\* CountersMatchStatuses: Progress.completed and Progress.failed are the numbers
\* of Completed and Failed entries, for any spec, any number of resources and
\* any number of edits and restarts.
THEOREM AtomicCounters == AtomicSpec => []CountersMatchStatuses
<1>1. AtomicInit => CountersMatchStatuses
  <2> SUFFICES ASSUME AtomicInit
               PROVE  CountersMatchStatuses
    OBVIOUS
  <2>1. obj.status.statuses = <<>> /\ obj.status.completed = 0 /\ obj.status.failed = 0
    BY InitNoStatus
  <2>2. \A st : {i \in DOMAIN <<>> : <<>>[i].st = st} = {}
    OBVIOUS
  <2>3. \A st : Count(<<>>, st) = 0
    BY <2>2, FS_EmptySet DEF Count
  <2> QED
    BY <2>1, <2>3 DEF CountersMatchStatuses
<1>2. ObjectTypeOK /\ CountersMatchStatuses /\ [AtomicNext]_objectVars => CountersMatchStatuses'
  <2> SUFFICES ASSUME ObjectTypeOK, CountersMatchStatuses, [AtomicNext]_objectVars
               PROVE  CountersMatchStatuses'
    OBVIOUS
  <2>1. Counted(obj.status)
    BY DEF CountersMatchStatuses, Counted
  <2>2. Counted(obj'.status)
    <3>1. CASE UserStep
      BY <2>1, <3>1, UserKeepsStatus
    <3>2. CASE Handled
      BY <2>1, <3>2, HandledCounted
    <3>3. CASE UNCHANGED obj
      BY <2>1, <3>3
    <3> QED
      BY <3>1, <3>2, <3>3 DEF AtomicNext, HandlerStep, objectVars
  <2> QED
    BY <2>2 DEF CountersMatchStatuses, Counted
<1> QED
  BY <1>1, <1>2, AtomicTypeCorrect, PTL DEF AtomicSpec

-----------------------------------------------------------------------------
(* A Completed entry has its repository.                                   *)

\* The Completed entries of a recorded status are those from before, and that of
\* the resource when it is recorded as Completed.
LEMMA RecordedCompletes ==
    ASSUME NEW s \in Status, NEW res \in Resource, NEW st \in Processed
    PROVE  LET new == Recorded(s, res, st).statuses
           IN \A i \in DOMAIN new : new[i].st = "Completed" =>
                 \/ i \in DOMAIN s.statuses /\ new[i] = s.statuses[i]
                 \/ st = "Completed" /\ new[i].res = res
<1> DEFINE entry == [res |-> res, st |-> st]
           at == EntryAt(s.statuses, res.name)
           new == Recorded(s, res, st).statuses
<1>1. s.statuses \in Seq(Entry)
  BY DEF Status
<1>2. new = IF at = {} THEN Append(s.statuses, entry)
            ELSE [i \in DOMAIN s.statuses |-> IF i \in at THEN entry ELSE s.statuses[i]]
  <2>1. DOMAIN s = {"phase", "obs", "statuses", "total", "completed", "failed", "skipped",
                    "processing"}
    BY DEF Status
  <2> QED
    BY <2>1 DEF Recorded
<1> HIDE DEF new
<1>3. ASSUME NEW i \in DOMAIN new
      PROVE  \/ i \in DOMAIN s.statuses /\ new[i] = s.statuses[i]
             \/ new[i] = entry
  <2>1. CASE at = {}
    <3>1. new = Append(s.statuses, entry)
      BY <1>2, <2>1
    <3> QED
      BY <1>1, <3>1
  <2>2. CASE at # {}
    BY <1>2, <2>2
  <2> QED
    BY <2>1, <2>2
<1> QED
  BY <1>3 DEF new

\* CompletedHasRepository of an object, against the repositories of GitHub.
HasRepositories(s, gitHub) ==
    \A i \in DOMAIN s.statuses :
        s.statuses[i].st = "Completed" /\ s.statuses[i].res.kind = "repository"
          => gitHub[s.statuses[i].res.target] # "NotExists"

LEMMA SameEntriesKeepRepositories ==
    ASSUME NEW s, NEW n, NEW gitHub, HasRepositories(s, gitHub), n.statuses = s.statuses
    PROVE  HasRepositories(n, gitHub)
BY DEF HasRepositories

LEMMA RestartedKeepsRepositories ==
    ASSUME NEW o \in Object, NEW gitHub, HasRepositories(o.status, gitHub)
    PROVE  HasRepositories(Restarted(o), gitHub)
<1>1. \A i \in DOMAIN Restarted(o).statuses :
         Restarted(o).statuses[i].st = "Completed"
           => /\ i \in DOMAIN o.status.statuses
              /\ Restarted(o).statuses[i] = o.status.statuses[i]
  BY RestartedEntries DEF Processed
<1> QED
  BY <1>1 DEF HasRepositories

LEMMA ProcessedKeepsRepositories ==
    ASSUME NEW o \in Object, NEW gitHub, HasRepositories(o.status, gitHub),
           NEW k \in DOMAIN ResourcesOf(o)
    PROVE  /\ HasRepositories(AfterFailure(o, k).status, gitHub)
           /\ gitHub[ResourcesOf(o)[k].target] # "NotExists"
                => HasRepositories(AfterSuccess(o, k).status, gitHub)
<1>1. Observed(o) \in Status /\ Observed(o).statuses = o.status.statuses
  BY ObservedType, ObservedSameCounts DEF SameCounts
<1>2. ResourcesOf(o)[k] \in Resource
  BY ResourcesType
<1>3. \A s \in Status : WithStatus(o, s).status = s
  BY DEF WithStatus, Object
<1>4. HasRepositories(AfterFailure(o, k).status, gitHub)
  <2> DEFINE s == Recorded(Observed(o), ResourcesOf(o)[k], "Failed")
             n == [s EXCEPT !.phase = "Failed"]
  <2>1. /\ s \in Status
        /\ \A i \in DOMAIN s.statuses : s.statuses[i].st = "Completed"
             => i \in DOMAIN o.status.statuses /\ s.statuses[i] = o.status.statuses[i]
    BY <1>1, <1>2, RecordedCompletes, RecordedType DEF Processed
  <2>2. HasRepositories(s, gitHub)
    <3> HIDE DEF s
    <3> QED
      BY <2>1 DEF HasRepositories
  <2> HIDE DEF s
  <2>3. n \in Status /\ n.statuses = s.statuses
    BY <2>1 DEF Status, Phases
  <2> QED
    <3>1. HasRepositories(n, gitHub)
      BY <2>2, <2>3, SameEntriesKeepRepositories
    <3>2. AfterFailure(o, k) = WithStatus(o, n)
      BY DEF AfterFailure, s
    <3> QED
      BY <1>3, <2>3, <3>1, <3>2
<1>5. ASSUME gitHub[ResourcesOf(o)[k].target] # "NotExists"
      PROVE  HasRepositories(AfterSuccess(o, k).status, gitHub)
  <2> DEFINE s == Recorded(Observed(o), ResourcesOf(o)[k], "Completed")
  <2>1. /\ s \in Status
        /\ \A i \in DOMAIN s.statuses : s.statuses[i].st = "Completed"
             => \/ i \in DOMAIN o.status.statuses /\ s.statuses[i] = o.status.statuses[i]
                \/ s.statuses[i].res = ResourcesOf(o)[k]
    BY <1>1, <1>2, RecordedCompletes, RecordedType DEF Processed
  <2> HIDE DEF s
  <2>2. HasRepositories(s, gitHub)
    BY <1>5, <2>1 DEF HasRepositories
  <2> QED
    BY <1>3, <2>1, <2>2 DEF AfterSuccess, s
<1> QED
  BY <1>4, <1>5

LEMMA HandledKeepsRepositories ==
    ASSUME ObjectTypeOK, NEW gitHub, HasRepositories(obj.status, gitHub), Handled,
           \A t \in Targets : repos[t] # "NotExists" => gitHub[t] # "NotExists"
    PROVE  HasRepositories(obj'.status, gitHub)
<1>1. obj \in Object
  BY DEF ObjectTypeOK
<1>2. CASE RestartTaken
  <2>1. AfterRestart(obj).status = IF NoChanges(obj) THEN Observed(obj) ELSE Restarted(obj)
    BY <1>1 DEF AfterRestart, WithStatus, Object
  <2>2. Observed(obj).statuses = obj.status.statuses
    BY <1>1, ObservedSameCounts DEF SameCounts
  <2> QED
    BY <1>1, <1>2, <2>1, <2>2, RestartedKeepsRepositories, SameEntriesKeepRepositories
    DEF RestartTaken
<1>3. CASE StatusInitialized
  <2>1. obj'.status = [NoStatus EXCEPT !.phase = "Pending", !.obs = obj.gen,
                                       !.total = Len(ResourcesOf(obj))]
    BY <1>1, <1>3 DEF StatusInitialized, AfterInitialize, WithStatus, Object
  <2>2. obj'.status.statuses = <<>>
    BY <2>1 DEF NoStatus
  <2> QED
    BY <2>2 DEF HasRepositories
<1>4. CASE ResourceCompleted
  <2>1. PICK k \in DOMAIN ResourcesOf(obj) :
           /\ repos[ResourcesOf(obj)[k].target] # "NotExists"
           /\ obj' = AfterSuccess(obj, k)
    BY <1>4 DEF ResourceCompleted
  <2>2. ResourcesOf(obj)[k].target \in Targets
    BY <1>1, ResourcesType DEF Resource
  <2> QED
    BY <1>1, <2>1, <2>2, ProcessedKeepsRepositories
<1>5. CASE ResourceFailed
  BY <1>1, <1>5, ProcessedKeepsRepositories DEF ResourceFailed
<1>6. CASE FinalizerAdded \/ FinalizerRemoved \/ TriggerTaken
  <2>1. obj'.status = obj.status
    BY <1>1, <1>6, ObservedSameCounts DEF FinalizerAdded, FinalizerRemoved, TriggerTaken
  <2> QED
    BY <2>1
<1>7. CASE \/ PausedByUser \/ CancelledByUser \/ ValidationBegun \/ ValidationEnded
           \/ MigrationFailed \/ ProcessingMarked \/ MigrationCompleted \/ SyncStopped
           \/ SyncDone
  BY <1>1, <1>7, PhaseMovesSameCounts, SameEntriesKeepRepositories DEF SameCounts
<1> QED
  BY <1>2, <1>3, <1>4, <1>5, <1>6, <1>7 DEF Handled

\* CompletedHasRepository: a repository entry is Completed only with its
\* repository on GitHub, whose repositories never disappear.
THEOREM AtomicRepositories == AtomicSpec => []CompletedHasRepository
<1>1. AtomicInit => CompletedHasRepository
  <2> SUFFICES ASSUME AtomicInit
               PROVE  CompletedHasRepository
    OBVIOUS
  <2>1. obj.status.statuses = <<>>
    BY InitNoStatus
  <2> QED
    BY <2>1 DEF CompletedHasRepository
<1>2. ObjectTypeOK /\ CompletedHasRepository /\ [AtomicNext]_objectVars => CompletedHasRepository'
  <2> SUFFICES ASSUME ObjectTypeOK, CompletedHasRepository, [AtomicNext]_objectVars
               PROVE  CompletedHasRepository'
    OBVIOUS
  <2>1. \A t \in Targets : repos[t] # "NotExists" => repos'[t] # "NotExists"
    BY DEF AtomicNext, UserStep, HandlerStep, GitHubAdvances, Advances, objectVars
  <2>2. HasRepositories(obj.status, repos')
    <3>1. \A i \in DOMAIN obj.status.statuses : obj.status.statuses[i].res.target \in Targets
      <4>1. obj.status.statuses \in Seq(Entry)
        BY DEF ObjectTypeOK, Object, Status
      <4> QED
        <5> SUFFICES ASSUME NEW i \in DOMAIN obj.status.statuses
                     PROVE  obj.status.statuses[i].res.target \in Targets
          OBVIOUS
        <5>1. obj.status.statuses[i] \in Entry
          BY <4>1
        <5>2. obj.status.statuses[i].res \in Resource
          BY <5>1 DEF Entry
        <5> QED
          BY <5>2 DEF Resource
    <3> QED
      BY <2>1, <3>1 DEF CompletedHasRepository, HasRepositories
  <2>3. HasRepositories(obj'.status, repos')
    <3>1. CASE UserStep
      BY <2>2, <3>1, UserKeepsStatus
    <3>2. CASE Handled
      BY <2>1, <2>2, <3>2, HandledKeepsRepositories
    <3>3. CASE UNCHANGED obj
      BY <2>2, <3>3
    <3> QED
      BY <3>1, <3>2, <3>3 DEF AtomicNext, HandlerStep, objectVars
  <2> QED
    BY <2>3 DEF CompletedHasRepository, HasRepositories
<1> QED
  BY <1>1, <1>2, AtomicTypeCorrect, PTL DEF AtomicSpec


-----------------------------------------------------------------------------
(* The operators on a copy that carries the processing mark.               *)

\* The mark changes neither the resources nor what is processed.
LEMMA MarkedResources ==
    ASSUME NEW o \in Object
    PROVE  /\ ResourcesOf(AfterMark(o)) = ResourcesOf(o)
           /\ AllProcessed(AfterMark(o)) = AllProcessed(o)
           /\ \A k : IsNext(AfterMark(o), k) = IsNext(o, k)
<1>1. AfterMark(o).spec = o.spec /\ AfterMark(o).status.statuses = o.status.statuses
  BY DEF AfterMark, WithStatus, Observed, Object, Status
<1>2. ResourcesOf(AfterMark(o)) = ResourcesOf(o)
  BY <1>1 DEF ResourcesOf
<1> QED
  BY <1>1, <1>2 DEF AllProcessed, IsNext

\* Marking twice is marking once.
LEMMA MarkedTwice ==
    ASSUME NEW o \in Object
    PROVE  AfterMark(AfterMark(o)) = AfterMark(o)
BY DEF AfterMark, WithStatus, Observed, Object, Status

\* Only a running migration looks like a running one when it is marked.
LEMMA MarkedRunning ==
    ASSUME NEW o \in Object
    PROVE  InPhase(AfterMark(o), "Running") = InPhase(o, "Running")
<1>1. /\ AfterMark(o).exists = o.exists /\ AfterMark(o).deleting = o.deleting
      /\ AfterMark(o).fin = o.fin /\ AfterMark(o).ann = o.ann
      /\ AfterMark(o).status.phase = o.status.phase
  BY DEF AfterMark, WithStatus, Observed, Object, Status
<1> QED
  BY <1>1 DEF InPhase, PastAnnotations, PastPause, PastTrigger, PastFinalizer, PastRestart,
              Restarts, Terminal

\* Recording a resource in a marked copy is recording it in the object.
LEMMA MarkedRecords ==
    ASSUME NEW o \in Object, NEW k
    PROVE  /\ AfterSuccess(AfterMark(o), k) = AfterSuccess(o, k)
           /\ AfterFailure(AfterMark(o), k) = AfterFailure(o, k)
<1>1. ResourcesOf(AfterMark(o)) = ResourcesOf(o)
  BY MarkedResources
<1>2. Observed(o) \in Status
  BY ObservedType
<1>3. Observed(AfterMark(o)) = [Observed(o) EXCEPT !.processing = 1]
  BY DEF AfterMark, WithStatus, Observed, Object, Status
<1>4. ASSUME NEW s \in Status, NEW res, NEW st
      PROVE  Recorded([s EXCEPT !.processing = 1], res, st) = Recorded(s, res, st)
  <2> DEFINE m == [s EXCEPT !.processing = 1]
  <2>1. m.statuses = s.statuses /\ m.completed = s.completed /\ m.failed = s.failed
    BY DEF Status
  <2> QED
    BY <2>1 DEF Recorded, Status
<1>5. \A s : WithStatus(AfterMark(o), s) = WithStatus(o, s)
  BY DEF AfterMark, WithStatus, Object
<1> QED
  BY <1>1, <1>2, <1>3, <1>4, <1>5 DEF AfterSuccess, AfterFailure

\* A set of positions has a least one, so a name that has entries has a first.
LEMMA LeastPosition ==
    ASSUME NEW S \in SUBSET Nat, S # {}
    PROVE  \E i \in S : \A j \in S : i <= j
<1>1. \E i \in S : \A j \in S : <<j, i>> \notin OpToRel(<, Nat)
  BY NatLessThanWellFounded, WFMin
<1>2. \A i, j \in S : j < i => <<j, i>> \in OpToRel(<, Nat)
  BY DEF OpToRel
<1>3. PICK i \in S : \A j \in S : ~(j < i)
  BY <1>1, <1>2
<1> QED
  BY <1>3

LEMMA FirstEntry ==
    ASSUME NEW sts \in Seq(Entry), NEW name, EntryAt(sts, name) = {}
    PROVE  \A i \in DOMAIN sts : sts[i].res.name # name
<1> DEFINE S == {i \in DOMAIN sts : sts[i].res.name = name}
<1> SUFFICES ASSUME S # {} PROVE FALSE
  OBVIOUS
<1>1. DOMAIN sts = 1 .. Len(sts) /\ Len(sts) \in Nat
  OBVIOUS
<1>2. S \in SUBSET Nat
  BY <1>1
<1>3. PICK i \in S : \A j \in S : i <= j
  BY <1>2, LeastPosition
<1>4. ASSUME NEW j \in 1 .. i - 1 PROVE sts[j].res.name # name
  BY <1>1, <1>3
<1> QED
  BY <1>3, <1>4 DEF EntryAt

\* After the last resource is recorded everything is processed.
LEMMA LastResource ==
    ASSUME NEW o \in Object, NEW k \in DOMAIN ResourcesOf(o), IsNext(o, k),
           k = Len(ResourcesOf(o)), InPhase(o, "Running")
    PROVE  InPhase(AfterSuccess(o, k), "Running") /\ AllProcessed(AfterSuccess(o, k))
<1> DEFINE rs == ResourcesOf(o)
           s == Observed(o)
           old == s.statuses
           res == rs[k]
           entry == [res |-> res, st |-> "Completed"]
           at == EntryAt(old, res.name)
           n == AfterSuccess(o, k)
           new == n.status.statuses
<1>1. /\ s \in Status /\ old = o.status.statuses /\ old \in Seq(Entry)
      /\ s.phase = o.status.phase
  BY ObservedType DEF Observed, Object, Status
<1>2. rs \in Seq(Resource) /\ res \in Resource
  BY ResourcesType
<1>3. /\ n.status = Recorded(s, res, "Completed")
      /\ n.spec = o.spec /\ n.exists = o.exists /\ n.deleting = o.deleting
      /\ n.fin = o.fin /\ n.ann = o.ann
  BY DEF AfterSuccess, WithStatus, Object
<1>4. /\ new = IF at = {} THEN Append(old, entry)
               ELSE [i \in DOMAIN old |-> IF i \in at THEN entry ELSE old[i]]
      /\ n.status.phase = "Running"
  <2>1. DOMAIN s = {"phase", "obs", "statuses", "total", "completed", "failed", "skipped",
                    "processing"}
    BY <1>1 DEF Status
  <2>2. o.status.phase = "Running"
    BY DEF InPhase
  <2> QED
    BY <1>1, <1>3, <2>1, <2>2 DEF Recorded
<1>5. InPhase(n, "Running")
  BY <1>3, <1>4 DEF InPhase, PastAnnotations, PastPause, PastTrigger, PastFinalizer, PastRestart,
                    Restarts, Terminal
<1>6. ResourcesOf(n) = rs
  BY <1>3 DEF ResourcesOf
<1> HIDE DEF n, new, s, old
<1>7. \A m \in DOMAIN rs : rs[m].name # res.name => IsProcessed(old, rs[m])
  <2> SUFFICES ASSUME NEW m \in DOMAIN rs, rs[m].name # res.name
               PROVE  IsProcessed(old, rs[m])
    OBVIOUS
  <2>1. m \in 1 .. k - 1
    BY <1>2
  <2> QED
    BY <1>1, <2>1 DEF IsNext
<1>8. DOMAIN old = 1 .. Len(old) /\ Len(old) \in Nat
  BY <1>1
<1>9. ASSUME NEW m \in DOMAIN rs
      PROVE  IsProcessed(new, rs[m])
  <2>1. CASE at = {}
    <3>1. /\ DOMAIN new = DOMAIN old \cup {Len(old) + 1}
          /\ \A i \in DOMAIN old : new[i] = old[i]
          /\ new[Len(old) + 1] = entry
      BY <1>1, <1>4, <1>8, <2>1
    <3>2. CASE rs[m].name = res.name
      <4>1. \A j \in DOMAIN old : old[j].res.name # res.name
        BY <1>1, <2>1, FirstEntry
      <4>2. \A j \in 1 .. Len(old) + 1 - 1 : new[j].res.name # res.name
        BY <1>8, <3>1, <4>1
      <4>3. Len(old) + 1 \in EntryAt(new, rs[m].name)
        BY <3>1, <3>2, <4>2 DEF EntryAt
      <4> QED
        BY <3>1, <4>3 DEF IsProcessed, Processed
    <3>3. CASE rs[m].name # res.name
      <4>1. PICK i \in EntryAt(old, rs[m].name) : old[i].st \in Processed
        BY <1>7, <3>3 DEF IsProcessed
      <4>2. i \in DOMAIN old /\ \A j \in 1 .. i - 1 : j \in DOMAIN old
        BY <1>8, <4>1 DEF EntryAt
      <4>3. i \in EntryAt(new, rs[m].name)
        BY <3>1, <4>1, <4>2 DEF EntryAt
      <4> QED
        BY <3>1, <4>1, <4>2, <4>3 DEF IsProcessed
    <3> QED
      BY <3>2, <3>3
  <2>2. CASE at # {}
    <3>1. new = [i \in DOMAIN old |-> IF i \in at THEN entry ELSE old[i]]
      BY <1>4, <2>2
    <3>2. \A i \in DOMAIN old : new[i].res.name = old[i].res.name
      BY <3>1 DEF EntryAt
    <3>3. \A i \in DOMAIN old : \A j \in 1 .. i - 1 : j \in DOMAIN old
      BY <1>8
    <3>4. \A name : \A i \in EntryAt(old, name) : i \in EntryAt(new, name)
      <4>1. DOMAIN new = DOMAIN old
        BY <3>1
      <4> HIDE DEF at, entry
      <4> QED
        BY <3>2, <3>3, <4>1 DEF EntryAt
    <3>5. CASE rs[m].name = res.name
      <4>1. PICK i \in at : i \in DOMAIN old
        BY <2>2 DEF EntryAt
      <4>2. new[i].st = "Completed"
        BY <3>1, <4>1
      <4> QED
        BY <3>4, <3>5, <4>1, <4>2 DEF IsProcessed, Processed
    <3>6. CASE rs[m].name # res.name
      <4>1. PICK i \in EntryAt(old, rs[m].name) : old[i].st \in Processed
        BY <1>7, <3>6 DEF IsProcessed
      <4>2. i \in DOMAIN old /\ i \notin at
        BY <3>6, <4>1 DEF EntryAt
      <4>3. new[i] = old[i]
        BY <3>1, <4>2
      <4> QED
        BY <3>4, <4>1, <4>3 DEF IsProcessed
    <3> QED
      BY <3>5, <3>6
  <2> QED
    BY <2>1, <2>2
<1> QED
  BY <1>5, <1>6, <1>9 DEF AllProcessed, new, n

-----------------------------------------------------------------------------
(* Types.                                                                  *)

PCs == {"idle", "got", "restart", "check", "create", "push", "migrated", "failed", "complete"}

LEMMA BlankType == Blank \in Object
<1>1. (CHOOSE s \in Specs : TRUE) \in Specs
  BY SpecsAssumption
<1> QED
  BY <1>1, NewObjectType DEF Blank

\* What each way of ending a handler's step does to the types.
LEMMA FailToWriteType ==
    ASSUME TypeOK, NEW r \in Replicas, FailToWrite(r), repos' \in [Targets -> RepositoryStates]
    PROVE  TypeOK'
<1>1. errors' \in 0 .. MaxErrors
  BY BoundsAssumption DEF FailToWrite, Refused, TypeOK
<1> QED
  BY <1>1, BlankType DEF FailToWrite, Refused, Return, TypeOK

LEMMA WriteAndReturnType ==
    ASSUME TypeOK, NEW r \in Replicas, NEW o \in Object, NEW again \in BOOLEAN,
           WriteAndReturn(r, o, again), repos' \in [Targets -> RepositoryStates]
    PROVE  TypeOK'
<1>1. CASE FailToWrite(r)
  BY <1>1, FailToWriteType
<1>2. CASE Put(r, o) /\ current' = [q \in Replicas |-> FALSE] /\ Return(r, again)
           /\ UNCHANGED <<edits, crashes, lost>>
  BY <1>2, BlankType DEF Put, Return, TypeOK
<1> QED
  BY <1>1, <1>2 DEF WriteAndReturn

LEMMA WriteAndGoOnType ==
    ASSUME TypeOK, NEW r \in Replicas, NEW o \in Object, NEW next \in PCs,
           WriteAndGoOn(r, o, next), UNCHANGED repos
    PROVE  TypeOK'
BY BoundsAssumption DEF WriteAndGoOn, Put, TypeOK, PCs

LEMMA GoToType ==
    ASSUME TypeOK, NEW r \in Replicas, NEW next \in PCs,
           GoTo(r, next), repos' \in [Targets -> RepositoryStates]
    PROVE  TypeOK'
BY DEF GoTo, NoWrite, TypeOK, PCs

LEMMA ReturnOnlyType ==
    ASSUME TypeOK, NEW r \in Replicas, NEW again \in BOOLEAN, ReturnOnly(r, again),
           lost' \in BOOLEAN
    PROVE  TypeOK'
BY BlankType DEF ReturnOnly, Return, NoWrite, TypeOK

LEMMA TypeObject == TypeOK => ObjectTypeOK /\ \A r \in Replicas : mem[r] \in Object
BY DEF TypeOK, ObjectTypeOK

LEMMA SpecSyncType ==
    ASSUME NEW o \in Object
    PROVE  o.spec.sync \in BOOLEAN /\ (~NoChanges(o)) \in BOOLEAN
BY ResourcesType DEF NoChanges

\* The handlers that read, decide and write at once.
LEMMA OneWriteType ==
    ASSUME TypeOK, NEW r \in Replicas,
           \/ RestartForSpecChange(r) \/ AddFinalizer(r) \/ RemoveFinalizer(r)
           \/ Pause(r) \/ StayPaused(r) \/ Cancel(r) \/ InitializeStatus(r)
           \/ ProcessPending(r) \/ ProcessValidating(r) \/ FailMigration(r)
           \/ CompleteMigration(r) \/ StopSyncing(r) \/ SyncNotDue(r) \/ StayTerminal(r)
    PROVE  TypeOK'
<1>1. mem[r] \in Object /\ repos \in [Targets -> RepositoryStates]
  BY DEF TypeOK
<1>2. \A phase \in {"Paused", "Cancelled", "Validating", "Running", "Failed", "Completed"} :
         InNewPhase(mem[r], phase) \in Object /\ (phase = "Running") \in BOOLEAN
  BY <1>1, ObservedType DEF Phases
<1>3. TRUE \in BOOLEAN /\ FALSE \in BOOLEAN
  OBVIOUS
<1>4. CASE StayPaused(r) \/ SyncNotDue(r) \/ StayTerminal(r)
  <2>1. lost' \in BOOLEAN
    BY <1>4 DEF StayPaused, SyncNotDue, StayTerminal, TypeOK
  <2> QED
    BY <1>3, <1>4, <2>1, ReturnOnlyType DEF StayPaused, SyncNotDue, StayTerminal
<1>5. CASE RestartForSpecChange(r)
  BY <1>1, <1>5, HandlersType, SpecSyncType, WriteAndReturnType DEF RestartForSpecChange
<1>6. CASE AddFinalizer(r)
  BY <1>1, <1>3, <1>6, HandlersType, WriteAndReturnType DEF AddFinalizer
<1>7. CASE RemoveFinalizer(r)
  <2>1. CASE obj.exists
    BY <1>1, <1>3, <1>7, <2>1, HandlersType, WriteAndReturnType DEF RemoveFinalizer
  <2>2. CASE ~obj.exists
    <3>1. lost' \in BOOLEAN
      BY <1>7, <2>2 DEF RemoveFinalizer, TypeOK
    <3> QED
      BY <1>3, <1>7, <2>2, <3>1, ReturnOnlyType DEF RemoveFinalizer
  <2> QED
    BY <2>1, <2>2
<1>8. CASE Pause(r)
  BY <1>1, <1>2, <1>3, <1>8, WriteAndReturnType DEF Pause
<1>9. CASE Cancel(r)
  BY <1>1, <1>2, <1>3, <1>9, WriteAndReturnType DEF Cancel
<1>10. CASE InitializeStatus(r)
  BY <1>1, <1>3, <1>10, HandlersType, WriteAndReturnType DEF InitializeStatus
<1>11. CASE ProcessPending(r)
  BY <1>1, <1>2, <1>3, <1>11, WriteAndReturnType DEF ProcessPending
<1>12. CASE ProcessValidating(r)
  BY <1>1, <1>2, <1>12, WriteAndReturnType DEF ProcessValidating
<1>13. CASE FailMigration(r)
  BY <1>1, <1>3, <1>13, HandlersType, WriteAndReturnType DEF FailMigration
<1>14. CASE CompleteMigration(r)
  BY <1>1, <1>14, HandlersType, SpecSyncType, WriteAndReturnType DEF CompleteMigration
<1>15. CASE StopSyncing(r)
  BY <1>1, <1>2, <1>3, <1>15, WriteAndReturnType DEF StopSyncing
<1> QED
  BY <1>4, <1>5, <1>6, <1>7, <1>8, <1>9, <1>10, <1>11, <1>12, <1>13, <1>14, <1>15

LEMMA WorkingType ==
    ASSUME TypeOK, NEW r \in Replicas,
           \/ Trigger(r) \/ MarkProcessing(r) \/ CheckRepository(r) \/ CreateRepository(r)
           \/ MigrateCode(r) \/ SaveResource(r) \/ SaveFailure(r) \/ Sync(r)
    PROVE  TypeOK'
<1>1. mem[r] \in Object /\ repos \in [Targets -> RepositoryStates]
  BY DEF TypeOK
<1>2. /\ "restart" \in PCs /\ "create" \in PCs /\ "push" \in PCs /\ "failed" \in PCs
      /\ "migrated" \in PCs /\ "complete" \in PCs
      /\ TRUE \in BOOLEAN /\ FALSE \in BOOLEAN
      /\ "Empty" \in RepositoryStates /\ "NonEmpty" \in RepositoryStates
  BY DEF PCs, RepositoryStates
<1>3. CASE Trigger(r)
  <2>1. AfterTrigger(mem[r]) \in Object
    BY <1>1, HandlersType
  <2> QED
    BY <1>1, <1>2, <1>3, <2>1, WriteAndReturnType, WriteAndGoOnType, FailToWriteType DEF Trigger
<1>4. CASE MarkProcessing(r)
  <2>1. AfterMark(mem[r]) \in Object
    BY <1>1, HandlersType
  <2>2. errors' \in 0 .. MaxErrors
    BY <1>4, BoundsAssumption DEF MarkProcessing, Put, Refused, TypeOK
  <2>3. /\ obj' \in Object /\ cache' \in [Replicas -> Object]
        /\ synced' \in [Replicas -> BOOLEAN] /\ current' \in [Replicas -> BOOLEAN]
    BY <1>4, <2>1 DEF MarkProcessing, Put, Refused, TypeOK
  <2>4. pc' \in [Replicas -> PCs]
    BY <1>4 DEF MarkProcessing, TypeOK, PCs
  <2>5. mem' \in [Replicas -> Object]
    BY <1>4, <2>1 DEF MarkProcessing, TypeOK
  <2> QED
    BY <1>4, <2>2, <2>3, <2>4, <2>5 DEF MarkProcessing, TypeOK, PCs
<1>5. CASE CheckRepository(r)
  BY <1>1, <1>2, <1>5, GoToType DEF CheckRepository
<1>6. CASE CreateRepository(r)
  <2>1. repos' \in [Targets -> RepositoryStates]
    BY <1>1, <1>2, <1>6 DEF CreateRepository
  <2> QED
    BY <1>2, <1>6, <2>1, GoToType DEF CreateRepository
<1>7. CASE MigrateCode(r)
  <2>1. repos' \in [Targets -> RepositoryStates]
    BY <1>1, <1>2, <1>7 DEF MigrateCode
  <2> QED
    BY <1>2, <1>7, <2>1, GoToType DEF MigrateCode
<1>8. CASE SaveResource(r)
  <2>1. \A k \in DOMAIN ResourcesOf(mem[r]) : AfterSuccess(mem[r], k) \in Object
    BY <1>1, HandlersType
  <2> QED
    BY <1>1, <1>2, <1>8, <2>1, WriteAndReturnType, WriteAndGoOnType, FailToWriteType
    DEF SaveResource
<1>9. CASE SaveFailure(r)
  <2>1. \A k \in DOMAIN ResourcesOf(mem[r]) : AfterFailure(mem[r], k) \in Object
    BY <1>1, HandlersType
  <2>2. errors' \in 0 .. MaxErrors
    BY <1>9, BoundsAssumption DEF SaveFailure, Put, Refused, TypeOK
  <2>3. /\ obj' \in Object /\ cache' \in [Replicas -> Object]
        /\ synced' \in [Replicas -> BOOLEAN] /\ current' \in [Replicas -> BOOLEAN]
    BY <1>9, <2>1 DEF SaveFailure, Put, Refused, TypeOK
  <2>4. lost' \in BOOLEAN
    BY <1>9 DEF SaveFailure, TypeOK
  <2>5. Return(r, FALSE) /\ UNCHANGED <<repos, edits, crashes>>
    BY <1>9 DEF SaveFailure
  <2> QED
    BY <2>2, <2>3, <2>4, <2>5, BlankType DEF Return, TypeOK
<1>10. CASE Sync(r)
  <2>1. repos' \in [Targets -> RepositoryStates]
    BY <1>1, <1>2, <1>10 DEF Sync
  <2>2. WithStatus(mem[r], Observed(mem[r])) \in Object
    BY <1>1, HandlersType
  <2> QED
    BY <1>2, <1>10, <2>1, <2>2, WriteAndReturnType DEF Sync
<1> QED
  BY <1>3, <1>4, <1>5, <1>6, <1>7, <1>8, <1>9, <1>10

\* TypeOK: the object, every cached and working copy of it, the queues and the
\* repositories keep their types in every interleaving of any number of
\* replicas, with crashes and refused writes.
THEOREM TypeCorrect == Spec => []TypeOK
<1>1. Init => TypeOK
  <2> SUFFICES ASSUME Init
               PROVE  TypeOK
    OBVIOUS
  <2>1. lost \in BOOLEAN
    BY DEF Init
  <2>2. obj \in Object /\ repos \in [Targets -> RepositoryStates]
    BY NewObjectType DEF Init, AtomicInit, RepositoryStates
  <2> QED
    BY <2>1, <2>2, BlankType, BoundsAssumption DEF Init, TypeOK
<1>2. TypeOK /\ [Next]_vars => TypeOK'
  <2> SUFFICES ASSUME TypeOK, [Next]_vars
               PROVE  TypeOK'
    OBVIOUS
  <2>1. CASE User
    <3>1. UserStep
      BY <2>1 DEF User, UserStep
    <3>2. obj' \in Object
      BY <3>1, TypeObject, UserStepType DEF ObjectTypeOK
    <3> QED
      BY <2>1, <3>2, BoundsAssumption DEF User, TypeOK
  <2>2. ASSUME NEW r \in Replicas, CacheSync(r) PROVE TypeOK'
    BY <2>2 DEF CacheSync, TypeOK, EventPasses
  <2>3. ASSUME NEW r \in Replicas, Crash(r) PROVE TypeOK'
    BY <2>3, BlankType, BoundsAssumption DEF Crash, TypeOK, Object
  <2>4. ASSUME NEW r \in Replicas, Begin(r) PROVE TypeOK'
    BY <2>4 DEF Begin, NoWrite, TypeOK
  <2>5. ASSUME NEW r \in Replicas, Handle(r) PROVE TypeOK'
    BY <2>5, OneWriteType, WorkingType DEF Handle
  <2>6. CASE UNCHANGED vars
    BY <2>6 DEF vars, TypeOK
  <2> QED
    BY <2>1, <2>2, <2>3, <2>4, <2>5, <2>6 DEF Next
<1> QED
  BY <1>1, <1>2, PTL DEF Spec

-----------------------------------------------------------------------------
(* Copies.                                                                 *)

\* Repositories do not disappear in a step.
ReposGrow == \A t \in Targets : repos[t] # "NotExists" => repos'[t] # "NotExists"

\* A replica that a step of another one leaves alone: what it knows of its copy
\* stays true when the object did not change or the copy is outdated now.
LEMMA FrameFaithful ==
    ASSUME TypeOK, NEW q \in Replicas, CopyFaithful(q), ReposGrow,
           pc'[q] = pc[q], mem'[q] = mem[q],
           current'[q] => current[q] /\ UNCHANGED obj
    PROVE  CopyFaithful(q)'
<1>1. mem[q] \in Object
  BY DEF TypeOK
<1>2. \A k \in DOMAIN ResourcesOf(mem[q]) : ResourcesOf(mem[q])[k].target \in Targets
  BY <1>1, ResourcesType DEF Resource
<1> QED
  BY <1>2 DEF CopyFaithful, ReposGrow, Working

LEMMA IdleFaithful ==
    ASSUME NEW q \in Replicas, pc'[q] = "idle"
    PROVE  CopyFaithful(q)'
BY DEF CopyFaithful, Working

\* A reconcile that returns, with or without a write, leaves every copy faithful.
LEMMA ReturnFaithful ==
    ASSUME TypeOK, CopiesFaithful, NEW r \in Replicas, ReposGrow, NEW again,
           Return(r, again), UNCHANGED cache,
           \/ /\ synced' = [q \in Replicas |-> FALSE] /\ current' = [q \in Replicas |-> FALSE]
           \/ UNCHANGED <<obj, synced>> /\ current' = [current EXCEPT ![r] = FALSE]
    PROVE  CopiesFaithful'
<1> SUFFICES ASSUME NEW q \in Replicas
             PROVE  (synced[q] => cache[q] = obj)' /\ CopyFaithful(q)'
  BY DEF CopiesFaithful
<1>1. (synced[q] => cache[q] = obj)'
  BY DEF CopiesFaithful, TypeOK
<1>2. CASE q = r
  BY <1>1, <1>2, IdleFaithful DEF Return, TypeOK
<1>3. CASE q # r
  <2>1. pc'[q] = pc[q] /\ mem'[q] = mem[q]
    BY <1>3 DEF Return, TypeOK
  <2>2. current'[q] => current[q] /\ UNCHANGED obj
    BY <1>3 DEF TypeOK
  <2> QED
    BY <1>1, <2>1, <2>2, FrameFaithful DEF CopiesFaithful
<1> QED
  BY <1>2, <1>3

LEMMA WriteFaithful ==
    ASSUME TypeOK, CopiesFaithful, NEW r \in Replicas, ReposGrow, NEW o, NEW again,
           WriteAndReturn(r, o, again) \/ FailToWrite(r) \/ ReturnOnly(r, again)
    PROVE  CopiesFaithful'
BY ReturnFaithful DEF WriteAndReturn, FailToWrite, ReturnOnly, Put, Refused, NoWrite

\* The reconcile goes on: its own copy needs an argument, the others do not.
LEMMA GoOnFaithful ==
    ASSUME TypeOK, CopiesFaithful, NEW r \in Replicas, ReposGrow, UNCHANGED cache,
           CopyFaithful(r)',
           \A q \in Replicas \ {r} : pc'[q] = pc[q] /\ mem'[q] = mem[q],
           \/ /\ synced' = [q \in Replicas |-> FALSE]
              /\ current' = [q \in Replicas |-> q = r]
           \/ UNCHANGED <<obj, synced, current>>
    PROVE  CopiesFaithful'
<1> SUFFICES ASSUME NEW q \in Replicas
             PROVE  (synced[q] => cache[q] = obj)' /\ CopyFaithful(q)'
  BY DEF CopiesFaithful
<1>1. (synced[q] => cache[q] = obj)'
  BY DEF CopiesFaithful
<1>2. CASE q # r
  <2>1. current'[q] => current[q] /\ UNCHANGED obj
    BY <1>2
  <2> QED
    BY <1>1, <1>2, <2>1, FrameFaithful DEF CopiesFaithful
<1> QED
  BY <1>1, <1>2

\* The handlers that write at most once and return.
LEMMA OneWriteFaithful ==
    ASSUME TypeOK, CopiesFaithful, NEW r \in Replicas,
           \/ RestartForSpecChange(r) \/ AddFinalizer(r) \/ RemoveFinalizer(r)
           \/ Pause(r) \/ StayPaused(r) \/ Cancel(r) \/ InitializeStatus(r)
           \/ ProcessPending(r) \/ ProcessValidating(r) \/ FailMigration(r)
           \/ CompleteMigration(r) \/ StopSyncing(r) \/ Sync(r) \/ SyncNotDue(r)
           \/ StayTerminal(r)
    PROVE  CopiesFaithful'
<1>1. ReposGrow
  <2>1. CASE Sync(r)
    BY <2>1 DEF Sync, ReposGrow
  <2>2. CASE ~Sync(r)
    <3>1. UNCHANGED repos
      BY <2>2 DEF RestartForSpecChange, AddFinalizer, RemoveFinalizer, Pause, StayPaused, Cancel,
            InitializeStatus, ProcessPending, ProcessValidating, FailMigration,
            CompleteMigration, StopSyncing, SyncNotDue, StayTerminal, ReturnOnly
    <3> QED
      BY <3>1 DEF ReposGrow
  <2> QED
    BY <2>1, <2>2
<1>2. \E o, again : WriteAndReturn(r, o, again) \/ ReturnOnly(r, again)
  BY DEF RestartForSpecChange, AddFinalizer, RemoveFinalizer, Pause, StayPaused, Cancel,
         InitializeStatus, ProcessPending, ProcessValidating, FailMigration, CompleteMigration,
         StopSyncing, Sync, SyncNotDue, StayTerminal
<1> QED
  BY <1>1, <1>2, WriteFaithful

\* The reconcile turns to one resource at a time.
LEMMA NextUnique ==
    ASSUME NEW o \in Object, NEW k, NEW m, IsNext(o, k), IsNext(o, m)
    PROVE  k = m /\ ~AllProcessed(o)
<1>1. k \in Nat \ {0} /\ m \in Nat \ {0}
  BY ResourcesType DEF IsNext
<1>2. ~(k < m) /\ ~(m < k)
  <2>1. ASSUME k < m PROVE FALSE
    <3>1. k \in 1 .. m - 1
      BY <1>1, <2>1
    <3> QED
      BY <3>1 DEF IsNext
  <2>2. ASSUME m < k PROVE FALSE
    <3>1. m \in 1 .. k - 1
      BY <1>1, <2>2
    <3> QED
      BY <3>1 DEF IsNext
  <2> QED
    BY <2>1, <2>2
<1> QED
  BY <1>1, <1>2 DEF IsNext, AllProcessed

LEMMA TriggerFaithful ==
    ASSUME TypeOK, CopiesFaithful, NEW r \in Replicas, Trigger(r)
    PROVE  CopiesFaithful'
<1> DEFINE o == AfterTrigger(mem[r])
<1>1. mem[r] \in Object /\ ReposGrow
  BY DEF TypeOK, Trigger, ReposGrow
<1>2. CASE \E again : WriteAndReturn(r, o, again) \/ FailToWrite(r)
  BY <1>1, <1>2, WriteFaithful
<1>3. CASE mem[r].status.phase \in Terminal /\ WriteAndGoOn(r, o, "restart")
  <2>1. PastTrigger(o) /\ o.status.phase \in Terminal /\ o.exists
    <3>1. /\ o.exists = mem[r].exists /\ o.deleting = mem[r].deleting /\ o.fin = mem[r].fin
          /\ o.status = mem[r].status /\ o.gen = mem[r].gen
          /\ "reconcile-trigger" \notin o.ann
      BY <1>1 DEF AfterTrigger, Object
    <3> HIDE DEF o
    <3> QED
      BY <1>3, <3>1
      DEF Trigger, PastTrigger, PastFinalizer, PastRestart, Restarts, SpecChanged
  <2>2. obj' = o /\ mem'[r] = o /\ pc'[r] = "restart"
    BY <1>3 DEF WriteAndGoOn, Put, TypeOK
  <2>3. CopyFaithful(r)'
    <3> HIDE DEF o
    <3> QED
      BY <2>1, <2>2 DEF CopyFaithful, Working
  <2> QED
    BY <1>1, <1>3, <2>3, GoOnFaithful DEF WriteAndGoOn, Put, TypeOK
<1> QED
  BY <1>2, <1>3 DEF Trigger

LEMMA MarkProcessingFaithful ==
    ASSUME TypeOK, CopiesFaithful, NEW r \in Replicas, MarkProcessing(r)
    PROVE  CopiesFaithful'
<1> DEFINE o == AfterMark(mem[r])
<1>1. mem[r] \in Object /\ ReposGrow
  BY DEF TypeOK, MarkProcessing, ReposGrow
<1>2. PICK k \in DOMAIN ResourcesOf(mem[r]) :
         /\ IsNext(mem[r], k)
         /\ pc'[r] = IF ResourcesOf(mem[r])[k].kind = "repository" THEN "check" ELSE "failed"
  BY DEF MarkProcessing, TypeOK
<1>3. mem'[r] = o
  BY DEF MarkProcessing, TypeOK
<1>4. /\ InPhase(o, "Running") /\ ~AllProcessed(o)
      /\ ResourcesOf(o) = ResourcesOf(mem[r])
      /\ \A m : IsNext(o, m) => m = k
  BY <1>1, <1>2, MarkedResources, MarkedRunning, NextUnique DEF MarkProcessing
<1>5. current'[r] => o = AfterMark(obj')
  <2>1. CASE Put(r, o)
    BY <1>1, <2>1, MarkedTwice DEF Put
  <2>2. CASE Refused(r) /\ UNCHANGED current
    <3>1. current[r] => mem[r] = obj
      BY DEF MarkProcessing, CopiesFaithful, CopyFaithful
    <3> QED
      BY <2>2, <3>1 DEF Refused
  <2> QED
    BY <2>1, <2>2 DEF MarkProcessing
<1>6. CopyFaithful(r)'
  <2> HIDE DEF o
  <2> QED
    BY <1>2, <1>3, <1>4, <1>5 DEF CopyFaithful, Working
<1> QED
  BY <1>1, <1>6, GoOnFaithful DEF MarkProcessing, Put, Refused, TypeOK

\* The handlers that only look at GitHub, or change it.
LEMMA GitHubFaithful ==
    ASSUME TypeOK, CopiesFaithful, NEW r \in Replicas,
           CheckRepository(r) \/ CreateRepository(r) \/ MigrateCode(r)
    PROVE  CopiesFaithful' /\ ReposGrow
<1>1. mem[r] \in Object /\ repos \in [Targets -> RepositoryStates]
  BY DEF TypeOK
<1>2. PICK k \in DOMAIN ResourcesOf(mem[r]) : IsNext(mem[r], k)
  BY DEF CheckRepository, CreateRepository, MigrateCode
<1>3. /\ \A m : IsNext(mem[r], m) => m = k
      /\ ResourcesOf(mem[r])[k].target \in Targets
  BY <1>1, <1>2, NextUnique, ResourcesType DEF Resource
<1> DEFINE target == ResourcesOf(mem[r])[k].target
<1>4. PICK next \in {"create", "push", "migrated", "failed"} :
         /\ GoTo(r, next)
         /\ next \in {"push", "migrated"} => repos'[target] # "NotExists"
         /\ ReposGrow
  <2>1. CASE CheckRepository(r)
    BY <1>2, <1>3, <2>1 DEF CheckRepository, ReposGrow
  <2>2. CASE CreateRepository(r)
    BY <1>1, <1>2, <1>3, <2>2 DEF CreateRepository, ReposGrow
  <2>3. CASE MigrateCode(r)
    <3>1. repos[target] # "NotExists"
      BY <1>2, <2>3 DEF MigrateCode, CopiesFaithful, CopyFaithful, Working
    <3> QED
      BY <1>1, <1>2, <1>3, <2>3, <3>1 DEF MigrateCode, ReposGrow
  <2> QED
    BY <2>1, <2>2, <2>3
<1>5. pc'[r] = next /\ mem'[r] = mem[r] /\ UNCHANGED <<obj, current>>
  BY <1>4 DEF GoTo, NoWrite, TypeOK
<1>6. pc[r] \in Working \ {"failed"} /\ CopyFaithful(r)
  BY DEF CheckRepository, CreateRepository, MigrateCode, Working, CopiesFaithful
<1>7. CopyFaithful(r)'
  BY <1>3, <1>4, <1>5, <1>6 DEF CopyFaithful, Working
<1> QED
  BY <1>4, <1>7, GoOnFaithful DEF GoTo, NoWrite, TypeOK

LEMMA SaveFaithful ==
    ASSUME TypeOK, CopiesFaithful, NEW r \in Replicas, SaveResource(r) \/ SaveFailure(r)
    PROVE  CopiesFaithful'
<1>1. mem[r] \in Object /\ ReposGrow /\ CopyFaithful(r)
  BY DEF TypeOK, SaveResource, SaveFailure, ReposGrow, CopiesFaithful
<1>2. CASE SaveFailure(r)
  BY <1>1, <1>2, ReturnFaithful DEF SaveFailure, Put, Refused
<1>3. CASE SaveResource(r)
  <2>1. PICK k \in DOMAIN ResourcesOf(mem[r]) :
           /\ IsNext(mem[r], k)
           /\ IF k < Len(ResourcesOf(mem[r]))
              THEN WriteAndReturn(r, AfterSuccess(mem[r], k), TRUE)
              ELSE \/ WriteAndGoOn(r, AfterSuccess(mem[r], k), "complete")
                   \/ FailToWrite(r)
    BY <1>3 DEF SaveResource
  <2> DEFINE o == AfterSuccess(mem[r], k)
  <2>2. CASE WriteAndReturn(r, o, TRUE) \/ FailToWrite(r)
    BY <1>1, <2>2, WriteFaithful
  <2>3. CASE ~(k < Len(ResourcesOf(mem[r]))) /\ WriteAndGoOn(r, o, "complete")
    <3>1. k = Len(ResourcesOf(mem[r]))
      BY <1>1, <2>3, ResourcesType
    <3>2. InPhase(mem[r], "Running")
      BY <1>1, <1>3 DEF SaveResource, CopyFaithful, Working
    <3>3. InPhase(o, "Running") /\ AllProcessed(o)
      BY <1>1, <2>1, <3>1, <3>2, LastResource
    <3>4. o.exists
      BY <3>3 DEF InPhase, PastAnnotations, PastPause, PastTrigger, PastFinalizer, PastRestart
    <3>5. obj' = o /\ mem'[r] = o /\ pc'[r] = "complete"
      BY <2>3 DEF WriteAndGoOn, Put, TypeOK
    <3>6. CopyFaithful(r)'
      <4> HIDE DEF o
      <4>1. ~(\E k2 \in DOMAIN ResourcesOf(o) : IsNext(o, k2))
        BY <3>3 DEF AllProcessed, IsNext
      <4> QED
        BY <3>3, <3>4, <3>5, <4>1 DEF CopyFaithful, Working
    <3> QED
      BY <1>1, <2>3, <3>6, GoOnFaithful DEF WriteAndGoOn, Put, TypeOK
  <2> QED
    BY <2>1, <2>2, <2>3
<1> QED
  BY <1>2, <1>3

\* A reconcile begins with what the cache holds, the object if it is synced.
LEMMA BeginFaithful ==
    ASSUME TypeOK, CopiesFaithful, NEW r \in Replicas, Begin(r)
    PROVE  CopiesFaithful'
<1> SUFFICES ASSUME NEW q \in Replicas
             PROVE  (synced[q] => cache[q] = obj)' /\ CopyFaithful(q)'
  BY DEF CopiesFaithful
<1>1. UNCHANGED <<obj, cache, synced, repos>>
  BY DEF Begin, NoWrite
<1>2. (synced[q] => cache[q] = obj)'
  BY <1>1 DEF CopiesFaithful
<1>3. ReposGrow
  BY <1>1 DEF ReposGrow
<1>4. CASE q = r /\ cache[r].exists
  <2>1. pc'[r] = "got" /\ mem'[r] = cache[r] /\ current'[r] = synced[r]
    BY <1>4 DEF Begin, TypeOK
  <2> QED
    BY <1>1, <1>2, <1>4, <2>1 DEF CopyFaithful, Working
<1>5. CASE q # r \/ ~cache[r].exists
  <2>1. pc'[q] = pc[q] /\ mem'[q] = mem[q] /\ current'[q] = current[q]
    BY <1>5 DEF Begin, TypeOK
  <2> QED
    BY <1>1, <1>2, <1>3, <2>1, FrameFaithful DEF CopiesFaithful
<1> QED
  BY <1>4, <1>5

\* CopiesFaithful: a copy that the API server would accept a write from is the
\* object, up to the processing mark, and what the reconcile found out holds.
THEOREM Faithful == Spec => []CopiesFaithful
<1>1. Init => CopiesFaithful
  BY DEF Init, CopiesFaithful, CopyFaithful, Working
<1>2. TypeOK /\ CopiesFaithful /\ [Next]_vars => CopiesFaithful'
  <2> SUFFICES ASSUME TypeOK, CopiesFaithful, [Next]_vars
               PROVE  CopiesFaithful'
    OBVIOUS
  <2>1. CASE User
    <3>1. ReposGrow
      BY <2>1 DEF User, ReposGrow
    <3>2. ASSUME NEW q \in Replicas PROVE (synced[q] => cache[q] = obj)' /\ CopyFaithful(q)'
      BY <2>1, <3>1, FrameFaithful DEF User, CopiesFaithful
    <3> QED
      BY <3>2 DEF CopiesFaithful
  <2>2. ASSUME NEW r \in Replicas, CacheSync(r) PROVE CopiesFaithful'
    BY <2>2 DEF CacheSync, CopiesFaithful, CopyFaithful, TypeOK
  <2>3. ASSUME NEW r \in Replicas, Crash(r) PROVE CopiesFaithful'
    <3>1. ReposGrow
      BY <2>3 DEF Crash, ReposGrow
    <3>2. ASSUME NEW q \in Replicas PROVE (synced[q] => cache[q] = obj)' /\ CopyFaithful(q)'
      <4>1. CASE q = r
        BY <2>3, <4>1, IdleFaithful DEF Crash, TypeOK
      <4>2. CASE q # r
        BY <2>3, <3>1, <4>2, FrameFaithful DEF Crash, TypeOK, CopiesFaithful
      <4> QED
        BY <4>1, <4>2
    <3> QED
      BY <3>2 DEF CopiesFaithful
  <2>4. ASSUME NEW r \in Replicas, Begin(r) PROVE CopiesFaithful'
    BY <2>4, BeginFaithful
  <2>5. ASSUME NEW r \in Replicas, Handle(r) PROVE CopiesFaithful'
    BY <2>5, OneWriteFaithful, TriggerFaithful, MarkProcessingFaithful, GitHubFaithful,
       SaveFaithful DEF Handle
  <2>6. CASE UNCHANGED vars
    BY <2>6 DEF vars, CopiesFaithful, CopyFaithful
  <2> QED
    BY <2>1, <2>2, <2>3, <2>4, <2>5, <2>6 DEF Next
<1> QED
  BY <1>1, <1>2, TypeCorrect, PTL DEF Spec

-----------------------------------------------------------------------------
(* AdoMigration implements AtomicMigration.                                *)

LEMMA ReposStay == TypeOK /\ UNCHANGED repos => GitHubAdvances
BY DEF TypeOK, GitHubAdvances, Advances

\* A handler that writes o if the API server accepts it.
LEMMA WriteOutcome ==
    ASSUME NEW r \in Replicas, NEW o, NEW again,
           WriteAndReturn(r, o, again) \/ FailToWrite(r) \/ ReturnOnly(r, again)
    PROVE  UNCHANGED obj \/ (current[r] /\ obj' = o)
BY DEF WriteAndReturn, FailToWrite, ReturnOnly, Put, Refused, NoWrite

LEMMA OneWriteImplements ==
    ASSUME TypeOK, CopiesFaithful, NEW r \in Replicas,
           \/ RestartForSpecChange(r) \/ AddFinalizer(r) \/ RemoveFinalizer(r)
           \/ Pause(r) \/ StayPaused(r) \/ Cancel(r) \/ InitializeStatus(r)
           \/ ProcessPending(r) \/ ProcessValidating(r) \/ FailMigration(r)
           \/ CompleteMigration(r) \/ StopSyncing(r) \/ SyncNotDue(r) \/ StayTerminal(r)
    PROVE  HandlerStep
<1>1. UNCHANGED repos
  BY DEF RestartForSpecChange, AddFinalizer, RemoveFinalizer, Pause, StayPaused, Cancel,
         InitializeStatus, ProcessPending, ProcessValidating, FailMigration, CompleteMigration,
         StopSyncing, SyncNotDue, StayTerminal, ReturnOnly
<1>2. pc[r] \in {"got", "restart", "complete"} /\ CopyFaithful(r)
  BY DEF RestartForSpecChange, AddFinalizer, RemoveFinalizer, Pause, StayPaused, Cancel,
         InitializeStatus, ProcessPending, ProcessValidating, FailMigration, CompleteMigration,
         StopSyncing, SyncNotDue, StayTerminal, CopiesFaithful
<1>3. mem[r].exists /\ (current[r] => mem[r] = obj)
  BY <1>2 DEF CopyFaithful
<1> SUFFICES ASSUME ~UNCHANGED obj
             PROVE  Handled
  BY <1>1, ReposStay DEF HandlerStep
<1>4. ASSUME NEW o, NEW again,
             WriteAndReturn(r, o, again) \/ FailToWrite(r) \/ ReturnOnly(r, again)
      PROVE  mem[r] = obj /\ obj' = o
  BY <1>3, <1>4, WriteOutcome
<1>5. CASE RestartForSpecChange(r)
  <2>1. mem[r] = obj /\ obj' = AfterRestart(obj)
    BY <1>4, <1>5 DEF RestartForSpecChange
  <2>2. CASE pc[r] = "restart"
    BY <1>2, <1>3, <2>1, <2>2 DEF CopyFaithful, RestartTaken, Handled
  <2>3. CASE Restarts(mem[r])
    BY <1>3, <2>1, <2>3 DEF Restarts, RestartTaken, Handled
  <2> QED
    BY <1>5, <2>2, <2>3 DEF RestartForSpecChange
<1>6. CASE AddFinalizer(r) \/ RemoveFinalizer(r)
  BY <1>4, <1>6 DEF AddFinalizer, RemoveFinalizer, FinalizerAdded, FinalizerRemoved, Handled
<1>7. CASE Pause(r) \/ Cancel(r)
  BY <1>4, <1>7 DEF Pause, Cancel, PausedByUser, CancelledByUser, Handled
<1>8. CASE InitializeStatus(r) \/ ProcessPending(r)
  BY <1>4, <1>8 DEF InitializeStatus, ProcessPending, StatusInitialized, ValidationBegun, Handled
<1>9. CASE ProcessValidating(r)
  BY <1>4, <1>9 DEF ProcessValidating, ValidationEnded, Handled
<1>10. CASE FailMigration(r) \/ StopSyncing(r)
  BY <1>4, <1>10 DEF FailMigration, StopSyncing, MigrationFailed, SyncStopped, Handled
<1>11. CASE CompleteMigration(r)
  <2>1. mem[r] = obj /\ obj' = AfterComplete(obj)
    BY <1>4, <1>11 DEF CompleteMigration
  <2>2. InPhase(mem[r], "Running") /\ AllProcessed(mem[r])
    BY <1>2, <1>11 DEF CompleteMigration, CopyFaithful
  <2> QED
    BY <2>1, <2>2 DEF MigrationCompleted, Handled
<1>12. CASE StayPaused(r) \/ SyncNotDue(r) \/ StayTerminal(r)
  <2>1. UNCHANGED obj
    BY <1>12 DEF StayPaused, SyncNotDue, StayTerminal, ReturnOnly, NoWrite
  <2> QED
    BY <2>1
<1> QED
  BY <1>5, <1>6, <1>7, <1>8, <1>9, <1>10, <1>11, <1>12

LEMMA WorkingImplements ==
    ASSUME TypeOK, CopiesFaithful, NEW r \in Replicas,
           \/ Trigger(r) \/ MarkProcessing(r) \/ CheckRepository(r) \/ CreateRepository(r)
           \/ MigrateCode(r) \/ SaveResource(r) \/ SaveFailure(r) \/ Sync(r)
    PROVE  HandlerStep
<1>1. mem[r] \in Object /\ obj \in Object /\ CopyFaithful(r)
      /\ repos \in [Targets -> RepositoryStates]
  BY DEF TypeOK, CopiesFaithful
<1>2. CASE Trigger(r)
  <2>1. \/ UNCHANGED obj
        \/ current[r] /\ obj' = AfterTrigger(mem[r])
    BY <1>2, WriteOutcome DEF Trigger, WriteAndGoOn, Put
  <2>2. current[r] => mem[r] = obj
    BY <1>1, <1>2 DEF Trigger, CopyFaithful
  <2>3. Handled \/ UNCHANGED obj
    BY <1>2, <2>1, <2>2 DEF Trigger, TriggerTaken, Handled
  <2> QED
    BY <1>2, <2>3, ReposStay DEF Trigger, HandlerStep
<1>3. CASE MarkProcessing(r)
  <2>1. \/ UNCHANGED obj
        \/ current[r] /\ obj' = AfterMark(mem[r])
    BY <1>3 DEF MarkProcessing, Put, Refused
  <2>2. current[r] => mem[r] = obj
    BY <1>1, <1>3 DEF MarkProcessing, CopyFaithful
  <2>3. ~AllProcessed(mem[r])
    BY <1>1, <1>3, NextUnique DEF MarkProcessing
  <2>4. Handled \/ UNCHANGED obj
    BY <1>3, <2>1, <2>2, <2>3 DEF MarkProcessing, ProcessingMarked, Handled
  <2> QED
    BY <1>3, <2>4, ReposStay DEF MarkProcessing, HandlerStep
<1>4. CASE CheckRepository(r)
  <2>1. UNCHANGED <<obj, repos>>
    BY <1>4 DEF CheckRepository, GoTo, NoWrite
  <2> QED
    BY <2>1, ReposStay DEF HandlerStep
<1>5. CASE CreateRepository(r)
  <2>1. UNCHANGED obj
    BY <1>5 DEF CreateRepository, GoTo, NoWrite
  <2>2. GitHubAdvances
    BY <1>1, <1>5 DEF CreateRepository, GitHubAdvances, Advances, RepositoryStates
  <2> QED
    BY <2>1, <2>2 DEF HandlerStep
<1>6. CASE MigrateCode(r)
  <2>1. UNCHANGED obj
    BY <1>6 DEF MigrateCode, GoTo, NoWrite
  <2>2. PICK k \in DOMAIN ResourcesOf(mem[r]) :
           /\ IsNext(mem[r], k)
           /\ \/ repos' = [repos EXCEPT ![ResourcesOf(mem[r])[k].target] = "NonEmpty"]
              \/ UNCHANGED repos
    BY <1>6 DEF MigrateCode
  <2>3. repos[ResourcesOf(mem[r])[k].target] # "NotExists"
    BY <1>1, <1>6, <2>2 DEF MigrateCode, CopyFaithful, Working
  <2>4. GitHubAdvances
    BY <1>1, <2>2, <2>3 DEF GitHubAdvances, Advances, RepositoryStates
  <2> QED
    BY <2>1, <2>4 DEF HandlerStep
<1>7. CASE SaveResource(r) \/ SaveFailure(r)
  <2>1. PICK k \in DOMAIN ResourcesOf(mem[r]) :
           /\ IsNext(mem[r], k)
           /\ \/ UNCHANGED obj
              \/ /\ current[r]
                 /\ \/ SaveResource(r) /\ obj' = AfterSuccess(mem[r], k)
                    \/ SaveFailure(r) /\ obj' = AfterFailure(mem[r], k)
    <3>1. CASE SaveResource(r)
      <4>1. PICK k \in DOMAIN ResourcesOf(mem[r]) :
               /\ IsNext(mem[r], k)
               /\ \/ WriteAndReturn(r, AfterSuccess(mem[r], k), TRUE)
                  \/ WriteAndGoOn(r, AfterSuccess(mem[r], k), "complete")
                  \/ FailToWrite(r)
        BY <3>1 DEF SaveResource
      <4>2. UNCHANGED obj \/ (current[r] /\ obj' = AfterSuccess(mem[r], k))
        BY <4>1, WriteOutcome DEF WriteAndGoOn, Put
      <4> QED
        BY <3>1, <4>1, <4>2
    <3>2. CASE SaveFailure(r)
      BY <3>2 DEF SaveFailure, Put, Refused
    <3> QED
      BY <1>7, <3>1, <3>2
  <2>2. InPhase(mem[r], "Running") /\ (current[r] => mem[r] = AfterMark(obj))
    BY <1>1, <1>7 DEF SaveResource, SaveFailure, CopyFaithful, Working
  <2>3. UNCHANGED repos
    BY <1>7 DEF SaveResource, SaveFailure
  <2>4. ASSUME ~UNCHANGED obj
        PROVE  Handled
    <3>1. mem[r] = AfterMark(obj)
      BY <2>1, <2>2, <2>4
    <3>2. /\ InPhase(obj, "Running") /\ IsNext(obj, k)
          /\ ResourcesOf(mem[r]) = ResourcesOf(obj)
          /\ k \in DOMAIN ResourcesOf(obj)
      BY <1>1, <2>1, <2>2, <3>1, MarkedRunning, MarkedResources
    <3>3. CASE SaveResource(r) /\ obj' = AfterSuccess(mem[r], k)
      <4>1. obj' = AfterSuccess(obj, k)
        BY <1>1, <3>1, <3>3, MarkedRecords
      <4>2. /\ ResourcesOf(obj)[k].kind = "repository"
            /\ repos[ResourcesOf(obj)[k].target] # "NotExists"
        BY <1>1, <2>1, <3>2, <3>3 DEF SaveResource, CopyFaithful, Working
      <4> QED
        BY <3>2, <4>1, <4>2 DEF ResourceCompleted, Handled
    <3>4. CASE SaveFailure(r) /\ obj' = AfterFailure(mem[r], k)
      <4>1. obj' = AfterFailure(obj, k)
        BY <1>1, <3>1, <3>4, MarkedRecords
      <4> QED
        BY <3>2, <4>1 DEF ResourceFailed, Handled
    <3> QED
      BY <2>1, <2>4, <3>3, <3>4
  <2> QED
    BY <2>3, <2>4, ReposStay DEF HandlerStep
<1>8. CASE Sync(r)
  <2>1. \/ UNCHANGED obj
        \/ current[r] /\ obj' = WithStatus(mem[r], Observed(mem[r]))
    BY <1>8, WriteOutcome DEF Sync
  <2>2. current[r] => mem[r] = obj
    BY <1>1, <1>8 DEF Sync, CopyFaithful
  <2>3. Handled \/ UNCHANGED obj
    BY <1>8, <2>1, <2>2 DEF Sync, SyncDone, Handled
  <2>4. GitHubAdvances
    BY <1>1, <1>8 DEF Sync, GitHubAdvances, Advances, RepositoryStates
  <2> QED
    BY <2>3, <2>4 DEF HandlerStep
<1> QED
  BY <1>2, <1>3, <1>4, <1>5, <1>6, <1>7, <1>8

\* AtomicSpec: with any number of replicas, outdated caches, refused writes and
\* crashes, what happens to the object is what the handlers do one at a time.
THEOREM Implements == Spec => AtomicSpec
<1>1. Init => AtomicInit
  BY DEF Init
<1>2. TypeOK /\ CopiesFaithful /\ [Next]_vars => [AtomicNext]_objectVars
  <2> SUFFICES ASSUME TypeOK, CopiesFaithful, [Next]_vars
               PROVE  [AtomicNext]_objectVars
    OBVIOUS
  <2>1. CASE User
    BY <2>1 DEF User, UserStep, AtomicNext
  <2>2. ASSUME NEW r \in Replicas, CacheSync(r) \/ Crash(r) \/ Begin(r)
        PROVE  UNCHANGED objectVars
    BY <2>2 DEF CacheSync, Crash, Begin, NoWrite, objectVars
  <2>3. ASSUME NEW r \in Replicas, Handle(r) PROVE AtomicNext
    BY <2>3, OneWriteImplements, WorkingImplements DEF Handle, AtomicNext
  <2>4. CASE UNCHANGED vars
    BY <2>4 DEF vars, objectVars
  <2> QED
    BY <2>1, <2>2, <2>3, <2>4 DEF Next
<1> QED
  BY <1>1, <1>2, TypeCorrect, Faithful, PTL DEF Spec, AtomicSpec

\* CountersMatchStatuses holds of the reconcilers because it holds of the
\* handlers applied one at a time.
THEOREM Counters == Spec => []CountersMatchStatuses
BY Implements, AtomicCounters, PTL

\* CompletedHasRepository, likewise.
THEOREM Repositories == Spec => []CompletedHasRepository
BY Implements, AtomicRepositories, PTL

-----------------------------------------------------------------------------
(* What a step of the operator may not do.                                 *)

\* The handlers change the status, the finalizer and the trigger annotation, and
\* the observed generation becomes the generation if it changes.
LEMMA HandledKeepsUserPart ==
    ASSUME obj \in Object, Handled
    PROVE  /\ UserPart(obj') = UserPart(obj)
           /\ obj'.gen = obj.gen
           /\ obj'.status.obs \in {obj.status.obs, obj.gen}
<1>1. \A s : /\ UserPart(WithStatus(obj, s)) = UserPart(obj)
             /\ WithStatus(obj, s).gen = obj.gen
             /\ WithStatus(obj, s).status = s
  BY DEF WithStatus, UserPart, Object
<1>2. CASE FinalizerAdded \/ FinalizerRemoved \/ TriggerTaken
  BY <1>2 DEF FinalizerAdded, FinalizerRemoved, TriggerTaken, AfterAddFinalizer,
              AfterRemoveFinalizer, AfterTrigger, UserPart, Object
<1>3. CASE ~(FinalizerAdded \/ FinalizerRemoved \/ TriggerTaken)
  <2>1. DOMAIN obj.status = {"phase", "obs", "statuses", "total", "completed", "failed",
                             "skipped", "processing"}
    BY DEF Object, Status
  <2>2. Observed(obj).obs = obj.gen /\ DOMAIN Observed(obj) = DOMAIN obj.status
    BY <2>1 DEF Observed
  <2> DEFINE Goal == /\ UserPart(obj') = UserPart(obj)
                     /\ obj'.gen = obj.gen
                     /\ obj'.status.obs = obj.gen
  <2>3. \A s : obj' = WithStatus(obj, s) /\ s.obs = obj.gen => Goal
    BY <1>1
  <2> HIDE DEF Goal
  <2>4. Goal
    <3>1. CASE RestartTaken
      <4>1. Restarted(obj).obs = obj.gen
        BY <2>1 DEF Restarted
      <4> QED
        BY <2>2, <2>3, <3>1, <4>1 DEF RestartTaken, AfterRestart
    <3>2. CASE StatusInitialized
      <4>1. [NoStatus EXCEPT !.phase = "Pending", !.obs = obj.gen,
                             !.total = Len(ResourcesOf(obj))].obs = obj.gen
        BY DEF NoStatus
      <4> QED
        BY <2>3, <3>2, <4>1 DEF StatusInitialized, AfterInitialize
    <3>3. CASE ResourceCompleted \/ ResourceFailed
      <4>1. \A res, st : /\ Recorded(Observed(obj), res, st).obs = obj.gen
                         /\ [Recorded(Observed(obj), res, st) EXCEPT !.phase = "Failed"].obs
                              = obj.gen
        BY <2>1, <2>2 DEF Recorded
      <4> QED
        BY <2>3, <3>3, <4>1 DEF ResourceCompleted, ResourceFailed, AfterSuccess, AfterFailure
    <3>4. CASE \/ PausedByUser \/ CancelledByUser \/ ValidationBegun \/ ValidationEnded
               \/ SyncStopped \/ SyncDone
      <4>1. \A phase : [Observed(obj) EXCEPT !.phase = phase].obs = obj.gen
        BY <2>1, <2>2
      <4> QED
        BY <2>2, <2>3, <3>4, <4>1
        DEF PausedByUser, CancelledByUser, ValidationBegun, ValidationEnded, SyncStopped,
            SyncDone, InNewPhase
    <3>5. CASE MigrationFailed \/ ProcessingMarked \/ MigrationCompleted
      <4>1. /\ [Observed(obj) EXCEPT !.phase = "Failed", !.processing = 0].obs = obj.gen
            /\ [Observed(obj) EXCEPT !.processing = 1].obs = obj.gen
            /\ \A phase : [Observed(obj) EXCEPT !.phase = phase, !.processing = 0].obs = obj.gen
        BY <2>1, <2>2
      <4> QED
        BY <2>3, <3>5, <4>1
        DEF MigrationFailed, ProcessingMarked, MigrationCompleted, AfterFail, AfterMark,
            AfterComplete
    <3> QED
      BY <1>3, <3>1, <3>2, <3>3, <3>4, <3>5 DEF Handled
  <2> QED
    BY <2>4 DEF Goal
<1> QED
  BY <1>2, <1>3

\* What a step does to the object: the user's change, a handler's, or nothing.
LEMMA StepOutcome ==
    ASSUME TypeOK, CopiesFaithful, [Next]_vars
    PROVE  User \/ Handled \/ UNCHANGED obj
<1>1. ASSUME NEW r \in Replicas, CacheSync(r) \/ Crash(r) \/ Begin(r)
      PROVE  UNCHANGED obj
  BY <1>1 DEF CacheSync, Crash, Begin, NoWrite
<1>2. ASSUME NEW r \in Replicas, Handle(r) PROVE Handled \/ UNCHANGED obj
  BY <1>2, OneWriteImplements, WorkingImplements DEF Handle, HandlerStep
<1> QED
  BY <1>1, <1>2 DEF Next, vars

\* UserEditsKept: no write of the operator reverts the user's spec, annotations
\* or deletion, however old the copy it was computed from.
THEOREM EditsKept == Spec => UserEditsKept
<1>1. TypeOK /\ CopiesFaithful /\ [Next]_vars
        => [(edits' = edits) => UserPart(obj') = UserPart(obj)]_vars
  <2> SUFFICES ASSUME TypeOK, CopiesFaithful, [Next]_vars, edits' = edits
               PROVE  UserPart(obj') = UserPart(obj)
    OBVIOUS
  <2>1. obj \in Object /\ edits \in Nat
    BY BoundsAssumption DEF TypeOK
  <2>2. ~User
    BY <2>1 DEF User
  <2> QED
    BY <2>1, <2>2, StepOutcome, HandledKeepsUserPart
<1> QED
  BY <1>1, TypeCorrect, Faithful, PTL DEF Spec, UserEditsKept

\* ObservedAdvances: the observed generation only grows, towards the generation,
\* although copies carry older ones.
THEOREM ObservedGrows == Spec => ObservedAdvances
<1> DEFINE Behind == obj.status.obs <= obj.gen
           Advance == obj.status.obs <= obj'.status.obs /\ obj'.status.obs <= obj'.gen
<1>1. Init => Behind
  <2> SUFFICES ASSUME Init PROVE Behind
    OBVIOUS
  <2>1. PICK s \in Specs : obj = NewObject(s)
    BY DEF Init, AtomicInit
  <2>2. NewObject(s).gen = 1 /\ NewObject(s).status = NoStatus /\ NoStatus.obs = 0
    BY DEF NewObject, NoStatus
  <2> QED
    BY <2>1, <2>2
<1>2. TypeOK /\ CopiesFaithful /\ Behind /\ [Next]_vars => Behind' /\ Advance
  <2> SUFFICES ASSUME TypeOK, CopiesFaithful, Behind, [Next]_vars
               PROVE  Behind' /\ Advance
    OBVIOUS
  <2>1. obj \in Object /\ obj.gen \in Nat /\ obj.status.obs \in Nat
    BY DEF TypeOK, Object, Status
  <2>2. CASE User
    <3>1. UserStep
      BY <2>2 DEF User, UserStep
    <3>2. obj'.status = obj.status
      BY <3>1, TypeObject, UserKeepsStatus
    <3>3. obj'.gen \in {obj.gen, obj.gen + 1}
      BY <2>1, <3>1 DEF UserStep, EditSpec, Annotate, Unannotate, Delete, Object
    <3> QED
      BY <2>1, <3>2, <3>3
  <2>3. CASE Handled
    BY <2>1, <2>3, HandledKeepsUserPart
  <2>4. CASE UNCHANGED obj
    BY <2>1, <2>4
  <2> QED
    BY <2>2, <2>3, <2>4, StepOutcome
<1> QED
  BY <1>1, <1>2, TypeCorrect, Faithful, PTL DEF Spec, ObservedAdvances

-----------------------------------------------------------------------------
(* Finished work is kept, as long as no resource is renamed.               *)

\* A resource that some spec lists.
Listed(res) == \E s \in Specs : \E k \in DOMAIN s.resources : s.resources[k] = res

\* Whichever specs the user writes, a source id goes with one source name: no
\* resource is renamed, and no two have the same name.  An entry is looked up by
\* name while it is processed and by id when the spec changes.
NamesFollowIds ==
    \A x, y \in Resource : Listed(x) /\ Listed(y) => (x.id = y.id <=> x.name = y.name)

\* The entries are of listed resources, and no two of them have the same id.
OneEach(sts) ==
    /\ \A i \in DOMAIN sts : sts[i].res \in Resource /\ Listed(sts[i].res)
    /\ \A i, j \in DOMAIN sts : sts[i].res.id = sts[j].res.id => i = j

\* What a step may not do to the entries of a finished resource that o lists.
KeepsCompleted(o, old, new) ==
    \A i \in DOMAIN old :
        old[i].st = "Completed" /\ (\E k \in DOMAIN ResourcesOf(o) : ResourcesOf(o)[k] = old[i].res)
          => new[i] = old[i]

LEMMA ListedResources ==
    ASSUME NEW o \in Object, NEW k \in DOMAIN ResourcesOf(o)
    PROVE  ResourcesOf(o)[k] \in Resource /\ Listed(ResourcesOf(o)[k])
BY ResourcesType DEF Listed, ResourcesOf

\* A resource is recorded under its name, that is, in the entry of its id, or in
\* a new one when its id has none.
LEMMA RecordedKeeps ==
    ASSUME NamesFollowIds, NEW s \in Status, OneEach(s.statuses),
           NEW res \in Resource, Listed(res), ~IsProcessed(s.statuses, res), NEW st
    PROVE  LET old == s.statuses
               new == Recorded(s, res, st).statuses
           IN /\ OneEach(new)
              /\ \A i \in DOMAIN old : old[i].st = "Completed" => new[i] = old[i]
<1> DEFINE old == s.statuses
           entry == [res |-> res, st |-> st]
           at == EntryAt(old, res.name)
           new == Recorded(s, res, st).statuses
<1>1. old \in Seq(Entry) /\ Len(old) \in Nat /\ DOMAIN old = 1 .. Len(old)
  BY DEF Status
<1>2. new = IF at = {} THEN Append(old, entry)
            ELSE [i \in DOMAIN old |-> IF i \in at THEN entry ELSE old[i]]
  BY DEF Recorded, Status
<1>3. entry.res = res
  OBVIOUS
<1>4. \A i \in DOMAIN old : old[i].res.name = res.name <=> old[i].res.id = res.id
  BY DEF OneEach, NamesFollowIds
<1>5. CASE at = {}
  <2> DEFINE p == Len(old) + 1
  <2>1. new = Append(old, entry)
    BY <1>2, <1>5
  <2>2. DOMAIN new = DOMAIN old \cup {p} /\ p \notin DOMAIN old
    BY <1>1, <2>1
  <2>3. new[p] = entry /\ \A i \in DOMAIN old : new[i] = old[i]
    BY <1>1, <2>1
  <2>4. \A i \in DOMAIN old : old[i].res.name # res.name
    BY <1>1, <1>5, FirstEntry
  <2> HIDE DEF new, entry, p, old
  <2>5. \A i \in DOMAIN new : new[i].res \in Resource /\ Listed(new[i].res)
    BY <1>3, <2>2, <2>3 DEF OneEach, old
  <2>6. \A i \in DOMAIN old : old[i].res.id # res.id
    BY <1>4, <2>4
  <2>7. \A i, j \in DOMAIN old : old[i].res.id = old[j].res.id => i = j
    BY DEF OneEach, old
  <2>8. \A i, j \in DOMAIN new : new[i].res.id = new[j].res.id => i = j
    BY <1>3, <2>2, <2>3, <2>6, <2>7
  <2> QED
    BY <2>3, <2>5, <2>8 DEF OneEach, new, old
<1>6. CASE at # {}
  <2>1. DOMAIN new = DOMAIN old
    BY <1>2, <1>6
  <2>2. \A i \in DOMAIN old : new[i] = IF i \in at THEN entry ELSE old[i]
    BY <1>2, <1>6
  <2>3. \A i \in at : /\ i \in DOMAIN old
                      /\ old[i].res.name = res.name
                      /\ old[i].st # "Completed"
    BY DEF EntryAt, IsProcessed, Processed
  <2> HIDE DEF new, entry, at, old
  <2>4. \A i \in DOMAIN old : new[i].res.id = old[i].res.id
    BY <1>3, <1>4, <2>2, <2>3
  <2>5. \A i \in DOMAIN old : new[i].res \in Resource /\ Listed(new[i].res)
    BY <1>3, <2>2 DEF OneEach, old
  <2>6. \A i, j \in DOMAIN old : old[i].res.id = old[j].res.id => i = j
    BY DEF OneEach, old
  <2>7. OneEach(new)
    BY <2>1, <2>4, <2>5, <2>6 DEF OneEach
  <2>8. \A i \in DOMAIN old : old[i].st = "Completed" => new[i] = old[i]
    BY <2>2, <2>3
  <2> QED
    BY <2>7, <2>8 DEF new, old
<1> QED
  BY <1>5, <1>6

\* Positions put in order are all different.
LEMMA InOrderInjective ==
    ASSUME NEW n \in Nat, NEW S \in SUBSET (1 .. n)
    PROVE  \A a, b \in DOMAIN InOrder(S) : InOrder(S)[a] = InOrder(S)[b] => a = b
<1>1. Cardinality(S) \in Nat
  <2>1. IsFiniteSet(1 .. n)
    BY FS_Interval
  <2> QED
    BY <2>1, FS_Subset, FS_CardinalityType
<1> DEFINE increasing == {f \in [1 .. Cardinality(S) -> S] :
                            \A a, b \in 1 .. Cardinality(S) : a < b => f[a] < f[b]}
<1>2. CASE increasing = {}
  <2>1. InOrder(S) = <<>>
    BY <1>2 DEF InOrder
  <2> QED
    BY <2>1
<1>3. CASE increasing # {}
  <2> DEFINE f == InOrder(S)
  <2>1. f \in increasing
    BY <1>3 DEF InOrder
  <2> HIDE DEF f
  <2>2. /\ DOMAIN f = 1 .. Cardinality(S)
        /\ \A a \in DOMAIN f : f[a] \in 1 .. n
        /\ \A a, b \in DOMAIN f : a < b => f[a] < f[b]
    BY <2>1
  <2>3. ASSUME NEW a \in DOMAIN f, NEW b \in DOMAIN f, f[a] = f[b]
        PROVE  a = b
    <3>1. a \in Int /\ b \in Int /\ f[a] \in Int /\ f[b] \in Int
      BY <1>1, <2>2
    <3>2. ~(a < b) /\ ~(b < a)
      BY <2>2, <2>3, <3>1
    <3> QED
      BY <3>1, <3>2
  <2> QED
    BY <2>3 DEF f
<1> QED
  BY <1>2, <1>3

\* What each entry is about after a restart: the same resource id as before, or
\* one that had no entry.
LEMMA RestartedIds ==
    ASSUME NEW o \in Object, OneEach(o.status.statuses)
    PROVE  OneEach(Restarted(o).statuses)
<1> DEFINE old == o.status.statuses
           new == Restarted(o).statuses
           order == InOrder(NewResources(o))
           m == Len(order)
<1>1. /\ old \in Seq(Entry) /\ Len(old) \in Nat /\ m \in Nat
      /\ order \in Seq(NewResources(o))
      /\ DOMAIN new = 1 .. Len(old) + m
      /\ \A i \in 1 .. Len(old) : new[i] = KeptEntry(o, i)
      /\ \A i \in 1 .. Len(old) + m : i > Len(old) => new[i] = AddedEntry(o, i - Len(old))
  BY RestartedParts
<1>2. DOMAIN old = 1 .. Len(old)
  BY <1>1
<1>3. ASSUME NEW i \in DOMAIN old
      PROVE  /\ KeptEntry(o, i).res.id = old[i].res.id
             /\ KeptEntry(o, i).res \in Resource
             /\ Listed(KeptEntry(o, i).res)
  <2>1. old[i].res \in Resource /\ Listed(old[i].res)
    BY DEF OneEach
  <2>2. [old[i] EXCEPT !.st = "Skipped"].res = old[i].res
    BY <1>1 DEF Entry
  <2>3. CASE i \in ModifiedEntries(o)
    <3>1. \E k \in ModifiedResources(o) : ResourcesOf(o)[k].id = old[i].res.id
      BY <2>3 DEF ModifiedEntries
    <3> DEFINE k == CHOOSE k \in ModifiedResources(o) : ResourcesOf(o)[k].id = old[i].res.id
    <3>2. k \in ModifiedResources(o) /\ ResourcesOf(o)[k].id = old[i].res.id
      BY <3>1
    <3>3. k \in DOMAIN ResourcesOf(o)
      BY <3>2 DEF ModifiedResources
    <3>4. ResourcesOf(o)[k] \in Resource /\ Listed(ResourcesOf(o)[k])
      BY <3>3, ListedResources
    <3>5. KeptEntry(o, i) = IF i \in RemovedEntries(o) THEN [old[i] EXCEPT !.st = "Skipped"]
                            ELSE [res |-> ResourcesOf(o)[k], st |-> "Pending"]
      BY <2>3 DEF KeptEntry
    <3> HIDE DEF k
    <3> QED
      BY <2>1, <2>2, <3>2, <3>4, <3>5
  <2>4. CASE i \notin ModifiedEntries(o)
    BY <2>1, <2>2, <2>4 DEF KeptEntry
  <2> QED
    BY <2>3, <2>4
<1>4. ASSUME NEW n \in 1 .. m
      PROVE  /\ order[n] \in DOMAIN ResourcesOf(o)
             /\ AddedEntry(o, n).res = ResourcesOf(o)[order[n]]
             /\ AddedEntry(o, n).res \in Resource
             /\ Listed(AddedEntry(o, n).res)
             /\ \A i \in DOMAIN old : old[i].res.id # AddedEntry(o, n).res.id
  <2>1. order[n] \in NewResources(o)
    BY <1>1
  <2>2. order[n] \in DOMAIN ResourcesOf(o)
    BY <2>1 DEF NewResources
  <2>3. ResourcesOf(o)[order[n]].id \notin StatusIds(old)
    BY <2>1 DEF NewResources
  <2>4. AddedEntry(o, n).res = ResourcesOf(o)[order[n]]
    BY DEF AddedEntry
  <2> QED
    BY <2>2, <2>3, <2>4, ListedResources DEF StatusIds
<1>5. ASSUME NEW a \in 1 .. m, NEW b \in 1 .. m,
             AddedEntry(o, a).res.id = AddedEntry(o, b).res.id
      PROVE  a = b
  <2>1. order[a] = order[b]
    BY <1>4, <1>5, SpecsAssumption, ResourcesType DEF ResourcesOf
  <2>2. ResourcesOf(o) \in Seq(Resource)
    BY ResourcesType
  <2>3. NewResources(o) \in SUBSET (1 .. Len(ResourcesOf(o))) /\ Len(ResourcesOf(o)) \in Nat
    BY <2>2 DEF NewResources
  <2>4. a \in DOMAIN order /\ b \in DOMAIN order
    BY <1>1
  <2> QED
    BY <2>1, <2>3, <2>4, InOrderInjective
<1> HIDE DEF old, new, order, m
<1>6. \A i \in DOMAIN new : i \in DOMAIN old \/ (i > Len(old) /\ i - Len(old) \in 1 .. m)
  BY <1>1, <1>2
<1>7. \A i \in DOMAIN new : new[i].res \in Resource /\ Listed(new[i].res)
  BY <1>1, <1>2, <1>3, <1>4, <1>6
<1>8. ASSUME NEW i \in DOMAIN new, NEW j \in DOMAIN new, new[i].res.id = new[j].res.id
      PROVE  i = j
  <2>1. CASE i \in DOMAIN old /\ j \in DOMAIN old
    BY <1>1, <1>2, <1>3, <1>8, <2>1 DEF OneEach, old
  <2>2. CASE i > Len(old) /\ j > Len(old)
    <3>1. i - Len(old) = j - Len(old)
      BY <1>1, <1>2, <1>5, <1>6, <1>8, <2>2
    <3> QED
      BY <1>1, <3>1
  <2>3. CASE i \in DOMAIN old /\ j > Len(old)
    BY <1>1, <1>2, <1>3, <1>4, <1>6, <1>8, <2>3
  <2>4. CASE i > Len(old) /\ j \in DOMAIN old
    BY <1>1, <1>2, <1>3, <1>4, <1>6, <1>8, <2>4
  <2> QED
    BY <1>6, <2>1, <2>2, <2>3, <2>4
<1> QED
  BY <1>7, <1>8 DEF OneEach, new

\* A restart touches no entry whose resource the spec lists as it was.
LEMMA RestartedKeeps ==
    ASSUME NEW o \in Object, OneEach(o.status.statuses)
    PROVE  KeepsCompleted(o, o.status.statuses, Restarted(o).statuses)
<1> DEFINE old == o.status.statuses
<1> SUFFICES ASSUME NEW i \in DOMAIN old, NEW k \in DOMAIN ResourcesOf(o),
                    ResourcesOf(o)[k] = old[i].res
             PROVE  i \notin RemovedEntries(o) /\ i \notin ModifiedEntries(o)
  BY RestartedEntries DEF KeepsCompleted
<1>1. i \notin RemovedEntries(o)
  BY DEF RemovedEntries, SpecIds
<1>2. ASSUME i \in ModifiedEntries(o) PROVE FALSE
  <2>1. PICK l \in ModifiedResources(o) : old[i].res.id = ResourcesOf(o)[l].id
    BY <1>2 DEF ModifiedEntries
  <2>2. PICK j \in DOMAIN old : /\ old[j].res.id = ResourcesOf(o)[l].id
                                /\ old[j].res # ResourcesOf(o)[l]
    BY <2>1 DEF ModifiedResources
  <2>3. l \in DOMAIN ResourcesOf(o)
    BY <2>1 DEF ModifiedResources
  <2>4. j = i
    BY <2>1, <2>2 DEF OneEach
  <2>5. l = k
    BY <2>1, <2>3, SpecsAssumption, ResourcesType DEF ResourcesOf
  <2> QED
    BY <2>2, <2>4, <2>5
<1> QED
  BY <1>1, <1>2

\* What the invariant says of the object: one entry for each resource, and none
\* before the status is initialized.
Uninitialized(o) == o.status.phase = ""
EntriesInOrder(o) ==
    /\ OneEach(o.status.statuses)
    /\ Uninitialized(o) => o.status.statuses = <<>>

\* The phases the handlers move to are not that of an uninitialized status.
LEMMA Initialized ==
    ASSUME NEW o,
           o.status.phase \in {"Pending", "Validating", "Running", "Paused", "Syncing",
                              "Completed", "Failed", "Cancelled"}
    PROVE  ~Uninitialized(o)
BY Zenon DEF Uninitialized

LEMMA HandledKeepsCompleted ==
    ASSUME NamesFollowIds, ObjectTypeOK, EntriesInOrder(obj), Handled
    PROVE  /\ EntriesInOrder(obj')
           /\ KeepsCompleted(obj, obj.status.statuses, obj'.status.statuses)
<1>1. obj \in Object /\ OneEach(obj.status.statuses)
  BY DEF ObjectTypeOK, EntriesInOrder
<1>2. \A n : n = obj.status.statuses => KeepsCompleted(obj, obj.status.statuses, n)
  BY DEF KeepsCompleted
<1>3. CASE RestartTaken
  <2>1. obj'.status = IF NoChanges(obj) THEN Observed(obj) ELSE Restarted(obj)
    BY <1>1, <1>3 DEF RestartTaken, AfterRestart, WithStatus, Object
  <2>2. Observed(obj).statuses = obj.status.statuses /\ Observed(obj).phase = obj.status.phase
    BY <1>1 DEF Observed, Object, Status
  <2>3. Restarted(obj).phase = "Running"
    BY <1>1 DEF Restarted, Object, Status
  <2>4. obj'.status = Restarted(obj) => ~Uninitialized(obj')
    BY <2>3, Initialized
  <2>5. obj'.status = Observed(obj) => (Uninitialized(obj') <=> Uninitialized(obj))
    BY <2>2 DEF Uninitialized
  <2>6. OneEach(Restarted(obj).statuses)
    BY <1>1, RestartedIds
  <2>7. KeepsCompleted(obj, obj.status.statuses, Restarted(obj).statuses)
    BY <1>1, RestartedKeeps
  <2> QED
    BY <1>1, <1>2, <2>1, <2>2, <2>4, <2>5, <2>6, <2>7 DEF EntriesInOrder
<1>4. CASE StatusInitialized
  <2>1. obj'.status = [NoStatus EXCEPT !.phase = "Pending", !.obs = obj.gen,
                                       !.total = Len(ResourcesOf(obj))]
    BY <1>1, <1>4 DEF StatusInitialized, AfterInitialize, WithStatus, Object
  <2>2. obj'.status.statuses = <<>>
    BY <2>1 DEF NoStatus
  <2>3. obj.status.statuses = <<>>
    <3>1. Uninitialized(obj)
      BY <1>4, Zenon DEF StatusInitialized, InPhase, Uninitialized
    <3> QED
      BY <3>1 DEF EntriesInOrder
  <2>4. OneEach(obj'.status.statuses)
    BY <2>2 DEF OneEach
  <2> QED
    BY <1>2, <2>2, <2>3, <2>4 DEF EntriesInOrder
<1>5. ASSUME NEW k \in DOMAIN ResourcesOf(obj), IsNext(obj, k), NEW st,
             obj'.status.statuses
               = Recorded(Observed(obj), ResourcesOf(obj)[k], st).statuses
      PROVE  /\ OneEach(obj'.status.statuses)
             /\ KeepsCompleted(obj, obj.status.statuses, obj'.status.statuses)
  <2>1. Observed(obj) \in Status /\ Observed(obj).statuses = obj.status.statuses
    BY <1>1, ObservedType, ObservedSameCounts DEF SameCounts
  <2>2. ResourcesOf(obj)[k] \in Resource /\ Listed(ResourcesOf(obj)[k])
    BY <1>1, ListedResources
  <2>3. ~IsProcessed(Observed(obj).statuses, ResourcesOf(obj)[k])
    BY <1>5, <2>1 DEF IsNext
  <2>4. /\ OneEach(obj'.status.statuses)
        /\ \A i \in DOMAIN obj.status.statuses :
              obj.status.statuses[i].st = "Completed"
                => obj'.status.statuses[i] = obj.status.statuses[i]
    BY <1>1, <1>5, <2>1, <2>2, <2>3, RecordedKeeps
  <2> QED
    BY <2>4 DEF KeepsCompleted
<1>6. CASE ResourceCompleted
  <2>1. PICK k \in DOMAIN ResourcesOf(obj) :
           IsNext(obj, k) /\ obj' = AfterSuccess(obj, k)
    BY <1>6 DEF ResourceCompleted
  <2>2. obj'.status = Recorded(Observed(obj), ResourcesOf(obj)[k], "Completed")
    BY <1>1, <2>1 DEF AfterSuccess, WithStatus, Object
  <2>3. obj'.status.phase = "Running"
    <3>1. obj.status.phase = "Running"
      BY <1>6 DEF ResourceCompleted, InPhase
    <3> QED
      BY <1>1, <2>2, <3>1 DEF Recorded, Observed, Object, Status
  <2> QED
    BY <1>5, <2>1, <2>2, <2>3, Initialized DEF EntriesInOrder
<1>7. CASE ResourceFailed
  <2>1. PICK k \in DOMAIN ResourcesOf(obj) :
           IsNext(obj, k) /\ obj' = AfterFailure(obj, k)
    BY <1>7 DEF ResourceFailed
  <2> DEFINE s == Recorded(Observed(obj), ResourcesOf(obj)[k], "Failed")
  <2>2. obj'.status = [s EXCEPT !.phase = "Failed"]
    BY <1>1, <2>1 DEF AfterFailure, WithStatus, Object
  <2>3. s \in Status
    BY <1>1, <2>1, ObservedType, ResourcesType, RecordedType DEF Processed
  <2> HIDE DEF s
  <2>4. obj'.status.phase = "Failed" /\ obj'.status.statuses = s.statuses
    BY <2>2, <2>3 DEF Status
  <2> QED
    BY <1>5, <2>1, <2>4, Initialized DEF EntriesInOrder, s
<1>8. CASE FinalizerAdded \/ FinalizerRemoved \/ TriggerTaken
  <2>1. obj'.status = obj.status
    BY <1>1, <1>8, ObservedSameCounts DEF FinalizerAdded, FinalizerRemoved, TriggerTaken
  <2> QED
    BY <1>2, <2>1 DEF EntriesInOrder, Uninitialized
<1>9. CASE \/ PausedByUser \/ CancelledByUser \/ ValidationBegun \/ ValidationEnded
           \/ MigrationFailed \/ ProcessingMarked \/ MigrationCompleted \/ SyncStopped
           \/ SyncDone
  <2>1. obj'.status.statuses = obj.status.statuses
    BY <1>1, <1>9, PhaseMovesSameCounts DEF SameCounts
  <2>2. Uninitialized(obj') => Uninitialized(obj)
    <3>1. \A phase : InNewPhase(obj, phase).status.phase = phase
      BY <1>1 DEF InNewPhase, WithStatus, Observed, Object, Status
    <3>2. CASE PausedByUser \/ CancelledByUser \/ ValidationBegun \/ ValidationEnded
               \/ SyncStopped
      <4>1. obj'.status.phase \in {"Paused", "Cancelled", "Validating", "Running", "Failed",
                                  "Completed"}
        BY <3>1, <3>2
        DEF PausedByUser, CancelledByUser, ValidationBegun, ValidationEnded, SyncStopped
      <4> QED
        BY <4>1, Initialized
    <3>3. CASE MigrationFailed \/ ProcessingMarked \/ MigrationCompleted
      <4>1. obj.status.phase = "Running"
        BY <3>3 DEF MigrationFailed, ProcessingMarked, MigrationCompleted, InPhase
      <4>2. /\ AfterFail(obj).status.phase = "Failed"
            /\ AfterMark(obj).status.phase = obj.status.phase
            /\ AfterComplete(obj).status.phase \in {"Syncing", "Completed"}
        BY <1>1 DEF AfterFail, AfterMark, AfterComplete, WithStatus, Observed, Object, Status
      <4>3. obj'.status.phase \in {"Failed", "Running", "Syncing", "Completed"}
        BY <3>3, <4>1, <4>2 DEF MigrationFailed, ProcessingMarked, MigrationCompleted
      <4> QED
        BY <4>3, Initialized
    <3>4. CASE SyncDone
      <4>1. obj'.status = Observed(obj)
        BY <1>1, <3>4, ObservedSameCounts DEF SyncDone
      <4>2. Observed(obj).phase = obj.status.phase
        BY <1>1 DEF Observed, Object, Status
      <4> QED
        BY <4>1, <4>2 DEF Uninitialized
    <3> QED
      BY <1>9, <3>2, <3>3, <3>4
  <2> QED
    BY <1>1, <1>2, <2>1, <2>2 DEF EntriesInOrder
<1> QED
  BY <1>3, <1>4, <1>6, <1>7, <1>8, <1>9 DEF Handled

\* CompletedWorkKept: for any specs, any number of edits, restarts, crashes and
\* stale copies, the entry of a Completed resource that the spec still lists
\* unchanged stays as it is, provided that no resource is renamed.
THEOREM WorkKept ==
    ASSUME NamesFollowIds
    PROVE  Spec => CompletedWorkKept
<1> DEFINE Kept == \A i \in DOMAIN obj.status.statuses :
                     LET e == obj.status.statuses[i]
                     IN e.st = "Completed"
                          /\ (\E k \in DOMAIN ResourcesOf(obj) : ResourcesOf(obj)[k] = e.res)
                        => obj'.status.statuses[i] = e
           Inv == EntriesInOrder(obj)
<1>1. Init => Inv
  <2> SUFFICES ASSUME Init PROVE Inv
    OBVIOUS
  <2>1. obj.status.statuses = <<>>
    BY InitNoStatus DEF Init
  <2> QED
    BY <2>1 DEF EntriesInOrder, OneEach
<1>2. TypeOK /\ CopiesFaithful /\ Inv /\ [Next]_vars => Inv' /\ Kept
  <2> SUFFICES ASSUME TypeOK, CopiesFaithful, Inv, [Next]_vars
               PROVE  Inv' /\ Kept
    OBVIOUS
  <2>1. CASE User
    <3>1. obj'.status = obj.status
      BY <2>1, TypeObject, UserKeepsStatus DEF User, UserStep
    <3> QED
      BY <3>1 DEF EntriesInOrder, Uninitialized
  <2>2. CASE Handled
    <3>1. EntriesInOrder(obj') /\ KeepsCompleted(obj, obj.status.statuses, obj'.status.statuses)
      BY <2>2, TypeObject, HandledKeepsCompleted
    <3> QED
      BY <3>1 DEF KeepsCompleted
  <2>3. CASE UNCHANGED obj
    BY <2>3 DEF EntriesInOrder, Uninitialized
  <2> QED
    BY <2>1, <2>2, <2>3, StepOutcome
<1>3. TypeOK /\ CopiesFaithful /\ Inv /\ [Next]_vars => [Kept]_vars
  BY <1>2
<1> QED
  BY <1>1, <1>2, <1>3, TypeCorrect, Faithful, PTL DEF Spec, CompletedWorkKept
=============================================================================
