----------------------- MODULE WorkItemMigrationProofs -----------------------
(* Theorems about WorkItemMigration, for any number of replicas, goroutines, *)
(* items, filters, edits, outdated reads and mishaps: the types, the lists   *)
(* of migrated items, the coverage of the filter and, with the rows of       *)
(* PostgreSQL, the number of issues.                                         *)
EXTENDS WorkItemMigration, FiniteSetTheorems, TLAPS

-----------------------------------------------------------------------------
(* What the helpers of the handlers preserve.                              *)

\* A free goroutine is a goroutine.
LEMMA NoWorkType ==
    ASSUME WorkConstants
    PROVE  NoWork \in Goroutine /\ NoStatus \in Status
<1>1. NoStatus \in Status
  BY DEF NoStatus, Status, Phases
<1>2. (CHOOSE r \in Replicas : TRUE) \in Replicas
  BY DEF WorkConstants
<1> QED
  BY <1>1, <1>2 DEF NoWork, Goroutine

\* Mishaps stay within their bound.
LEMMA MishapsType ==
    ASSUME WorkConstants, TypeOK, NEW n \in Nat, Mishaps(n)
    PROVE  mishaps' \in 0 .. MaxMishaps
BY DEF WorkConstants, TypeOK, Mishaps

\* Reads of outdated copies stay within theirs.
LEMMA ReadType ==
    ASSUME WorkConstants, TypeOK, NEW r \in Replicas, ReadCache(r)
    PROVE  lags' \in 0 .. MaxLags
BY DEF WorkConstants, TypeOK, ReadCache

\* A write that lands leaves an object and outdated copies.
LEMMA StoreType ==
    ASSUME TypeOK, NEW o \in Object, Store(o)
    PROVE  obj' \in Object /\ synced' \in [Replicas -> BOOLEAN]
BY DEF TypeOK, Store

\* The status of a copy in memory, with the generation observed.
LEMMA ObservedType ==
    ASSUME NEW o \in Object
    PROVE  Observed(o) \in Status
BY DEF Observed, Object, Status

\* A status put into an object leaves an object.
LEMMA WithStatusType ==
    ASSUME NEW o \in Object, NEW s \in Status
    PROVE  [o EXCEPT !.st = s] \in Object
BY DEF Object

\* A refused write changes only the number of mishaps.
LEMMA RefusedType ==
    ASSUME WorkConstants, TypeOK, NEW r \in Replicas, Refused(r)
    PROVE  /\ obj' \in Object /\ synced' \in [Replicas -> BOOLEAN]
           /\ mishaps' \in 0 .. MaxMishaps
<1>1. CASE UNCHANGED mishaps
  BY <1>1 DEF Refused, TypeOK
<1>2. CASE Mishap
  BY <1>2, MishapsType DEF Mishap, Refused, TypeOK
<1> QED
  BY <1>1, <1>2 DEF Refused

\* A write of the reconciler keeps every type.
LEMMA WriteType ==
    ASSUME WorkConstants, TypeOK, NEW r \in Replicas, NEW o \in Object,
           NEW again \in BOOLEAN, Taken(r), Write(r, o, again)
    PROVE  TypeOK'
<1>0. lags' \in 0 .. MaxLags
  BY ReadType DEF Taken
<1>1. CASE Store(o) /\ UNCHANGED mishaps /\ queued' = [queued EXCEPT ![r] = again]
  <2>1. obj' \in Object /\ synced' \in [Replicas -> BOOLEAN]
    BY <1>1, StoreType
  <2> QED
    BY <1>0, <1>1, <2>1 DEF Write, TypeOK
<1>2. CASE Refused(r) /\ UNCHANGED queued
  <2>1. /\ obj' \in Object /\ synced' \in [Replicas -> BOOLEAN]
        /\ mishaps' \in 0 .. MaxMishaps
    BY <1>2, RefusedType
  <2> QED
    BY <1>0, <1>2, <2>1 DEF Write, TypeOK
<1> QED
  BY <1>1, <1>2 DEF Write

\* A write of the status of the copy keeps every type.
LEMMA WriteStatusType ==
    ASSUME WorkConstants, TypeOK, NEW r \in Replicas, NEW s \in Status,
           NEW again \in BOOLEAN, Taken(r), WriteStatus(r, s, again)
    PROVE  TypeOK'
<1>1. cache[r] \in Object
  BY DEF TypeOK
<1>2. [cache[r] EXCEPT !.st = s] \in Object
  BY <1>1, WithStatusType
<1> QED
  BY <1>2, WriteType DEF WriteStatus

\* A handler that writes nothing keeps every type.
LEMMA ReturnOnlyType ==
    ASSUME WorkConstants, TypeOK, NEW r \in Replicas, NEW again \in BOOLEAN, Taken(r),
           ReturnOnly(r, again)
    PROVE  TypeOK'
<1>1. lags' \in 0 .. MaxLags
  BY ReadType DEF Taken
<1> QED
  BY <1>1 DEF TypeOK, ReturnOnly

\* A goroutine is started with the type of one.
LEMMA SpawnType ==
    ASSUME WorkConstants, TypeOK, NEW r \in Replicas, Spawn(r)
    PROVE  worker' \in [Workers -> Goroutine] /\ active' \in [Replicas -> BOOLEAN]
<1>1. PICK w \in Workers :
          worker' = [worker EXCEPT ![w] = [NoWork EXCEPT !.host = r, !.at = "start"]]
  BY DEF Spawn
<1>2. [NoWork EXCEPT !.host = r, !.at = "start"] \in Goroutine
  BY NoWorkType DEF Goroutine
<1> QED
  BY <1>1, <1>2 DEF Spawn, TypeOK

\* A forced write keeps the types of what it touches.
LEMMA ForceStatusType ==
    ASSUME WorkConstants, TypeOK, NEW s \in Status, ForceStatus(s)
    PROVE  /\ obj' \in Object /\ synced' \in [Replicas -> BOOLEAN]
           /\ mishaps' \in 0 .. MaxMishaps
<1>1. CASE Store([obj EXCEPT !.st = s]) /\ UNCHANGED mishaps
  <2>1. [obj EXCEPT !.st = s] \in Object
    BY WithStatusType DEF TypeOK
  <2> QED
    BY <1>1, <2>1, StoreType DEF TypeOK
<1>2. CASE UNCHANGED <<obj, synced, mishaps>>
  BY <1>2 DEF TypeOK
<1>3. CASE Mishap /\ UNCHANGED <<obj, synced>>
  BY <1>3, MishapsType DEF Mishap, TypeOK
<1> QED
  BY <1>1, <1>2, <1>3 DEF ForceStatus

\* The end of a goroutine keeps the types of what it touches.
LEMMA EndType ==
    ASSUME WorkConstants, TypeOK, NEW w \in Workers, End(w)
    PROVE  worker' \in [Workers -> Goroutine] /\ active' \in [Replicas -> BOOLEAN]
BY NoWorkType DEF End, Host, TypeOK, Goroutine

\* A goroutine that goes on keeps the types of what it touches.
LEMMA GoOnType ==
    ASSUME TypeOK, NEW w \in Workers, NEW next \in Goroutine, GoOn(w, next)
    PROVE  worker' \in [Workers -> Goroutine] /\ active' \in [Replicas -> BOOLEAN]
BY DEF GoOn, TypeOK

\* A failed migration keeps every type.
LEMMA FailToType ==
    ASSUME WorkConstants, TypeOK, NEW w \in Workers, NEW s \in Status, FailTo(w, s),
           lags' \in 0 .. MaxLags
    PROVE  TypeOK'
<1>1. PICK transient \in BOOLEAN :
          ForceStatus([s EXCEPT !.phase = "Failed", !.retry = transient])
  BY DEF FailTo
<1> DEFINE f == [s EXCEPT !.phase = "Failed", !.retry = transient]
<1>4. f \in Status
  BY DEF Status, Phases
<1>2. /\ obj' \in Object /\ synced' \in [Replicas -> BOOLEAN]
      /\ mishaps' \in 0 .. MaxMishaps
  BY <1>1, <1>4, ForceStatusType
<1>3. worker' \in [Workers -> Goroutine] /\ active' \in [Replicas -> BOOLEAN]
  BY EndType DEF FailTo
<1> QED
  BY <1>2, <1>3 DEF FailTo, TypeOK

\* A callback keeps the types of what it touches.
LEMMA CallbackType ==
    ASSUME WorkConstants, TypeOK, NEW w \in Workers, NEW full \in BOOLEAN, NEW items,
           Callback(w, items, full)
    PROVE  /\ obj' \in Object /\ synced' \in [Replicas -> BOOLEAN]
           /\ mishaps' \in 0 .. MaxMishaps /\ lags' \in 0 .. MaxLags
<1> DEFINE view == cache[Host(w)].st
           told == [view EXCEPT !.full = full, !.retry = @ /\ items = {}]
<1>1. view \in Status /\ Host(w) \in Replicas
  BY DEF TypeOK, Host, Goroutine, Object
<1>2. told \in Status
  <2>1. (view.retry /\ items = {}) \in BOOLEAN
    OBVIOUS
  <2> QED
    BY <1>1, <2>1 DEF Status
<1>5. lags' \in 0 .. MaxLags
  BY <1>1, ReadType DEF Callback
<1>3. CASE ForceStatus(told)
  BY <1>2, <1>3, <1>5, ForceStatusType
<1>4. CASE UNCHANGED <<obj, synced, mishaps>>
  BY <1>4, <1>5 DEF TypeOK
<1> QED
  BY <1>3, <1>4, <1>5 DEF Callback

-----------------------------------------------------------------------------
(* Type correctness.                                                       *)

\* Each handler of Reconcile keeps every type.
LEMMA ReconcileType ==
    ASSUME WorkConstants, TypeOK, NEW r \in Replicas, Reconcile(r)
    PROVE  TypeOK'
<1> DEFINE o == cache[r]
           seen == Observed(o)
<1>1. o \in Object
  BY DEF TypeOK
<1>2. seen \in Status
  BY <1>1, ObservedType
<1>3. CASE NotFound(r)
  BY <1>3, ReturnOnlyType DEF NotFound
<1>4. CASE RestartForSpecChange(r)
  <2>1. [seen EXCEPT !.phase = "Pending", !.retry = FALSE] \in Status
    BY <1>2 DEF Status, Phases
  <2> QED
    BY <1>4, <2>1, WriteStatusType DEF RestartForSpecChange
<1>5. CASE AddFinalizer(r)
  <2>1. [o EXCEPT !.fin = TRUE] \in Object
    BY <1>1 DEF Object
  <2> QED
    BY <1>5, <2>1, WriteType DEF AddFinalizer
<1>6. CASE RemoveFinalizer(r)
  <2>1. [o EXCEPT !.fin = FALSE, !.exists = FALSE] \in Object
    BY <1>1 DEF Object
  <2> QED
    BY <1>6, <2>1, WriteType, ReturnOnlyType DEF RemoveFinalizer
<1>7. CASE InitializeStatus(r)
  <2>1. [seen EXCEPT !.phase = "Pending", !.full = FALSE] \in Status
    BY <1>2 DEF Status, Phases
  <2> QED
    BY <1>7, <2>1, WriteStatusType DEF InitializeStatus
<1>8. CASE ProcessPending(r)
  <2>1. [seen EXCEPT !.phase = "Validating"] \in Status
    BY <1>2 DEF Status, Phases
  <2> QED
    BY <1>8, <2>1, WriteStatusType DEF ProcessPending
<1>9. CASE ValidationFails(r)
  <2>1. [seen EXCEPT !.retry = FALSE] \in Status
    BY <1>2 DEF Status
  <2>2. \A transient \in BOOLEAN :
          [seen EXCEPT !.phase = "Failed", !.retry = transient] \in Status
    BY <1>2 DEF Status, Phases
  <2> QED
    BY <1>9, <2>1, <2>2, WriteStatusType DEF ValidationFails
<1>16. lags' \in 0 .. MaxLags
  BY ReadType DEF Taken, Reconcile, NotFound, RestartForSpecChange, AddFinalizer, RemoveFinalizer,
     InitializeStatus, ProcessPending, ValidationFails, ValidationPasses, StillRunning, Resume,
     RunningFull, RetryValidation, StayTerminal
<1>10. CASE ValidationPasses(r)
  <2> DEFINE next == [seen EXCEPT !.phase = "Running", !.retry = FALSE]
  <2>1. next \in Status
    BY <1>2 DEF Status, Phases
  <2>2. [o EXCEPT !.st = next] \in Object
    BY <1>1, <2>1, WithStatusType
  <2>3. obj' \in Object /\ synced' \in [Replicas -> BOOLEAN]
    BY <1>10, <2>2, StoreType DEF ValidationPasses
  <2>4. worker' \in [Workers -> Goroutine] /\ active' \in [Replicas -> BOOLEAN]
    BY <1>10, SpawnType DEF ValidationPasses
  <2> QED
    BY <1>10, <1>16, <2>3, <2>4 DEF ValidationPasses, TypeOK
<1>11. CASE StillRunning(r)
  BY <1>11, ReturnOnlyType DEF StillRunning
<1>12. CASE Resume(r)
  <2>2. /\ obj' \in Object /\ synced' \in [Replicas -> BOOLEAN]
        /\ mishaps' \in 0 .. MaxMishaps
    <3>1. CASE Store(o) /\ UNCHANGED mishaps
      BY <1>1, <3>1, StoreType DEF TypeOK
    <3>2. CASE Refused(r)
      BY <3>2, RefusedType
    <3> QED
      BY <1>12, <3>1, <3>2 DEF Resume
  <2>3. worker' \in [Workers -> Goroutine] /\ active' \in [Replicas -> BOOLEAN]
    BY <1>12, SpawnType DEF Resume
  <2> QED
    BY <1>12, <1>16, <2>2, <2>3 DEF Resume, TypeOK
<1>13. CASE RunningFull(r)
  BY <1>13, ReturnOnlyType DEF RunningFull
<1>14. CASE RetryValidation(r)
  <2>1. [seen EXCEPT !.phase = "Validating", !.retry = FALSE] \in Status
    BY <1>2 DEF Status, Phases
  <2> QED
    BY <1>14, <2>1, WriteStatusType DEF RetryValidation
<1>15. CASE StayTerminal(r)
  BY <1>15, ReturnOnlyType DEF StayTerminal
<1> QED
  BY <1>3, <1>4, <1>5, <1>6, <1>7, <1>8, <1>9, <1>10, <1>11, <1>12, <1>13, <1>14, <1>15
     DEF Reconcile

\* Each step of a goroutine keeps every type.
LEMMA WorkType ==
    ASSUME WorkConstants, TypeOK, NEW w \in Workers, Work(w)
    PROVE  TypeOK'
<1> DEFINE me == worker[w]
           view == cache[Host(w)]
<1>1. me \in Goroutine /\ view \in Object /\ Host(w) \in Replicas
  BY DEF TypeOK, Host, Goroutine
<1>2. me.st \in Status
  BY <1>1 DEF Goroutine
<1>3. obj.spec \in SUBSET Items /\ view.spec \in SUBSET Items
  BY <1>1 DEF TypeOK, Object, WorkConstants
<1>4. view.st \in Status /\ view.st.items \in SUBSET Items
  BY <1>1 DEF Object, Status
<1>5. CASE Start(w)
  <2>0. lags' \in 0 .. MaxLags
    BY <1>1, <1>5, ReadType DEF Start
  <2>1. CASE FailTo(w, view.st)
    BY <1>4, <2>0, <2>1, FailToType
  <2>2. CASE /\ ForceStatus(view.st)
             /\ \E s \in {obj.spec, view.spec} :
                   GoOn(w, [me EXCEPT !.at = "connect", !.st = view.st, !.spec = s,
                               !.todo = s \ view.st.items,
                               !.done = IF s = {} THEN {} ELSE view.st.items])
             /\ UNCHANGED <<cache, queued, issues, rows, raced, edits>>
    <3>1. \A s \in {obj.spec, view.spec} :
             [me EXCEPT !.at = "connect", !.st = view.st, !.spec = s,
                        !.todo = s \ view.st.items,
                        !.done = IF s = {} THEN {} ELSE view.st.items] \in Goroutine
      <4> SUFFICES ASSUME NEW s \in {obj.spec, view.spec}
                   PROVE  [me EXCEPT !.at = "connect", !.st = view.st, !.spec = s,
                             !.todo = s \ view.st.items,
                             !.done = IF s = {} THEN {} ELSE view.st.items] \in Goroutine
        OBVIOUS
      <4>1. /\ s \in SUBSET Items /\ (s \ view.st.items) \in SUBSET Items
            /\ (IF s = {} THEN {} ELSE view.st.items) \in SUBSET Items
        BY <1>3, <1>4
      <4> QED
        BY <1>1, <1>4, <4>1 DEF Goroutine
    <3>2. worker' \in [Workers -> Goroutine] /\ active' \in [Replicas -> BOOLEAN]
      BY <2>2, <3>1, GoOnType
    <3>3. /\ obj' \in Object /\ synced' \in [Replicas -> BOOLEAN]
          /\ mishaps' \in 0 .. MaxMishaps
      BY <1>4, <2>2, ForceStatusType
    <3> QED
      BY <2>0, <2>2, <3>2, <3>3 DEF TypeOK
  <2> QED
    BY <1>5, <2>1, <2>2 DEF Start
<1>6. CASE StartGone(w)
  BY <1>1, <1>6, EndType, ReadType DEF StartGone, TypeOK
<1>7. CASE Connect(w)
  <2>1. [me EXCEPT !.at = "work"] \in Goroutine
    BY <1>1 DEF Goroutine
  <2>2. worker' \in [Workers -> Goroutine] /\ active' \in [Replicas -> BOOLEAN]
    BY <1>7, <2>1, GoOnType DEF Connect
  <2>3. /\ obj' \in Object /\ synced' \in [Replicas -> BOOLEAN]
        /\ mishaps' \in 0 .. MaxMishaps /\ lags' \in 0 .. MaxLags
    BY <1>7, CallbackType DEF Connect
  <2> QED
    BY <1>7, <2>2, <2>3 DEF Connect, TypeOK
<1>8. CASE ServiceFails(w)
  BY <1>2, <1>8, FailToType DEF ServiceFails, TypeOK
<1>9. CASE Report(w)
  <2>1. /\ obj' \in Object /\ synced' \in [Replicas -> BOOLEAN]
        /\ mishaps' \in 0 .. MaxMishaps /\ lags' \in 0 .. MaxLags
    BY <1>2, <1>9, CallbackType DEF Report
  <2> QED
    BY <1>9, <2>1 DEF Report, TypeOK
<1>10. CASE SkipRecorded(w)
  <2>1. \A i : [me EXCEPT !.todo = @ \ {i}] \in Goroutine
    BY <1>1 DEF Goroutine
  <2>2. worker' \in [Workers -> Goroutine] /\ active' \in [Replicas -> BOOLEAN]
    BY <1>10, <2>1, GoOnType DEF SkipRecorded
  <2> QED
    BY <1>10, <2>2 DEF SkipRecorded, TypeOK
<1>11. CASE CreateIssue(w)
  <2>1. PICK i \in me.todo :
          /\ Mishaps(Unseen(i))
          /\ issues' = [issues EXCEPT ![i] = @ + 1] /\ CountRace(w, i)
          /\ GoOn(w, [me EXCEPT !.at = "record", !.item = {i}, !.todo = @ \ {i}])
    BY <1>11 DEF CreateIssue
  <2>2. i \in Items /\ Unseen(i) \in Nat
    BY <1>1 DEF Goroutine, Unseen
  <2>3. [me EXCEPT !.at = "record", !.item = {i}, !.todo = @ \ {i}] \in Goroutine
    BY <1>1, <2>2 DEF Goroutine
  <2>4. worker' \in [Workers -> Goroutine] /\ active' \in [Replicas -> BOOLEAN]
    BY <2>1, <2>3, GoOnType
  <2>5. mishaps' \in 0 .. MaxMishaps
    BY <2>1, <2>2, MishapsType
  <2>6. issues' \in [Items -> Nat]
    BY <2>1, <2>2 DEF TypeOK
  <2>7. raced' \in Nat
    BY <2>1 DEF CountRace, TypeOK
  <2> QED
    BY <1>11, <2>4, <2>5, <2>6, <2>7 DEF CreateIssue, TypeOK
<1>12. CASE CreateFails(w)
  <2>1. PICK i \in me.todo :
          /\ Mishaps(1 + Unseen(i))
          /\ issues' \in {issues, [issues EXCEPT ![i] = @ + 1]}
          /\ rows' = IF Tracked THEN [rows EXCEPT ![i] = "failed"] ELSE rows
          /\ GoOn(w, [me EXCEPT !.todo = @ \ {i}])
    BY <1>12 DEF CreateFails
  <2>2. i \in Items /\ 1 + Unseen(i) \in Nat
    BY <1>1 DEF Goroutine, Unseen
  <2> DEFINE left == me.todo \ {i}
  <2>3. [me EXCEPT !.todo = left] \in Goroutine
    <3>1. left \in SUBSET Items
      BY <1>1 DEF Goroutine
    <3> HIDE DEF left, me
    <3> QED
      BY <1>1, <3>1 DEF Goroutine
  <2>4. worker' \in [Workers -> Goroutine] /\ active' \in [Replicas -> BOOLEAN]
    BY <2>1, <2>3, GoOnType
  <2>5. mishaps' \in 0 .. MaxMishaps
    BY <2>1, <2>2, MishapsType
  <2>6. issues' \in [Items -> Nat] /\ rows' \in [Items -> {"none", "success", "failed"}]
    BY <2>1, <2>2 DEF TypeOK
  <2> QED
    BY <1>12, <2>4, <2>5, <2>6 DEF CreateFails, TypeOK
<1>13. CASE RecordItem(w)
  <2>1. [me EXCEPT !.at = "work", !.done = @ \cup me.item, !.item = {}] \in Goroutine
    BY <1>1 DEF Goroutine
  <2>2. worker' \in [Workers -> Goroutine] /\ active' \in [Replicas -> BOOLEAN]
    BY <1>13, <2>1, GoOnType DEF RecordItem
  <2>3. rows' \in [Items -> {"none", "success", "failed"}] /\ mishaps' \in 0 .. MaxMishaps
    <3>1. CASE Mishap /\ UNCHANGED rows
      BY <3>1, MishapsType DEF Mishap, TypeOK
    <3>2. CASE /\ rows' = [i \in Items |-> IF Tracked /\ i \in me.item
                                           THEN "success" ELSE rows[i]]
               /\ UNCHANGED mishaps
      BY <3>2 DEF TypeOK
    <3> QED
      BY <1>13, <3>1, <3>2 DEF RecordItem
  <2> QED
    BY <1>13, <2>2, <2>3 DEF RecordItem, TypeOK
<1>14. CASE FinishItems(w)
  <2>1. [me EXCEPT !.at = "project"] \in Goroutine
    BY <1>1 DEF Goroutine
  <2>2. worker' \in [Workers -> Goroutine] /\ active' \in [Replicas -> BOOLEAN]
    BY <1>14, <2>1, GoOnType DEF FinishItems
  <2>3. /\ obj' \in Object /\ synced' \in [Replicas -> BOOLEAN]
        /\ mishaps' \in 0 .. MaxMishaps /\ lags' \in 0 .. MaxLags
    BY <1>2, <1>14, CallbackType DEF FinishItems, NoCallback, TypeOK
  <2> QED
    BY <1>14, <2>2, <2>3 DEF FinishItems, TypeOK
<1>15. CASE AddToProject(w)
  <2>1. [me EXCEPT !.at = "final"] \in Goroutine
    BY <1>1 DEF Goroutine
  <2>2. worker' \in [Workers -> Goroutine] /\ active' \in [Replicas -> BOOLEAN]
    BY <1>15, <2>1, GoOnType DEF AddToProject
  <2>3. /\ obj' \in Object /\ synced' \in [Replicas -> BOOLEAN]
        /\ mishaps' \in 0 .. MaxMishaps
    BY <1>2, <1>15, ForceStatusType DEF AddToProject, TypeOK
  <2> QED
    BY <1>15, <2>2, <2>3 DEF AddToProject, TypeOK
<1>16. CASE Complete(w)
  <2>1. CompletedStatus(w) \in Status
    BY <1>1, <1>2 DEF CompletedStatus, Goroutine, Status, Phases
  <2>2. /\ obj' \in Object /\ synced' \in [Replicas -> BOOLEAN]
        /\ mishaps' \in 0 .. MaxMishaps
    BY <1>16, <2>1, ForceStatusType DEF Complete
  <2>3. worker' \in [Workers -> Goroutine] /\ active' \in [Replicas -> BOOLEAN]
    BY <1>16, EndType DEF Complete
  <2> QED
    BY <1>16, <2>2, <2>3 DEF Complete, TypeOK
<1>17. CASE TimeOut(w)
  <2>1. mishaps' \in 0 .. MaxMishaps
    BY <1>17, MishapsType DEF TimeOut, Mishap
  <2> QED
    BY <1>17, <2>1, EndType DEF TimeOut, TypeOK
<1> QED
  BY <1>5, <1>6, <1>7, <1>8, <1>9, <1>10, <1>11, <1>12, <1>13, <1>14, <1>15, <1>16, <1>17
     DEF Work

\* The type invariant, for any number of replicas, goroutines, items, user
\* changes and mishaps: the forced writes of the goroutines included, what is
\* in the API server is always a status.
THEOREM WorkTypeCorrect == Spec => []TypeOK
<1> USE WorkConstants
<1>1. Init => TypeOK
  <2> SUFFICES ASSUME Init PROVE TypeOK
    OBVIOUS
  <2>1. obj \in Object
    BY NoWorkType DEF Init, Object
  <2>2. cache \in [Replicas -> Object] /\ worker \in [Workers -> Goroutine]
    BY <2>1, NoWorkType DEF Init
  <2>3. /\ synced \in [Replicas -> BOOLEAN] /\ queued \in [Replicas -> BOOLEAN]
        /\ active \in [Replicas -> BOOLEAN]
    BY DEF Init
  <2>4. issues \in [Items -> Nat] /\ rows \in [Items -> {"none", "success", "failed"}]
    BY DEF Init
  <2>5. /\ edits \in 0 .. MaxEdits /\ lags \in 0 .. MaxLags /\ mishaps \in 0 .. MaxMishaps
        /\ raced \in Nat
    BY DEF Init, WorkConstants
  <2> QED
    BY <2>1, <2>2, <2>3, <2>4, <2>5 DEF TypeOK
<1>2. TypeOK /\ [Next]_vars => TypeOK'
  <2> SUFFICES ASSUME TypeOK, [Next]_vars PROVE TypeOK'
    OBVIOUS
  <2>1. CASE EditFilters
    <3>1. PICK s \in Specs : Store([obj EXCEPT !.spec = s, !.gen = @ + 1])
      BY <2>1 DEF EditFilters
    <3> DEFINE gen == obj.gen + 1
    <3>5. gen \in Nat
      BY DEF TypeOK, Object
    <3>2. [obj EXCEPT !.spec = s, !.gen = gen] \in Object
      <4> HIDE DEF gen
      <4> QED
        BY <3>5 DEF TypeOK, Object
    <3>3. obj' \in Object /\ synced' \in [Replicas -> BOOLEAN]
      BY <3>1, <3>2, StoreType
    <3>4. edits' \in 0 .. MaxEdits
      BY <2>1 DEF EditFilters, TypeOK, WorkConstants
    <3> QED
      BY <2>1, <3>3, <3>4 DEF EditFilters, TypeOK
  <2>2. CASE Delete
    <3> DEFINE gen == obj.gen + 1
    <3>5. gen \in Nat
      BY DEF TypeOK, Object
    <3>1. [obj EXCEPT !.deleting = TRUE, !.gen = gen, !.exists = obj.fin] \in Object
      <4> HIDE DEF gen
      <4> QED
        BY <3>5 DEF TypeOK, Object
    <3>2. obj' \in Object /\ synced' \in [Replicas -> BOOLEAN]
      BY <2>2, <3>1, StoreType DEF Delete
    <3>3. edits' \in 0 .. MaxEdits
      BY <2>2 DEF Delete, TypeOK, WorkConstants
    <3> QED
      BY <2>2, <3>2, <3>3 DEF Delete, TypeOK
  <2>3. ASSUME NEW r \in Replicas, CacheSync(r) PROVE TypeOK'
    BY <2>3 DEF CacheSync, TypeOK
  <2>4. ASSUME NEW r \in Replicas, Crash(r) PROVE TypeOK'
    <3>1. mishaps' \in 0 .. MaxMishaps
      BY <2>4, MishapsType DEF Crash, Mishap
    <3>2. worker' \in [Workers -> Goroutine]
      BY <2>4, NoWorkType DEF Crash, TypeOK
    <3> QED
      BY <2>4, <3>1, <3>2 DEF Crash, TypeOK
  <2>5. CASE UNCHANGED vars
    BY <2>5 DEF vars, TypeOK
  <2> QED
    BY <2>1, <2>2, <2>3, <2>4, <2>5, ReconcileType, WorkType DEF Next
<1> QED
  BY <1>1, <1>2, PTL DEF Spec

-----------------------------------------------------------------------------
(* Every listed item has its issue.                                        *)

\* What the copies of a goroutine list.
Lists(g) == g.st.items \cup g.done \cup g.item

\* A free goroutine lists nothing.
LEMMA NoWorkLists == Lists(NoWork) = {}
BY DEF Lists, NoWork, NoStatus

\* A write of the reconciler that lists created items only.
LEMMA WriteLists ==
    ASSUME CopiesHaveIssues, NEW r \in Replicas, NEW o, NEW again,
           o.st.items \subseteq Created, Write(r, o, again)
    PROVE  CopiesHaveIssues'
BY DEF CopiesHaveIssues, Write, Store, Refused, Created

\* The same of a write of the status of the copy.
LEMMA WriteStatusLists ==
    ASSUME TypeOK, CopiesHaveIssues, NEW r \in Replicas, NEW s, NEW again,
           s.items \subseteq Created, WriteStatus(r, s, again)
    PROVE  CopiesHaveIssues'
<1>1. [cache[r] EXCEPT !.st = s].st = s
  BY DEF TypeOK, Object
<1> QED
  BY <1>1, WriteLists DEF WriteStatus

\* A handler that writes nothing.
LEMMA ReturnOnlyLists ==
    ASSUME CopiesHaveIssues, NEW r \in Replicas, NEW again, ReturnOnly(r, again)
    PROVE  CopiesHaveIssues'
BY DEF CopiesHaveIssues, ReturnOnly, Created

\* A goroutine starts with empty lists.
LEMMA SpawnLists ==
    ASSUME WorkConstants, TypeOK, CopiesHaveIssues, NEW r \in Replicas, Spawn(r)
    PROVE  \A w \in Workers : Lists(worker'[w]) \subseteq Created
<1>1. PICK v \in Workers :
          worker' = [worker EXCEPT ![v] = [NoWork EXCEPT !.host = r, !.at = "start"]]
  BY DEF Spawn
<1>2. Lists([NoWork EXCEPT !.host = r, !.at = "start"]) = {}
  BY DEF Lists, NoWork, NoStatus
<1>3. \A w \in Workers : Lists(worker[w]) \subseteq Created
  BY DEF CopiesHaveIssues, Lists
<1> QED
  BY <1>1, <1>2, <1>3 DEF TypeOK

\* A goroutine that goes on with lists of created items.
LEMMA GoOnLists ==
    ASSUME TypeOK, NEW C, \A v \in Workers : Lists(worker[v]) \subseteq C,
           NEW w \in Workers, NEW next, Lists(next) \subseteq C, GoOn(w, next)
    PROVE  \A v \in Workers : Lists(worker'[v]) \subseteq C
BY DEF GoOn, TypeOK

\* A goroutine that ends lists nothing any more.
LEMMA EndLists ==
    ASSUME TypeOK, CopiesHaveIssues, NEW w \in Workers, End(w)
    PROVE  \A v \in Workers : Lists(worker'[v]) \subseteq Created
<1>1. \A v \in Workers : Lists(worker[v]) \subseteq Created
  BY DEF CopiesHaveIssues, Lists
<1> QED
  BY <1>1, NoWorkLists DEF End, TypeOK

\* A forced write puts a list of created items over another.
LEMMA ForceStatusLists ==
    ASSUME TypeOK, CopiesHaveIssues, NEW s, s.items \subseteq Created, ForceStatus(s)
    PROVE  obj'.st.items \subseteq Created
<1>1. [obj EXCEPT !.st = s].st = s
  BY DEF TypeOK, Object
<1> QED
  BY <1>1 DEF ForceStatus, Store, CopiesHaveIssues

\* A callback writes the list it has read.
LEMMA CallbackLists ==
    ASSUME TypeOK, CopiesHaveIssues, NEW w \in Workers, NEW items, NEW full,
           Callback(w, items, full)
    PROVE  obj'.st.items \subseteq Created
<1> DEFINE view == cache[Host(w)].st
           told == [view EXCEPT !.full = full, !.retry = @ /\ items = {}]
<1>1. Host(w) \in Replicas /\ view \in Status
  BY DEF TypeOK, Host, Goroutine, Object
<1>2. told.items = view.items
  BY <1>1, Zenon DEF Status
<1>3. view.items \subseteq Created
  BY <1>1 DEF CopiesHaveIssues
<1>4. CASE ForceStatus(told)
  BY <1>2, <1>3, <1>4, ForceStatusLists
<1>5. CASE UNCHANGED <<obj, synced, mishaps>>
  BY <1>5 DEF CopiesHaveIssues
<1> QED
  BY <1>4, <1>5 DEF Callback

\* The invariant from its parts, when no issue and no row is new.
LEMMA ListsKept ==
    ASSUME CopiesHaveIssues, UNCHANGED <<cache, issues, rows>>,
           obj'.st.items \subseteq Created,
           \A w \in Workers : Lists(worker'[w]) \subseteq Created
    PROVE  CopiesHaveIssues'
BY DEF CopiesHaveIssues, Created, Lists

\* A migration that fails keeps the list of its copy.
LEMMA FailToLists ==
    ASSUME TypeOK, CopiesHaveIssues, NEW w \in Workers, NEW s \in Status,
           s.items \subseteq Created, FailTo(w, s)
    PROVE  CopiesHaveIssues'
<1>1. \A t : [s EXCEPT !.phase = "Failed", !.retry = t].items = s.items
  BY DEF Status
<1>2. obj'.st.items \subseteq Created
  BY <1>1, ForceStatusLists DEF FailTo
<1>3. \A v \in Workers : Lists(worker'[v]) \subseteq Created
  BY EndLists DEF FailTo
<1> QED
  BY <1>2, <1>3, ListsKept DEF FailTo

\* Each handler of Reconcile writes the list of its copy.
LEMMA ReconcileLists ==
    ASSUME WorkConstants, TypeOK, CopiesHaveIssues, NEW r \in Replicas, Reconcile(r)
    PROVE  CopiesHaveIssues'
<1> DEFINE o == cache[r]
           seen == Observed(o)
<1>1. o \in Object /\ o.st.items \subseteq Created
  BY DEF TypeOK, CopiesHaveIssues
<1>2. seen \in Status /\ seen.items = o.st.items
  BY <1>1, ObservedType DEF Observed, Object, Status
<1>3. \A w \in Workers : Lists(worker[w]) \subseteq Created
  BY DEF CopiesHaveIssues, Lists
<1>4. CASE \/ NotFound(r) \/ StillRunning(r) \/ RunningFull(r) \/ StayTerminal(r)
  BY <1>4, ReturnOnlyLists DEF NotFound, StillRunning, RunningFull, StayTerminal
<1>5. CASE RestartForSpecChange(r)
  <2>1. [seen EXCEPT !.phase = "Pending", !.retry = FALSE].items = seen.items
    BY <1>2 DEF Status
  <2> QED
    BY <1>1, <1>2, <1>5, <2>1, WriteStatusLists DEF RestartForSpecChange
<1>6. CASE AddFinalizer(r)
  <2>1. [o EXCEPT !.fin = TRUE].st = o.st
    BY <1>1 DEF Object
  <2> QED
    BY <1>1, <1>6, <2>1, WriteLists DEF AddFinalizer
<1>7. CASE RemoveFinalizer(r)
  <2>1. [o EXCEPT !.fin = FALSE, !.exists = FALSE].st = o.st
    BY <1>1 DEF Object
  <2> QED
    BY <1>1, <1>7, <2>1, WriteLists, ReturnOnlyLists DEF RemoveFinalizer
<1>8. CASE InitializeStatus(r)
  <2>1. [seen EXCEPT !.phase = "Pending", !.full = FALSE].items = seen.items
    BY <1>2 DEF Status
  <2> QED
    BY <1>1, <1>2, <1>8, <2>1, WriteStatusLists DEF InitializeStatus
<1>9. CASE ProcessPending(r)
  <2>1. [seen EXCEPT !.phase = "Validating"].items = seen.items
    BY <1>2 DEF Status
  <2> QED
    BY <1>1, <1>2, <1>9, <2>1, WriteStatusLists DEF ProcessPending
<1>10. CASE ValidationFails(r)
  <2>1. [seen EXCEPT !.retry = FALSE].items = seen.items
    BY <1>2 DEF Status
  <2>2. \A t : [seen EXCEPT !.phase = "Failed", !.retry = t].items = seen.items
    BY <1>2 DEF Status
  <2> QED
    BY <1>1, <1>2, <1>10, <2>1, <2>2, WriteStatusLists DEF ValidationFails
<1>11. CASE ValidationPasses(r)
  <2> DEFINE next == [seen EXCEPT !.phase = "Running", !.retry = FALSE]
  <2>1. next.items = seen.items
    BY <1>2 DEF Status
  <2>2. obj' = [o EXCEPT !.st = next]
    BY <1>11 DEF ValidationPasses, Store
  <2>3. obj'.st = next
    BY <1>1, <2>2 DEF Object
  <2>4. \A w \in Workers : Lists(worker'[w]) \subseteq Created
    BY <1>11, SpawnLists DEF ValidationPasses
  <2> QED
    BY <1>1, <1>2, <1>11, <2>1, <2>3, <2>4, ListsKept DEF ValidationPasses
<1>12. CASE Resume(r)
  <2>2. obj'.st.items \subseteq Created
    BY <1>1, <1>12 DEF Resume, Store, Refused, CopiesHaveIssues
  <2>3. \A w \in Workers : Lists(worker'[w]) \subseteq Created
    BY <1>12, SpawnLists DEF Resume
  <2> QED
    BY <1>12, <2>2, <2>3, ListsKept DEF Resume
<1>13. CASE RetryValidation(r)
  <2>1. [seen EXCEPT !.phase = "Validating", !.retry = FALSE].items = seen.items
    BY <1>2 DEF Status
  <2> QED
    BY <1>1, <1>2, <1>13, <2>1, WriteStatusLists DEF RetryValidation
<1> QED
  BY <1>4, <1>5, <1>6, <1>7, <1>8, <1>9, <1>10, <1>11, <1>12, <1>13 DEF Reconcile

\* Each step of a goroutine lists only what it or another run has created.
LEMMA WorkLists ==
    ASSUME WorkConstants, TypeOK, CopiesHaveIssues, NEW w \in Workers, Work(w)
    PROVE  CopiesHaveIssues'
<1> DEFINE me == worker[w]
           view == cache[Host(w)]
<1>1. /\ me \in Goroutine /\ view \in Object /\ me.st \in Status /\ view.st \in Status
      /\ Host(w) \in Replicas
  BY DEF TypeOK, Host, Goroutine, Object
<1>2. /\ view.st.items \subseteq Created /\ me.st.items \subseteq Created
      /\ me.done \subseteq Created /\ me.item \subseteq Created
      /\ obj.st.items \subseteq Created
  BY <1>1 DEF CopiesHaveIssues
<1>3. \A v \in Workers : Lists(worker[v]) \subseteq Created
  BY DEF CopiesHaveIssues, Lists
<1>4. CASE Start(w)
  <2>1. CASE FailTo(w, view.st)
    BY <1>1, <1>2, <2>1, FailToLists
  <2>2. ASSUME ForceStatus(view.st), UNCHANGED <<cache, queued, issues, rows, raced, edits>>,
               NEW s,
               GoOn(w, [me EXCEPT !.at = "connect", !.st = view.st, !.spec = s,
                               !.todo = s \ view.st.items,
                               !.done = IF s = {} THEN {} ELSE view.st.items])
        PROVE  CopiesHaveIssues'
    <3> DEFINE done == IF s = {} THEN {} ELSE view.st.items
               todo == s \ view.st.items
               next == [me EXCEPT !.at = "connect", !.st = view.st, !.spec = s,
                                  !.todo = todo, !.done = done]
    <3>1. done \subseteq Created
      BY <1>2
    <3>2. next.st = view.st /\ next.done = done /\ next.item = me.item
      <4> HIDE DEF done, todo, me, view
      <4> QED
        BY <1>1 DEF Goroutine
    <3>3. Lists(next) \subseteq Created
      BY <1>2, <3>1, <3>2 DEF Lists
    <3>4. \A v \in Workers : Lists(worker'[v]) \subseteq Created
      BY <1>3, <2>2, <3>3, GoOnLists
    <3>5. obj'.st.items \subseteq Created
      BY <1>2, <2>2, ForceStatusLists
    <3> QED
      BY <2>2, <3>4, <3>5, ListsKept
  <2> QED
    BY <1>4, <2>1, <2>2 DEF Start
<1>5. CASE StartGone(w)
  <2>1. \A v \in Workers : Lists(worker'[v]) \subseteq Created
    BY <1>5, EndLists DEF StartGone
  <2> QED
    BY <1>2, <1>5, <2>1, ListsKept DEF StartGone
<1>6. CASE Connect(w)
  <2>1. Lists([me EXCEPT !.at = "work"]) = Lists(me)
    BY <1>1 DEF Lists, Goroutine
  <2>2. \A v \in Workers : Lists(worker'[v]) \subseteq Created
    BY <1>3, <1>6, <2>1, GoOnLists DEF Connect
  <2>3. obj'.st.items \subseteq Created
    BY <1>6, CallbackLists DEF Connect
  <2> QED
    BY <1>6, <2>2, <2>3, ListsKept DEF Connect
<1>7. CASE ServiceFails(w)
  BY <1>1, <1>2, <1>7, FailToLists DEF ServiceFails
<1>8. CASE Report(w)
  <2>1. obj'.st.items \subseteq Created
    BY <1>8, CallbackLists DEF Report
  <2> QED
    BY <1>3, <1>8, <2>1, ListsKept DEF Report
<1>9. CASE SkipRecorded(w)
  <2>1. \A i : Lists([me EXCEPT !.todo = @ \ {i}]) = Lists(me)
    BY <1>1 DEF Lists, Goroutine
  <2>2. \A v \in Workers : Lists(worker'[v]) \subseteq Created
    BY <1>3, <1>9, <2>1, GoOnLists DEF SkipRecorded
  <2> QED
    BY <1>2, <1>9, <2>2, ListsKept DEF SkipRecorded
<1>10. CASE CreateIssue(w)
  <2>1. PICK i \in me.todo :
          /\ issues' = [issues EXCEPT ![i] = @ + 1]
          /\ GoOn(w, [me EXCEPT !.at = "record", !.item = {i}, !.todo = @ \ {i}])
    BY <1>10 DEF CreateIssue
  <2> DEFINE left == me.todo \ {i}
             next == [me EXCEPT !.at = "record", !.item = {i}, !.todo = left]
  <2>2. i \in Items
    BY <1>1 DEF Goroutine
  <2>3. Created \subseteq Created' /\ i \in Created'
    BY <2>1, <2>2 DEF Created, TypeOK
  <2>4. next.st = me.st /\ next.done = me.done /\ next.item = {i}
    <3> HIDE DEF left, me
    <3> QED
      BY <1>1 DEF Goroutine
  <2>5. Lists(next) \subseteq Created'
    BY <1>2, <2>3, <2>4 DEF Lists
  <2>6. \A v \in Workers : Lists(worker[v]) \subseteq Created'
    BY <1>3, <2>3
  <2>7. \A v \in Workers : Lists(worker'[v]) \subseteq Created'
    BY <2>1, <2>5, <2>6, GoOnLists
  <2> QED
    BY <1>10, <2>3, <2>7 DEF CreateIssue, CopiesHaveIssues, Lists
<1>11. CASE CreateFails(w)
  <2>1. PICK i \in me.todo :
          /\ issues' \in {issues, [issues EXCEPT ![i] = @ + 1]}
          /\ rows' = IF Tracked THEN [rows EXCEPT ![i] = "failed"] ELSE rows
          /\ GoOn(w, [me EXCEPT !.todo = @ \ {i}])
    BY <1>11 DEF CreateFails
  <2> DEFINE left == me.todo \ {i}
             next == [me EXCEPT !.todo = left]
  <2>2. i \in Items
    BY <1>1 DEF Goroutine
  <2>3. Created \subseteq Created'
    BY <2>1, <2>2 DEF Created, TypeOK
  <2>4. next.st = me.st /\ next.done = me.done /\ next.item = me.item
    <3> HIDE DEF left, me
    <3> QED
      BY <1>1 DEF Goroutine
  <2>5. Lists(next) \subseteq Created'
    BY <1>2, <2>3, <2>4 DEF Lists
  <2>6. \A v \in Workers : Lists(worker[v]) \subseteq Created'
    BY <1>3, <2>3
  <2>7. \A v \in Workers : Lists(worker'[v]) \subseteq Created'
    BY <2>1, <2>5, <2>6, GoOnLists
  <2>8. \A j \in Items : rows'[j] = "success" => rows[j] = "success"
    BY <2>1, <2>2 DEF TypeOK
  <2> QED
    BY <1>11, <2>3, <2>7, <2>8 DEF CreateFails, CopiesHaveIssues, Lists
<1>12. CASE RecordItem(w)
  <2> DEFINE done == me.done \cup me.item
             next == [me EXCEPT !.at = "work", !.done = done, !.item = {}]
  <2>1. next.st = me.st /\ next.done = done /\ next.item = {}
    <3> HIDE DEF done, me
    <3> QED
      BY <1>1 DEF Goroutine
  <2>2. Lists(next) \subseteq Created
    BY <1>2, <2>1 DEF Lists
  <2>3. GoOn(w, next)
    BY <1>12 DEF RecordItem
  <2>4. \A v \in Workers : Lists(worker'[v]) \subseteq Created
    BY <1>3, <2>2, <2>3, GoOnLists
  <2>5. \A i \in Items : rows'[i] = "success" => rows[i] = "success" \/ i \in me.item
    BY <1>12 DEF RecordItem
  <2> QED
    BY <1>2, <1>12, <2>4, <2>5 DEF RecordItem, CopiesHaveIssues, Lists, Created
<1>13. CASE FinishItems(w)
  <2>1. Lists([me EXCEPT !.at = "project"]) = Lists(me)
    BY <1>1 DEF Lists, Goroutine
  <2>2. \A v \in Workers : Lists(worker'[v]) \subseteq Created
    BY <1>3, <1>13, <2>1, GoOnLists DEF FinishItems
  <2>3. obj'.st.items \subseteq Created
    BY <1>2, <1>13, CallbackLists DEF FinishItems, NoCallback
  <2> QED
    BY <1>13, <2>2, <2>3, ListsKept DEF FinishItems
<1>14. CASE AddToProject(w)
  <2>1. Lists([me EXCEPT !.at = "final"]) = Lists(me)
    BY <1>1 DEF Lists, Goroutine
  <2>2. \A v \in Workers : Lists(worker'[v]) \subseteq Created
    BY <1>3, <1>14, <2>1, GoOnLists DEF AddToProject
  <2>3. obj'.st.items \subseteq Created
    BY <1>2, <1>14, ForceStatusLists DEF AddToProject
  <2> QED
    BY <1>14, <2>2, <2>3, ListsKept DEF AddToProject
<1>15. CASE Complete(w)
  <2>1. CompletedStatus(w).items = me.done
    BY <1>1 DEF CompletedStatus, Status
  <2>2. obj'.st.items \subseteq Created
    BY <1>2, <1>15, <2>1, ForceStatusLists DEF Complete
  <2>3. \A v \in Workers : Lists(worker'[v]) \subseteq Created
    BY <1>15, EndLists DEF Complete
  <2> QED
    BY <1>15, <2>2, <2>3, ListsKept DEF Complete
<1>16. CASE TimeOut(w)
  <2>1. \A v \in Workers : Lists(worker'[v]) \subseteq Created
    BY <1>16, EndLists DEF TimeOut
  <2> QED
    BY <1>2, <1>16, <2>1, ListsKept DEF TimeOut
<1> QED
  BY <1>4, <1>5, <1>6, <1>7, <1>8, <1>9, <1>10, <1>11, <1>12, <1>13, <1>14, <1>15, <1>16
     DEF Work

\* No copy of the list of migrated items, and no success row, names an item
\* without an issue, whichever stale copy is written over which status by how
\* many replicas and goroutines, and whatever crashes or is lost.
THEOREM WorkCopies == Spec => []CopiesHaveIssues
<1> USE WorkConstants
<1>1. Init => CopiesHaveIssues
  <2> SUFFICES ASSUME Init PROVE CopiesHaveIssues
    OBVIOUS
  <2>1. obj.st.items = {}
    <3>1. obj.st = NoStatus
      BY DEF Init
    <3>2. NoStatus.items = {}
      BY DEF NoStatus
    <3> QED
      BY <3>1, <3>2
  <2>2. \A r \in Replicas : cache[r] = obj
    BY DEF Init
  <2>3. \A w \in Workers : Lists(worker[w]) = {}
    BY NoWorkLists DEF Init
  <2>4. \A i \in Items : rows[i] # "success"
    BY DEF Init
  <2> QED
    BY <2>1, <2>2, <2>3, <2>4 DEF CopiesHaveIssues, Lists
<1>2. TypeOK /\ CopiesHaveIssues /\ [Next]_vars => CopiesHaveIssues'
  <2> SUFFICES ASSUME TypeOK, CopiesHaveIssues, [Next]_vars PROVE CopiesHaveIssues'
    OBVIOUS
  <2>1. CASE EditFilters
    <3>1. obj'.st = obj.st
      BY <2>1 DEF EditFilters, Store, TypeOK, Object
    <3> QED
      BY <2>1, <3>1 DEF EditFilters, CopiesHaveIssues, Created
  <2>2. CASE Delete
    <3>1. obj'.st = obj.st
      BY <2>2 DEF Delete, Store, TypeOK, Object
    <3> QED
      BY <2>2, <3>1 DEF Delete, CopiesHaveIssues, Created
  <2>3. ASSUME NEW r \in Replicas, CacheSync(r) PROVE CopiesHaveIssues'
    BY <2>3 DEF CacheSync, CopiesHaveIssues, Created, TypeOK
  <2>4. ASSUME NEW r \in Replicas, Crash(r) PROVE CopiesHaveIssues'
    <3>1. \A w \in Workers : Lists(worker'[w]) \subseteq Created
      BY <2>4, NoWorkLists DEF Crash, CopiesHaveIssues, Lists
    <3> QED
      BY <2>4, <3>1 DEF Crash, CopiesHaveIssues, Created, TypeOK, Lists
  <2>5. CASE UNCHANGED vars
    BY <2>5 DEF vars, CopiesHaveIssues, Created
  <2> QED
    BY <2>1, <2>2, <2>3, <2>4, <2>5, ReconcileLists, WorkLists DEF Next
<1> QED
  BY <1>1, <1>2, WorkTypeCorrect, PTL DEF Spec

-----------------------------------------------------------------------------
(* What a step does to the object, to the goroutines and to GitHub.        *)

\* The goroutine w has read the status it works with.
Past(w) == worker[w].at \notin {"free", "start"}

\* What every write of the reconciler keeps of its copy.
Continues(o, p) ==
    /\ p.gen = o.gen /\ p.spec = o.spec /\ p.st.items = o.st.items
    /\ p.st.obs \in {o.st.obs, o.gen}
    /\ o.st.phase = "Running" => p.st.phase = "Running"
    /\ p.st.phase = "Completed" => p.st = o.st

\* The write of a reconcile, if it lands.
Writes(r) ==
    \/ UNCHANGED <<obj, synced>>
    \/ /\ synced[r] /\ synced' = [q \in Replicas |-> FALSE]
       /\ Continues(cache[r], obj')

\* A new status in the copy.
LEMMA StatusContinues ==
    ASSUME NEW o \in Object, NEW s \in Status, s.items = o.st.items, s.obs \in {o.st.obs, o.gen},
           o.st.phase = "Running" => s.phase = "Running", s.phase # "Completed"
    PROVE  Continues(o, [o EXCEPT !.st = s])
BY DEF Continues, Object

\* Mishaps are counted, never forgotten.
LEMMA MishapsGrow ==
    ASSUME TypeOK, NEW n \in Nat, Mishaps(n)
    PROVE  mishaps' = mishaps + n /\ mishaps <= mishaps'
BY DEF TypeOK, Mishaps

LEMMA RefusedGrows ==
    ASSUME TypeOK, NEW r \in Replicas, Refused(r)
    PROVE  mishaps <= mishaps'
<1>1. mishaps \in Nat
  BY DEF TypeOK
<1> QED
  BY <1>1, MishapsGrow DEF Refused, Mishap

LEMMA WriteEffect ==
    ASSUME TypeOK, NEW r \in Replicas, NEW o, NEW again, Write(r, o, again),
           Continues(cache[r], o)
    PROVE  /\ UNCHANGED <<cache, issues, rows, raced, worker, active>> /\ mishaps <= mishaps'
           /\ Writes(r)
<1>1. mishaps \in Nat
  BY DEF TypeOK
<1> QED
  BY <1>1, RefusedGrows DEF Write, Store, Refused, Writes

\* A reconcile keeps the generation, the filter and the list of its copy, never leaves Running
\* and never writes Completed; it starts a goroutine for Running only.
LEMMA ReconcileEffect ==
    ASSUME WorkConstants, TypeOK, NEW r \in Replicas, Reconcile(r)
    PROVE  /\ UNCHANGED <<cache, issues, rows, raced>> /\ mishaps <= mishaps' /\ Taken(r)
           /\ Writes(r)
           /\ \/ UNCHANGED <<worker, active>>
              \/ Spawn(r) /\ cache[r].st.phase = "Validating" /\ obj'.st.phase = "Running"
              \/ Spawn(r) /\ cache[r].st.phase = "Running" /\ ~active[r]
<1> DEFINE o == cache[r]
           seen == Observed(o)
<1>1. o \in Object /\ o.st \in Status /\ mishaps \in Nat
  BY DEF TypeOK, Object
<1>2. /\ seen \in Status /\ seen.items = o.st.items /\ seen.obs = o.gen
      /\ seen.phase = o.st.phase
  BY <1>1, ObservedType DEF Observed, Status
<1>3. Taken(r)
  BY DEF Reconcile, NotFound, RestartForSpecChange, AddFinalizer, RemoveFinalizer,
         InitializeStatus, ProcessPending, ValidationFails, ValidationPasses, StillRunning,
         Resume, RunningFull, RetryValidation, StayTerminal
<1>4. ASSUME NEW again, ReturnOnly(r, again)
      PROVE  /\ UNCHANGED <<cache, issues, rows, raced, worker, active>> /\ mishaps <= mishaps'
             /\ Writes(r)
  BY <1>1, <1>4 DEF ReturnOnly, Writes
<1>5. ASSUME NEW s \in Status, NEW again, WriteStatus(r, s, again), s.items = o.st.items,
             s.obs = o.gen, o.st.phase # "Running", s.phase # "Completed"
      PROVE  /\ UNCHANGED <<cache, issues, rows, raced, worker, active>> /\ mishaps <= mishaps'
             /\ Writes(r)
  <2>1. Continues(o, [o EXCEPT !.st = s])
    BY <1>1, <1>5, StatusContinues
  <2> QED
    BY <1>5, <2>1, WriteEffect DEF WriteStatus
<1> HIDE DEF seen
<1>6. CASE NotFound(r) \/ StillRunning(r) \/ RunningFull(r) \/ StayTerminal(r)
  BY <1>3, <1>4, <1>6 DEF NotFound, StillRunning, RunningFull, StayTerminal
<1>7. CASE RestartForSpecChange(r)
  <2> DEFINE s == [seen EXCEPT !.phase = "Pending", !.retry = FALSE]
  <2>1. s \in Status /\ s.items = seen.items /\ s.obs = seen.obs /\ s.phase = "Pending"
    BY <1>2 DEF Status, Phases
  <2>2. WriteStatus(r, s, TRUE) /\ o.st.phase # "Running"
    BY <1>7 DEF RestartForSpecChange, Restarts, Terminal, seen
  <2> HIDE DEF s
  <2> QED
    BY <1>2, <1>3, <1>5, <2>1, <2>2
<1>8. CASE AddFinalizer(r)
  <2>1. Continues(o, [o EXCEPT !.fin = TRUE])
    BY <1>1 DEF Continues, Object
  <2> QED
    BY <1>3, <1>8, <2>1, WriteEffect DEF AddFinalizer
<1>9. CASE RemoveFinalizer(r)
  <2>1. Continues(o, [o EXCEPT !.fin = FALSE, !.exists = FALSE])
    BY <1>1 DEF Continues, Object
  <2> QED
    BY <1>3, <1>4, <1>9, <2>1, WriteEffect DEF RemoveFinalizer
<1>10. CASE InitializeStatus(r)
  <2> DEFINE s == [seen EXCEPT !.phase = "Pending", !.full = FALSE]
  <2>1. s \in Status /\ s.items = seen.items /\ s.obs = seen.obs /\ s.phase = "Pending"
    BY <1>2 DEF Status, Phases
  <2>2. WriteStatus(r, s, TRUE) /\ o.st.phase # "Running"
    BY <1>10 DEF InitializeStatus, InPhase, seen
  <2> HIDE DEF s
  <2> QED
    BY <1>2, <1>3, <1>5, <2>1, <2>2
<1>11. CASE ProcessPending(r)
  <2> DEFINE s == [seen EXCEPT !.phase = "Validating"]
  <2>1. s \in Status /\ s.items = seen.items /\ s.obs = seen.obs /\ s.phase = "Validating"
    BY <1>2 DEF Status, Phases
  <2>2. WriteStatus(r, s, TRUE) /\ o.st.phase # "Running"
    BY <1>11 DEF ProcessPending, InPhase, seen
  <2> HIDE DEF s
  <2> QED
    BY <1>2, <1>3, <1>5, <2>1, <2>2
<1>12. CASE ValidationFails(r)
  <2>0. o.st.phase = "Validating"
    BY <1>12 DEF ValidationFails, InPhase
  <2>1. CASE WriteStatus(r, [seen EXCEPT !.retry = FALSE], TRUE)
    <3> DEFINE s == [seen EXCEPT !.retry = FALSE]
    <3>1. s \in Status /\ s.items = seen.items /\ s.obs = seen.obs /\ s.phase = seen.phase
      BY <1>2 DEF Status
    <3>2. WriteStatus(r, s, TRUE)
      BY <2>1
    <3> HIDE DEF s
    <3> QED
      BY <1>2, <1>3, <1>5, <2>0, <3>1, <3>2
  <2>2. ASSUME NEW transient \in BOOLEAN,
               WriteStatus(r, [seen EXCEPT !.phase = "Failed", !.retry = transient], FALSE)
        PROVE  /\ UNCHANGED <<cache, issues, rows, raced, worker, active>> /\ mishaps <= mishaps'
               /\ Writes(r)
    <3> DEFINE s == [seen EXCEPT !.phase = "Failed", !.retry = transient]
    <3>1. s \in Status /\ s.items = seen.items /\ s.obs = seen.obs /\ s.phase = "Failed"
      BY <1>2 DEF Status, Phases
    <3>2. WriteStatus(r, s, FALSE)
      BY <2>2
    <3> HIDE DEF s
    <3> QED
      BY <1>2, <1>3, <1>5, <2>0, <3>1, <3>2
  <2> QED
    BY <1>3, <1>12, <2>1, <2>2 DEF ValidationFails, seen
<1>13. CASE ValidationPasses(r)
  <2> DEFINE s == [seen EXCEPT !.phase = "Running", !.retry = FALSE]
  <2>1. s \in Status /\ s.items = seen.items /\ s.obs = seen.obs /\ s.phase = "Running"
    BY <1>2 DEF Status, Phases
  <2>2. /\ synced[r] /\ Store([o EXCEPT !.st = s]) /\ Spawn(r) /\ o.st.phase = "Validating"
        /\ UNCHANGED <<cache, queued, issues, rows, raced, edits, mishaps>>
    BY <1>13 DEF ValidationPasses, InPhase, seen
  <2> HIDE DEF s
  <2>3. Continues(o, [o EXCEPT !.st = s]) /\ [o EXCEPT !.st = s].st = s
    BY <1>1, <1>2, <2>1, StatusContinues DEF Object
  <2> QED
    BY <1>1, <1>3, <2>1, <2>2, <2>3 DEF Store, Writes
<1>14. CASE Resume(r)
  <2>1. /\ Spawn(r) /\ o.st.phase = "Running" /\ ~active[r]
        /\ UNCHANGED <<cache, issues, rows, raced>>
        /\ \/ synced[r] /\ Store(o) /\ UNCHANGED mishaps
           \/ Refused(r)
    BY <1>14 DEF Resume, InPhase
  <2>2. Continues(o, o)
    BY <1>1 DEF Continues
  <2>3. Writes(r) /\ mishaps <= mishaps'
    BY <1>1, <2>1, <2>2, RefusedGrows DEF Store, Writes, Refused
  <2> QED
    BY <1>3, <2>1, <2>3
<1>15. CASE RetryValidation(r)
  <2> DEFINE s == [seen EXCEPT !.phase = "Validating", !.retry = FALSE]
  <2>1. s \in Status /\ s.items = seen.items /\ s.obs = seen.obs /\ s.phase = "Validating"
    BY <1>2 DEF Status, Phases
  <2>2. WriteStatus(r, s, TRUE) /\ o.st.phase # "Running"
    BY <1>15 DEF RetryValidation, InPhase, seen
  <2> HIDE DEF s
  <2> QED
    BY <1>2, <1>3, <1>5, <2>1, <2>2
<1> QED
  BY <1>6, <1>7, <1>8, <1>9, <1>10, <1>11, <1>12, <1>13, <1>14, <1>15 DEF Reconcile

\* The status s is put over the object.
Overwrites(s) ==
    /\ obj'.gen = obj.gen /\ obj'.spec = obj.spec
    /\ obj'.st.items = s.items /\ obj'.st.obs = s.obs /\ obj'.st.phase = s.phase
    /\ synced' = [q \in Replicas |-> FALSE]

\* The copy s, failed, is put over the object, and the goroutine ends.
Fails(w, s) == Overwrites([s EXCEPT !.phase = "Failed"]) /\ End(w)

LEMMA ForceEffect ==
    ASSUME TypeOK, NEW s \in Status, ForceStatus(s)
    PROVE  mishaps <= mishaps' /\ (UNCHANGED <<obj, synced>> \/ Overwrites(s))
<1> DEFINE o == [obj EXCEPT !.st = s]
<1>1. o.st = s /\ o.gen = obj.gen /\ o.spec = obj.spec
  BY DEF TypeOK, Object
<1>2. mishaps \in Nat
  BY DEF TypeOK
<1>3. CASE Store(o) /\ UNCHANGED mishaps
  <2> HIDE DEF o
  <2> QED
    BY <1>1, <1>2, <1>3 DEF Store, Overwrites
<1>4. CASE UNCHANGED <<obj, synced, mishaps>>
  BY <1>2, <1>4
<1>5. CASE Mishap /\ UNCHANGED <<obj, synced>>
  BY <1>2, <1>5, MishapsGrow DEF Mishap
<1> QED
  BY <1>3, <1>4, <1>5 DEF ForceStatus

\* A callback writes what it has read, but for the progress.
LEMMA CallbackEffect ==
    ASSUME TypeOK, NEW w \in Workers, NEW items, NEW full \in BOOLEAN, Callback(w, items, full)
    PROVE  /\ mishaps <= mishaps'
           /\ UNCHANGED <<obj, synced>> \/ Overwrites(cache[Host(w)].st)
<1> DEFINE view == cache[Host(w)].st
           told == [view EXCEPT !.full = full, !.retry = @ /\ items = {}]
<1>1. view \in Status /\ mishaps \in Nat
  BY DEF TypeOK, Host, Goroutine, Object
<1>2. told \in Status
  <2>1. (view.retry /\ items = {}) \in BOOLEAN
    OBVIOUS
  <2> QED
    BY <1>1, <2>1 DEF Status
<1>3. told.items = view.items /\ told.obs = view.obs /\ told.phase = view.phase
  BY <1>1, Zenon DEF Status
<1>4. CASE ForceStatus(told)
  <2>1. mishaps <= mishaps' /\ (UNCHANGED <<obj, synced>> \/ Overwrites(told))
    BY <1>2, <1>4, ForceEffect
  <2> HIDE DEF told
  <2> QED
    BY <1>3, <2>1 DEF Overwrites, Callback
<1>5. CASE UNCHANGED <<obj, synced, mishaps>>
  BY <1>1, <1>5 DEF Callback
<1> QED
  BY <1>4, <1>5 DEF Callback

LEMMA FailToEffect ==
    ASSUME TypeOK, NEW w \in Workers, NEW s \in Status, FailTo(w, s)
    PROVE  /\ mishaps <= mishaps' /\ End(w)
           /\ UNCHANGED <<cache, issues, rows, raced>>
           /\ UNCHANGED <<obj, synced>> \/ Fails(w, s)
<1>1. PICK transient \in BOOLEAN :
          ForceStatus([s EXCEPT !.phase = "Failed", !.retry = transient])
  BY DEF FailTo
<1> DEFINE f == [s EXCEPT !.phase = "Failed"]
           t == [f EXCEPT !.retry = transient]
<1>2. f \in Status
  BY DEF Status, Phases
<1>3. t \in Status /\ t.items = f.items /\ t.obs = f.obs /\ t.phase = f.phase
  BY <1>2 DEF Status
<1>4. t = [s EXCEPT !.phase = "Failed", !.retry = transient]
  BY DEF Status
<1>5. ForceStatus(t) /\ End(w) /\ UNCHANGED <<cache, issues, rows, raced>>
  BY <1>1, <1>4, Zenon DEF FailTo
<1> HIDE DEF t
<1> QED
  BY <1>3, <1>5, ForceEffect DEF Fails, Overwrites

\* What a step of w may write over the object: what it has read, the status of its start, the
\* failure or the result.
Forces(w) ==
    \/ UNCHANGED <<obj, synced>>
    \/ Overwrites(cache[Host(w)].st)
    \/ Past(w) /\ Overwrites(worker[w].st)
    \/ Fails(w, cache[Host(w)].st)
    \/ Past(w) /\ Fails(w, worker[w].st)
    \/ worker[w].at = "final" /\ Overwrites(CompletedStatus(w)) /\ End(w)

\* The goroutine ends; an item at hand is lost to a mishap.
Ended(w) ==
    /\ End(w) /\ UNCHANGED <<issues, rows, raced>>
    /\ worker[w].at = "record" => mishaps' = mishaps + 1

\* It begins with what it has read.
Begun(w, g) ==
    LET view == cache[Host(w)] IN
    /\ worker[w].at = "start" /\ g.at = "connect"
    /\ g.st = view.st /\ g.spec \in {obj.spec, view.spec}
    /\ g.todo = g.spec \ view.st.items /\ g.item = worker[w].item
    /\ UNCHANGED <<issues, rows, raced>>

\* It keeps what it has read.
Same(w, g) ==
    Past(w) /\ g.at \notin {"free", "start"} /\ g.st = worker[w].st /\ g.spec = worker[w].spec

\* It goes on, without the items that have a row.
Advanced(w, g) ==
    /\ Same(w, g) /\ g.item = worker[w].item /\ g.done = worker[w].done
    /\ g.todo \subseteq worker[w].todo
    /\ \A i \in worker[w].todo \ g.todo : rows[i] = "success"
    /\ g.at \in {"project", "final"} => g.todo = {} \/ worker[w].at \in {"project", "final"}
    /\ worker[w].at = "record" <=> g.at = "record"
    /\ UNCHANGED <<issues, rows, raced>>

\* It creates an issue for the item i.
Issued(w, g, i) ==
    /\ worker[w].at = "work" /\ Same(w, g) /\ i \in worker[w].todo
    /\ g.at = "record" /\ g.item = {i} /\ g.todo = worker[w].todo \ {i} /\ g.done = worker[w].done
    /\ mishaps' = mishaps + Unseen(i) /\ issues' = [issues EXCEPT ![i] = @ + 1] /\ UNCHANGED rows
    /\ CountRace(w, i)

\* The creation fails, or seems to.
Missed(w, g, i) ==
    /\ worker[w].at = "work" /\ Same(w, g) /\ i \in worker[w].todo
    /\ g.at = "work" /\ g.item = worker[w].item /\ g.todo = worker[w].todo \ {i}
    /\ g.done = worker[w].done
    /\ mishaps' = mishaps + 1 + Unseen(i)
    /\ issues' = issues \/ issues' = [issues EXCEPT ![i] = @ + 1]
    /\ rows' = IF Tracked THEN [rows EXCEPT ![i] = "failed"] ELSE rows
    /\ UNCHANGED raced

\* The item at hand joins the result.
Recorded(w, g) ==
    LET me == worker[w] IN
    /\ me.at = "record" /\ Same(w, g)
    /\ g.at = "work" /\ g.item = {} /\ g.todo = me.todo /\ g.done = me.done \cup me.item
    /\ UNCHANGED <<issues, raced>>
    /\ \/ rows' = [i \in Items |-> IF Tracked /\ i \in me.item THEN "success" ELSE rows[i]]
       \/ mishaps' = mishaps + 1 /\ UNCHANGED rows

Moves(w, g) ==
    \/ Begun(w, g) \/ Advanced(w, g) \/ Recorded(w, g)
    \/ \E i \in Items : Issued(w, g, i) \/ Missed(w, g, i)

\* What a step of a goroutine does to the object, to itself and to GitHub.
LEMMA WorkEffect ==
    ASSUME WorkConstants, TypeOK, NEW w \in Workers, Work(w)
    PROVE  /\ cache' = cache /\ mishaps <= mishaps' /\ worker[w].at # "free" /\ Forces(w)
           /\ \/ Ended(w)
              \/ \E g \in Goroutine : GoOn(w, g) /\ g.host = worker[w].host /\ Moves(w, g)
<1> DEFINE me == worker[w]
           view == cache[Host(w)]
<1>1. /\ me \in Goroutine /\ view \in Object /\ me.st \in Status /\ view.st \in Status
      /\ view.st.items \in SUBSET Items /\ mishaps \in Nat
      /\ obj.spec \in SUBSET Items /\ view.spec \in SUBSET Items
  BY DEF TypeOK, Host, Goroutine, Object, Status, WorkConstants
<1>3. [worker EXCEPT ![w] = me] = worker
  BY DEF TypeOK
<1>4. CASE Start(w)
  <2>0. me.at = "start"
    BY <1>4 DEF Start
  <2>1. CASE FailTo(w, view.st)
    BY <1>1, <2>0, <2>1, FailToEffect DEF Forces, Ended
  <2>2. ASSUME ForceStatus(view.st), UNCHANGED <<cache, queued, issues, rows, raced, edits>>,
               NEW s \in {obj.spec, view.spec},
               GoOn(w, [me EXCEPT !.at = "connect", !.st = view.st, !.spec = s,
                               !.todo = s \ view.st.items,
                               !.done = IF s = {} THEN {} ELSE view.st.items])
        PROVE  /\ cache' = cache /\ mishaps <= mishaps' /\ Forces(w)
               /\ \E g \in Goroutine : GoOn(w, g) /\ g.host = me.host /\ Moves(w, g)
    <3> DEFINE done == IF s = {} THEN {} ELSE view.st.items
               todo == s \ view.st.items
               g == [me EXCEPT !.at = "connect", !.st = view.st, !.spec = s,
                               !.todo = todo, !.done = done]
    <3>1. done \in SUBSET Items /\ todo \in SUBSET Items /\ s \in SUBSET Items
          /\ todo = s \ view.st.items
      BY <1>1
    <3>2. GoOn(w, g)
      BY <2>2
    <3> HIDE DEF done, todo
    <3>3. /\ g \in Goroutine /\ g.at = "connect" /\ g.st = view.st /\ g.spec = s
          /\ g.todo = todo /\ g.done = done /\ g.item = me.item /\ g.host = me.host
      <4> HIDE DEF me, view
      <4> QED
        BY <1>1, <3>1 DEF Goroutine
    <3> HIDE DEF g
    <3>4. Begun(w, g)
      BY <2>0, <2>2, <3>1, <3>3 DEF Begun
    <3>5. mishaps <= mishaps' /\ Forces(w)
      BY <1>1, <2>0, <2>2, ForceEffect DEF Forces
    <3> QED
      BY <2>2, <3>2, <3>3, <3>4, <3>5 DEF Moves
  <2> QED
    BY <1>4, <2>0, <2>1, <2>2 DEF Start
<1>5. CASE StartGone(w)
  BY <1>1, <1>5 DEF StartGone, Forces, Ended
<1>6. ASSUME NEW g \in Goroutine, GoOn(w, g), g.host = me.host, Advanced(w, g), Forces(w),
             UNCHANGED <<cache, issues, rows, raced>>, mishaps <= mishaps'
      PROVE  /\ cache' = cache /\ mishaps <= mishaps' /\ me.at # "free" /\ Forces(w)
             /\ \E h \in Goroutine : GoOn(w, h) /\ h.host = me.host /\ Moves(w, h)
  BY <1>6 DEF Moves, Advanced, Same, Past
<1>7. ASSUME NEW at \in {"connect", "work", "record", "project", "final"}
      PROVE  /\ [me EXCEPT !.at = at] \in Goroutine /\ [me EXCEPT !.at = at].at = at
             /\ [me EXCEPT !.at = at].st = me.st /\ [me EXCEPT !.at = at].spec = me.spec
             /\ [me EXCEPT !.at = at].todo = me.todo /\ [me EXCEPT !.at = at].done = me.done
             /\ [me EXCEPT !.at = at].item = me.item /\ [me EXCEPT !.at = at].host = me.host
  <2> HIDE DEF me
  <2> QED
    BY <1>1 DEF Goroutine
<1>8. CASE Connect(w)
  <2> DEFINE g == [me EXCEPT !.at = "work"]
  <2>1. /\ g \in Goroutine /\ g.at = "work" /\ g.st = me.st /\ g.spec = me.spec
        /\ g.todo = me.todo /\ g.done = me.done /\ g.item = me.item /\ g.host = me.host
    BY <1>7
  <2>2. /\ me.at = "connect" /\ GoOn(w, g) /\ UNCHANGED <<cache, issues, rows, raced>>
        /\ Callback(w, {}, FALSE)
    BY <1>8 DEF Connect
  <2> HIDE DEF g
  <2>3. Advanced(w, g)
    BY <2>1, <2>2 DEF Advanced, Same, Past
  <2>4. mishaps <= mishaps' /\ Forces(w)
    BY <2>2, CallbackEffect DEF Forces
  <2> QED
    BY <1>6, <2>1, <2>2, <2>3, <2>4
<1>9. CASE ServiceFails(w)
  <2>1. me.at = "work" /\ FailTo(w, me.st)
    BY <1>9 DEF ServiceFails
  <2> QED
    BY <1>1, <2>1, FailToEffect DEF Forces, Ended, Past
<1>10. CASE Report(w)
  <2>1. /\ me.at = "work" /\ UNCHANGED <<cache, active, worker, issues, rows, raced>>
        /\ Callback(w, me.spec \cup me.done, FALSE)
    BY <1>10 DEF Report
  <2>2. Advanced(w, me) /\ GoOn(w, me)
    BY <1>3, <2>1 DEF Advanced, Same, Past, GoOn
  <2>3. mishaps <= mishaps' /\ Forces(w)
    BY <2>1, CallbackEffect DEF Forces
  <2> QED
    BY <1>1, <1>6, <2>1, <2>2, <2>3
<1>11. CASE SkipRecorded(w)
  <2>1. PICK i \in me.todo : rows[i] = "success" /\ GoOn(w, [me EXCEPT !.todo = @ \ {i}])
    BY <1>11 DEF SkipRecorded
  <2> DEFINE left == me.todo \ {i}
             g == [me EXCEPT !.todo = left]
  <2>2. left \in SUBSET Items /\ left \subseteq me.todo /\ me.todo \ left \subseteq {i}
    BY <1>1 DEF Goroutine
  <2>3. /\ GoOn(w, g) /\ me.at = "work"
        /\ UNCHANGED <<obj, cache, synced, issues, rows, raced, mishaps>>
    BY <1>11, <2>1 DEF SkipRecorded
  <2> HIDE DEF left
  <2>4. /\ g \in Goroutine /\ g.at = me.at /\ g.st = me.st /\ g.spec = me.spec
        /\ g.todo = left /\ g.done = me.done /\ g.item = me.item /\ g.host = me.host
    <3> HIDE DEF me
    <3> QED
      BY <1>1, <2>2 DEF Goroutine
  <2> HIDE DEF g
  <2>5. Advanced(w, g)
    BY <2>1, <2>2, <2>3, <2>4 DEF Advanced, Same, Past
  <2> QED
    BY <1>1, <1>6, <2>3, <2>4, <2>5 DEF Forces
<1>12. CASE CreateIssue(w)
  <2>1. PICK i \in me.todo :
          /\ Mishaps(Unseen(i))
          /\ issues' = [issues EXCEPT ![i] = @ + 1] /\ CountRace(w, i)
          /\ GoOn(w, [me EXCEPT !.at = "record", !.item = {i}, !.todo = @ \ {i}])
    BY <1>12 DEF CreateIssue
  <2> DEFINE left == me.todo \ {i}
             g == [me EXCEPT !.at = "record", !.item = {i}, !.todo = left]
  <2>2. i \in Items /\ left \in SUBSET Items /\ left = me.todo \ {i} /\ {i} \in SUBSET Items
        /\ Unseen(i) \in Nat
    BY <1>1 DEF Goroutine, Unseen
  <2>3. GoOn(w, g) /\ me.at = "work" /\ UNCHANGED <<obj, cache, synced, rows>>
    BY <1>12, <2>1 DEF CreateIssue
  <2> HIDE DEF left
  <2>4. /\ g \in Goroutine /\ g.at = "record" /\ g.st = me.st /\ g.spec = me.spec
        /\ g.todo = left /\ g.done = me.done /\ g.item = {i} /\ g.host = me.host
    <3> HIDE DEF me
    <3> QED
      BY <1>1, <2>2 DEF Goroutine
  <2> HIDE DEF g
  <2>5. mishaps' = mishaps + Unseen(i) /\ mishaps <= mishaps'
    BY <2>1, <2>2, MishapsGrow
  <2>6. Issued(w, g, i)
    BY <2>1, <2>2, <2>3, <2>4, <2>5 DEF Issued, Same, Past
  <2> QED
    BY <2>2, <2>3, <2>4, <2>5, <2>6 DEF Forces, Moves
<1>13. CASE CreateFails(w)
  <2>1. PICK i \in me.todo :
          /\ Mishaps(1 + Unseen(i))
          /\ issues' \in {issues, [issues EXCEPT ![i] = @ + 1]}
          /\ rows' = IF Tracked THEN [rows EXCEPT ![i] = "failed"] ELSE rows
          /\ GoOn(w, [me EXCEPT !.todo = @ \ {i}])
    BY <1>13 DEF CreateFails
  <2> DEFINE left == me.todo \ {i}
             g == [me EXCEPT !.todo = left]
  <2>2. i \in Items /\ left \in SUBSET Items /\ left = me.todo \ {i}
        /\ Unseen(i) \in Nat
    BY <1>1 DEF Goroutine, Unseen
  <2>3. GoOn(w, g) /\ me.at = "work" /\ UNCHANGED <<obj, cache, synced, raced>>
    BY <1>13, <2>1 DEF CreateFails
  <2> HIDE DEF left
  <2>4. /\ g \in Goroutine /\ g.at = me.at /\ g.st = me.st /\ g.spec = me.spec
        /\ g.todo = left /\ g.done = me.done /\ g.item = me.item /\ g.host = me.host
    <3> HIDE DEF me
    <3> QED
      BY <1>1, <2>2 DEF Goroutine
  <2> HIDE DEF g
  <2>5. mishaps' = mishaps + 1 + Unseen(i) /\ mishaps <= mishaps'
    <3>1. 1 + Unseen(i) \in Nat
      BY <2>2
    <3>2. mishaps' = mishaps + (1 + Unseen(i)) /\ mishaps <= mishaps'
      BY <2>1, <3>1, MishapsGrow
    <3> QED
      BY <1>1, <2>2, <3>2
  <2>6. Missed(w, g, i)
    BY <2>1, <2>2, <2>3, <2>4, <2>5 DEF Missed, Same, Past
  <2> QED
    BY <2>2, <2>3, <2>4, <2>5, <2>6 DEF Forces, Moves
<1>14. CASE RecordItem(w)
  <2> DEFINE done == me.done \cup me.item
             g == [me EXCEPT !.at = "work", !.done = done, !.item = {}]
  <2>1. done \in SUBSET Items /\ done = me.done \cup me.item
    BY <1>1 DEF Goroutine
  <2>2. GoOn(w, g) /\ me.at = "record" /\ UNCHANGED <<obj, cache, synced, issues, raced>>
    BY <1>14 DEF RecordItem
  <2> HIDE DEF done
  <2>3. /\ g \in Goroutine /\ g.at = "work" /\ g.st = me.st /\ g.spec = me.spec
        /\ g.todo = me.todo /\ g.done = done /\ g.item = {} /\ g.host = me.host
    <3> HIDE DEF me
    <3> QED
      BY <1>1, <2>1 DEF Goroutine
  <2> HIDE DEF g
  <2>4. mishaps <= mishaps'
        /\ \/ rows' = [i \in Items |-> IF Tracked /\ i \in me.item THEN "success" ELSE rows[i]]
           \/ mishaps' = mishaps + 1 /\ UNCHANGED rows
    BY <1>1, <1>14, MishapsGrow DEF RecordItem, Mishap
  <2>5. Recorded(w, g)
    BY <2>1, <2>2, <2>3, <2>4 DEF Recorded, Same, Past
  <2> QED
    BY <2>2, <2>3, <2>4, <2>5 DEF Forces, Moves
<1>15. CASE FinishItems(w)
  <2> DEFINE g == [me EXCEPT !.at = "project"]
  <2>1. /\ g \in Goroutine /\ g.at = "project" /\ g.st = me.st /\ g.spec = me.spec
        /\ g.todo = me.todo /\ g.done = me.done /\ g.item = me.item /\ g.host = me.host
    BY <1>7
  <2>2. /\ me.at = "work" /\ me.todo = {} /\ GoOn(w, g) /\ UNCHANGED <<cache, issues, rows, raced>>
        /\ \/ Callback(w, me.spec \cup me.done, TRUE)
           \/ UNCHANGED <<obj, synced, mishaps>>
    BY <1>15 DEF FinishItems, NoCallback
  <2> HIDE DEF g
  <2>3. Advanced(w, g)
    BY <2>1, <2>2 DEF Advanced, Same, Past
  <2>4. mishaps <= mishaps' /\ Forces(w)
    <3>1. CASE Callback(w, me.spec \cup me.done, TRUE)
      <4>1. /\ mishaps <= mishaps'
            /\ UNCHANGED <<obj, synced>> \/ Overwrites(cache[Host(w)].st)
        BY <3>1, CallbackEffect
      <4> QED
        BY <4>1 DEF Forces
    <3>2. CASE UNCHANGED <<obj, synced, mishaps>>
      BY <1>1, <3>2 DEF Forces
    <3> QED
      BY <2>2, <3>1, <3>2
  <2> QED
    BY <1>6, <2>1, <2>2, <2>3, <2>4
<1>16. CASE AddToProject(w)
  <2> DEFINE g == [me EXCEPT !.at = "final"]
  <2>1. /\ g \in Goroutine /\ g.at = "final" /\ g.st = me.st /\ g.spec = me.spec
        /\ g.todo = me.todo /\ g.done = me.done /\ g.item = me.item /\ g.host = me.host
    BY <1>7
  <2>2. /\ me.at = "project" /\ GoOn(w, g) /\ UNCHANGED <<cache, issues, rows, raced>>
        /\ ForceStatus(me.st) \/ UNCHANGED <<obj, synced, mishaps>>
    BY <1>16 DEF AddToProject
  <2> HIDE DEF g
  <2>3. Advanced(w, g)
    BY <2>1, <2>2 DEF Advanced, Same, Past
  <2>4. mishaps <= mishaps' /\ Forces(w)
    BY <1>1, <2>2, ForceEffect DEF Forces, Past
  <2> QED
    BY <1>6, <2>1, <2>2, <2>3, <2>4
<1>17. CASE Complete(w)
  <2>1. CompletedStatus(w) \in Status
    BY <1>1 DEF CompletedStatus, Goroutine, Status, Phases
  <2>2. /\ me.at = "final" /\ ForceStatus(CompletedStatus(w)) /\ End(w)
        /\ UNCHANGED <<cache, issues, rows, raced>>
    BY <1>17 DEF Complete
  <2> QED
    BY <2>1, <2>2, ForceEffect DEF Forces, Ended
<1>18. CASE TimeOut(w)
  <2>1. mishaps' = mishaps + 1
    BY <1>18, MishapsGrow DEF TimeOut, Mishap
  <2> QED
    BY <1>1, <1>18, <2>1 DEF TimeOut, Forces, Ended
<1> QED
  BY <1>4, <1>5, <1>8, <1>9, <1>10, <1>11, <1>12, <1>13, <1>14, <1>15, <1>16, <1>17, <1>18
     DEF Work

-----------------------------------------------------------------------------
(* Completed covers the filter.                                            *)

CoveredNow == Cardinality(obj.spec \ Created) <= mishaps

\* A status that may be written over the object, now and after a step: it has observed no later
\* generation, and if it says Completed of the current one, the filter is covered.
Covered(s) ==
    /\ s.obs <= obj.gen
    /\ s.phase = "Completed" /\ s.obs = obj.gen => CoveredNow

StaysCovered(s) ==
    /\ s.obs <= obj'.gen
    /\ s.phase = "Completed" /\ s.obs = obj'.gen => CoveredNow'

\* What the filter of a goroutine selects and nobody has created or will.
Lost(g) == g.spec \ (Created \cup g.todo)

\* What a goroutine carries to the end, now and after a step: the filter of the generation it has
\* observed, and no more lost items than mishaps.
Carries(g) ==
    /\ Covered(g.st)
    /\ g.at \notin {"free", "start"} =>
          (g.st.obs = obj.gen => g.spec = obj.spec) /\ Cardinality(Lost(g)) <= mishaps
    /\ g.at \in {"project", "final"} => g.todo = {}

StaysCarried(g) ==
    /\ StaysCovered(g.st)
    /\ g.at \notin {"free", "start"} =>
          /\ g.st.obs = obj'.gen => g.spec = obj'.spec
          /\ Cardinality(g.spec \ (Created' \cup g.todo)) <= mishaps'
    /\ g.at \in {"project", "final"} => g.todo = {}

\* A copy knows the filter of its generation and has observed none after it.
Copied(o) ==
    /\ Covered(o.st) /\ o.st.obs <= o.gen /\ o.gen <= obj.gen
    /\ o.gen = obj.gen => o.spec = obj.spec

\* The inductive invariant of CompletedCovers.
Covering ==
    /\ Covered(obj.st) /\ obj.gen > 0
    /\ \A r \in Replicas : Copied(cache[r]) /\ (synced[r] => cache[r] = obj)
    /\ \A w \in Workers : Carries(worker[w])

\* The generation, the issues and the mishaps grow, and a generation has one filter.
Later ==
    /\ obj.gen <= obj'.gen
    /\ obj'.gen = obj.gen => obj'.spec = obj.spec
    /\ Created \subseteq Created' /\ mishaps <= mishaps'

\* The parts of the state whose types the proof reads.
LEMMA CoveringTypes ==
    ASSUME WorkConstants, TypeOK
    PROVE  /\ obj.gen \in Nat /\ obj.spec \in SUBSET Items /\ mishaps \in Nat
           /\ obj \in Object /\ obj.st \in Status /\ obj.st.obs \in Nat
           /\ \A r \in Replicas : /\ cache[r] \in Object /\ cache[r].gen \in Nat
                                  /\ cache[r].st \in Status /\ cache[r].st.obs \in Nat
                                  /\ cache[r].st.items \in SUBSET Items
           /\ \A w \in Workers : /\ worker[w] \in Goroutine /\ worker[w].st \in Status
                                 /\ worker[w].st.obs \in Nat /\ worker[w].host \in Replicas
           /\ IsFiniteSet(Items)
<1>1. /\ obj \in Object /\ obj.spec \in Specs /\ obj.gen \in Nat /\ obj.st \in Status
      /\ mishaps \in Nat
  BY DEF TypeOK, Object
<1>2. \A r \in Replicas : cache[r] \in Object
  BY DEF TypeOK
<1>3. \A w \in Workers : worker[w] \in Goroutine
  BY DEF TypeOK
<1>4. Specs \subseteq SUBSET Items /\ IsFiniteSet(Items)
  BY DEF WorkConstants
<1>5. ASSUME NEW s \in Status PROVE s.obs \in Nat /\ s.items \in SUBSET Items
  BY DEF Status
<1>6. \A o \in Object : o.gen \in Nat /\ o.st \in Status
  BY DEF Object
<1>7. \A g \in Goroutine : g.st \in Status /\ g.host \in Replicas
  BY DEF Goroutine
<1>8. obj.spec \in SUBSET Items
  BY <1>1, <1>4
<1> QED
  BY <1>1, <1>2, <1>3, <1>4, <1>5, <1>6, <1>7, <1>8

\* A smaller set of items has no more of them.
LEMMA FewerItems ==
    ASSUME WorkConstants, NEW S \in SUBSET Items, NEW T \in SUBSET S
    PROVE  Cardinality(S) \in Nat /\ Cardinality(T) \in Nat /\ Cardinality(T) <= Cardinality(S)
<1>1. IsFiniteSet(S)
  BY FS_Subset DEF WorkConstants
<1>2. IsFiniteSet(T) /\ Cardinality(T) <= Cardinality(S)
  BY <1>1, FS_Subset
<1> QED
  BY <1>1, <1>2, FS_CardinalityType

\* Nothing that happens later uncovers a status.
LEMMA CoveredLater ==
    ASSUME WorkConstants, TypeOK, TypeOK', Later, NEW s, s.obs \in Nat, Covered(s)
    PROVE  StaysCovered(s)
<1>1. obj.gen \in Nat /\ obj'.gen \in Nat /\ obj.spec \in SUBSET Items
      /\ mishaps \in Nat /\ mishaps' \in Nat
  BY CoveringTypes DEF TypeOK, Object
<1>2. s.obs <= obj'.gen
  BY <1>1 DEF Later, Covered
<1>3. ASSUME s.phase = "Completed", s.obs = obj'.gen PROVE CoveredNow'
  <2>1. obj'.gen = obj.gen
    BY <1>1, <1>3 DEF Later, Covered
  <2>2. obj'.spec = obj.spec /\ Cardinality(obj.spec \ Created) <= mishaps
    BY <1>3, <2>1 DEF Later, Covered, CoveredNow
  <2>3. obj.spec \ Created' \in SUBSET (obj.spec \ Created)
        /\ obj.spec \ Created \in SUBSET Items
    BY <1>1 DEF Later
  <2>4. /\ Cardinality(obj.spec \ Created) \in Nat /\ Cardinality(obj.spec \ Created') \in Nat
        /\ Cardinality(obj.spec \ Created') <= Cardinality(obj.spec \ Created)
    BY <2>3, FewerItems
  <2>5. Cardinality(obj'.spec \ Created') <= mishaps'
    BY <1>1, <2>2, <2>4 DEF Later
  <2> QED
    BY <2>5 DEF CoveredNow
<1> QED
  BY <1>2, <1>3 DEF StaysCovered

\* Nor what a goroutine carries.
LEMMA CarriedLater ==
    ASSUME WorkConstants, TypeOK, TypeOK', Later, NEW g \in Goroutine, Carries(g)
    PROVE  StaysCarried(g)
<1>1. /\ obj.gen \in Nat /\ obj'.gen \in Nat /\ mishaps \in Nat /\ mishaps' \in Nat
      /\ g.spec \in SUBSET Items /\ g.st.obs \in Nat
  BY CoveringTypes DEF TypeOK, Object, Goroutine, Status
<1>2. StaysCovered(g.st)
  BY <1>1, CoveredLater DEF Carries
<1>3. ASSUME g.at \notin {"free", "start"}
      PROVE  /\ g.st.obs = obj'.gen => g.spec = obj'.spec
             /\ Cardinality(g.spec \ (Created' \cup g.todo)) <= mishaps'
  <2>1. ASSUME g.st.obs = obj'.gen PROVE g.spec = obj'.spec
    BY <1>1, <1>3, <2>1 DEF Carries, Covered, Later
  <2> DEFINE old == g.spec \ (Created \cup g.todo)
             new == g.spec \ (Created' \cup g.todo)
  <2>2. new \in SUBSET old /\ old \in SUBSET Items
    BY <1>1 DEF Later
  <2>3. Cardinality(old) <= mishaps
    BY <1>3 DEF Carries, Lost
  <2> HIDE DEF old, new
  <2>4. Cardinality(new) <= mishaps'
    BY <1>1, <2>2, <2>3, FewerItems DEF Later
  <2> QED
    BY <2>1, <2>4 DEF new
<1> QED
  BY <1>2, <1>3 DEF StaysCarried, Carries

\* A goroutine that is free or starts has nothing to carry.
LEMMA NothingCarried ==
    ASSUME WorkConstants, TypeOK', NEW g, g.st = NoStatus, g.at \in {"free", "start"}
    PROVE  StaysCarried(g)
<1>1. obj'.gen \in Nat
  BY DEF TypeOK, Object
<1>2. NoStatus.obs = 0 /\ NoStatus.phase = ""
  BY DEF NoStatus
<1>3. StaysCovered(g.st)
  <2>1. g.st.obs = 0 /\ g.st.phase = ""
    BY <1>2
  <2>2. g.st.phase # "Completed"
    BY <2>1
  <2>3. g.st.obs <= obj'.gen
    <3>1. 0 <= obj'.gen
      BY <1>1
    <3> QED
      BY <2>1, <3>1
  <2> QED
    BY <2>2, <2>3 DEF StaysCovered
<1>4. g.at # "project" /\ g.at # "final"
  OBVIOUS
<1> QED
  BY <1>3, <1>4 DEF StaysCarried

\* The invariant from its parts, when the copies are kept.
LEMMA CoveringKept ==
    ASSUME WorkConstants, TypeOK, TypeOK', Covering, Later, cache' = cache,
           StaysCovered(obj'.st), \A w \in Workers : StaysCarried(worker'[w]),
           \/ UNCHANGED <<obj, synced>>
           \/ obj'.gen = obj.gen /\ synced' = [r \in Replicas |-> FALSE]
           \/ obj'.gen = obj.gen + 1 /\ synced' = [r \in Replicas |-> FALSE]
    PROVE  Covering'
<1>1. obj.gen \in Nat /\ obj'.gen \in Nat /\ \A r \in Replicas : cache[r].gen \in Nat
  BY CoveringTypes DEF TypeOK, Object
<1>2. Covered(obj.st)' /\ obj'.gen > 0
  BY <1>1 DEF Covering, Later, Covered, StaysCovered
<1>3. ASSUME NEW r \in Replicas
      PROVE  Copied(cache[r])' /\ (synced'[r] => cache'[r] = obj')
  <2>1. StaysCovered(cache[r].st)
    BY CoveringTypes, CoveredLater DEF Covering, Copied
  <2>2. cache'[r].st.obs <= cache'[r].gen /\ cache'[r].gen <= obj'.gen
    BY <1>1 DEF Covering, Copied, Later
  <2>3. cache'[r].gen = obj'.gen => cache'[r].spec = obj'.spec
    BY <1>1 DEF Covering, Copied, Later
  <2>4. synced'[r] => cache'[r] = obj'
    BY DEF Covering
  <2> QED
    BY <2>1, <2>2, <2>3, <2>4 DEF Copied, Covered, StaysCovered
<1>4. ASSUME NEW w \in Workers PROVE Carries(worker[w])'
  BY DEF StaysCarried, StaysCovered, Carries, Covered, Lost
<1> QED
  BY <1>2, <1>3, <1>4 DEF Covering

\* The invariant when the copies of one replica are refreshed.
LEMMA CoveringRefreshed ==
    ASSUME WorkConstants, TypeOK, TypeOK', Covering, Later, NEW r \in Replicas,
           obj' = obj, cache' = [cache EXCEPT ![r] = obj], synced' = [synced EXCEPT ![r] = TRUE],
           \A w \in Workers : StaysCarried(worker'[w])
    PROVE  Covering'
<1>1. obj.gen \in Nat
  BY CoveringTypes
<1>2. StaysCovered(obj.st)
  BY CoveringTypes, CoveredLater DEF Covering
<1>3. Covered(obj.st)' /\ obj'.gen > 0
  BY <1>2 DEF Covering, Covered, StaysCovered
<1>4. ASSUME NEW q \in Replicas
      PROVE  Copied(cache[q])' /\ (synced'[q] => cache'[q] = obj')
  <2>1. CASE q = r
    <3>1. cache'[q] = obj
      BY <2>1 DEF TypeOK
    <3>2. obj.st.obs <= obj.gen
      BY DEF Covering, Covered
    <3> QED
      BY <1>1, <1>2, <3>1, <3>2 DEF Copied, Covered, StaysCovered
  <2>2. CASE q # r
    <3>1. cache'[q] = cache[q] /\ synced'[q] = synced[q]
      BY <2>2 DEF TypeOK
    <3>2. StaysCovered(cache[q].st)
      BY CoveringTypes, CoveredLater DEF Covering, Copied
    <3> QED
      BY <3>1, <3>2 DEF Covering, Copied, Covered, StaysCovered
  <2> QED
    BY <2>1, <2>2
<1>5. ASSUME NEW w \in Workers PROVE Carries(worker[w])'
  BY DEF StaysCarried, StaysCovered, Carries, Covered, Lost
<1> QED
  BY <1>3, <1>4, <1>5 DEF Covering

\* A reconcile keeps the invariant: it writes only over what its copy shows.
LEMMA ReconcileCovers ==
    ASSUME WorkConstants, TypeOK, TypeOK', Covering, NEW r \in Replicas, Reconcile(r)
    PROVE  Covering'
<1>1. /\ UNCHANGED <<cache, issues, rows>> /\ mishaps <= mishaps' /\ Writes(r)
      /\ UNCHANGED <<worker, active>> \/ Spawn(r)
  BY ReconcileEffect
<1>2. /\ obj.gen \in Nat /\ obj.st.obs \in Nat /\ obj \in Object
      /\ \A w \in Workers : worker[w] \in Goroutine
  BY CoveringTypes
<1>3. /\ obj'.gen = obj.gen /\ obj'.spec = obj.spec
      /\ obj'.st.obs \in {obj.st.obs, obj.gen}
      /\ obj'.st.phase = "Completed" => obj'.st = obj.st
      /\ UNCHANGED <<obj, synced>> \/ synced' = [q \in Replicas |-> FALSE]
  <2>1. CASE UNCHANGED <<obj, synced>>
    BY <2>1
  <2>2. CASE /\ synced[r] /\ synced' = [q \in Replicas |-> FALSE]
             /\ Continues(cache[r], obj')
    <3>1. cache[r] = obj
      BY <2>2 DEF Covering
    <3> QED
      BY <2>2, <3>1 DEF Continues
  <2> QED
    BY <1>1, <2>1, <2>2 DEF Writes
<1>4. Later
  BY <1>1, <1>2, <1>3 DEF Later, Created
<1>5. StaysCovered(obj'.st)
  <2>1. StaysCovered(obj.st)
    BY <1>2, <1>4, CoveredLater DEF Covering
  <2>2. obj'.st.obs <= obj'.gen
    BY <1>2, <1>3 DEF Covering, Covered
  <2> QED
    BY <1>3, <2>1, <2>2 DEF StaysCovered
<1>6. \A w \in Workers : StaysCarried(worker[w])
  BY <1>2, <1>4, CarriedLater DEF Covering
<1>7. \A w \in Workers : StaysCarried(worker'[w])
  <2>1. CASE Spawn(r)
    <3> DEFINE new == [NoWork EXCEPT !.host = r, !.at = "start"]
    <3>1. PICK v \in Workers : worker' = [worker EXCEPT ![v] = new]
      BY <2>1 DEF Spawn
    <3>2. new.st = NoStatus /\ new.at = "start"
      BY DEF NoWork
    <3>3. StaysCarried(new)
      BY <3>2, NothingCarried
    <3> HIDE DEF new
    <3> QED
      BY <1>6, <3>1, <3>3 DEF TypeOK
  <2> QED
    BY <1>1, <1>6, <2>1
<1> QED
  BY <1>1, <1>3, <1>4, <1>5, <1>7, CoveringKept

\* A goroutine loses an item only with a mishap.
LEMMA MovesCovers ==
    ASSUME WorkConstants, TypeOK, TypeOK', CopiesHaveIssues, Covering, Later, NEW w \in Workers,
           NEW g \in Goroutine, Moves(w, g), obj'.gen = obj.gen, obj'.spec = obj.spec
    PROVE  StaysCarried(g)
<1> DEFINE me == worker[w]
           view == cache[Host(w)]
           left == g.spec \ (Created' \cup g.todo)
<1>1. /\ Host(w) \in Replicas /\ view.gen \in Nat /\ view.st.obs \in Nat /\ obj.gen \in Nat
      /\ me \in Goroutine /\ mishaps \in Nat /\ mishaps' \in Nat
      /\ me.spec \in SUBSET Items /\ me.st.obs \in Nat /\ g.spec \in SUBSET Items
      /\ view.st.items \subseteq Created
  BY CoveringTypes DEF TypeOK, Host, Goroutine, CopiesHaveIssues
<1>2. Carries(me) /\ Copied(view) /\ Created \subseteq Created' /\ mishaps <= mishaps'
  BY <1>1 DEF Covering, Later
<1>3. StaysCovered(me.st) /\ StaysCovered(view.st)
  BY <1>1, <1>2, CoveredLater DEF Carries, Copied
<1>4. CASE Begun(w, g)
  <2>1. g.st = view.st /\ g.at = "connect" /\ g.spec \in {obj.spec, view.spec}
        /\ g.todo = g.spec \ view.st.items
    BY <1>4 DEF Begun
  <2>2. g.st.obs = obj'.gen => g.spec = obj'.spec
    <3>1. view.st.obs <= view.gen /\ view.gen <= obj.gen
          /\ (view.gen = obj.gen => view.spec = obj.spec)
      BY <1>2 DEF Copied
    <3> QED
      BY <1>1, <2>1, <3>1
  <2>3. left = {}
    BY <1>1, <1>2, <2>1
  <2>4. Cardinality(left) <= mishaps'
    <3> HIDE DEF left
    <3>1. Cardinality(left) = 0
      BY <2>3, FS_EmptySet
    <3> QED
      BY <1>1, <3>1
  <2> QED
    BY <1>3, <2>1, <2>2, <2>4 DEF StaysCarried
<1>5. ASSUME Same(w, g), Cardinality(left) <= mishaps',
             g.at \in {"project", "final"} => g.todo = {}
      PROVE  StaysCarried(g)
  <2>1. me.st.obs = obj.gen => me.spec = obj.spec
    BY <1>2, <1>5 DEF Carries, Same, Past
  <2> QED
    BY <1>3, <1>5, <2>1 DEF StaysCarried, Same
<1> DEFINE lost == Lost(me)
<1>6. ASSUME Same(w, g)
      PROVE  lost \in SUBSET Items /\ Cardinality(lost) <= mishaps /\ g.spec = me.spec
  BY <1>1, <1>2, <1>5, <1>6 DEF Carries, Lost, Same, Past
<1>7. ASSUME Same(w, g), left \in SUBSET lost PROVE Cardinality(left) <= mishaps'
  <2> HIDE DEF left, lost
  <2>1. /\ Cardinality(lost) \in Nat /\ Cardinality(left) \in Nat
        /\ Cardinality(left) <= Cardinality(lost)
    BY <1>6, <1>7, FewerItems
  <2> QED
    BY <1>1, <1>2, <1>6, <1>7, <2>1
<1>8. CASE Advanced(w, g)
  <2>1. /\ Same(w, g) /\ \A i \in me.todo \ g.todo : rows[i] = "success"
        /\ g.todo \subseteq me.todo
        /\ (g.at \in {"project", "final"} => g.todo = {} \/ me.at \in {"project", "final"})
    BY <1>8 DEF Advanced
  <2>2. me.todo \in SUBSET Items
    BY <1>1 DEF Goroutine
  <2>3. me.todo \ g.todo \subseteq Created
    BY <2>1, <2>2 DEF CopiesHaveIssues
  <2>4. left \in SUBSET lost
    BY <1>2, <1>6, <2>1, <2>3 DEF Lost
  <2>5. g.at \in {"project", "final"} => g.todo = {}
    BY <1>2, <2>1 DEF Carries
  <2> HIDE DEF left, lost
  <2> QED
    BY <1>5, <1>7, <2>1, <2>4, <2>5
<1>9. CASE Recorded(w, g)
  <2>1. Same(w, g) /\ g.at = "work" /\ g.todo = me.todo
    BY <1>9 DEF Recorded
  <2>2. left \in SUBSET lost
    BY <1>2, <1>6, <2>1 DEF Lost
  <2> HIDE DEF left, lost
  <2> QED
    BY <1>5, <1>7, <2>1, <2>2
<1>10. ASSUME NEW i \in Items, Issued(w, g, i) PROVE StaysCarried(g)
  <2>1. Same(w, g) /\ g.at = "record" /\ g.todo = me.todo \ {i}
        /\ issues' = [issues EXCEPT ![i] = @ + 1]
    BY <1>10 DEF Issued
  <2>2. i \in Created'
    BY <2>1 DEF Created, TypeOK
  <2>3. left \in SUBSET lost
    BY <1>2, <1>6, <2>1, <2>2 DEF Lost
  <2> HIDE DEF left, lost
  <2> QED
    BY <1>5, <1>7, <2>1, <2>3
<1>11. ASSUME NEW i \in Items, Missed(w, g, i) PROVE StaysCarried(g)
  <2>1. Same(w, g) /\ g.at = "work" /\ g.todo = me.todo \ {i}
        /\ mishaps' = mishaps + 1 + Unseen(i) /\ Unseen(i) \in Nat
    BY <1>11 DEF Missed, Unseen
  <2>2. left \in SUBSET (lost \cup {i}) /\ lost \cup {i} \in SUBSET Items
    BY <1>2, <1>6, <2>1 DEF Lost
  <2> HIDE DEF left, lost
  <2>3. IsFiniteSet(lost)
    BY <1>6, <2>1, FS_Subset DEF WorkConstants
  <2>4. Cardinality(lost \cup {i}) <= Cardinality(lost) + 1 /\ Cardinality(lost) \in Nat
    <3>1. Cardinality(lost) \in Nat
      BY <2>3, FS_CardinalityType
    <3>2. Cardinality(lost \cup {i})
            = IF i \in lost THEN Cardinality(lost) ELSE Cardinality(lost) + 1
      BY <2>3, FS_AddElement
    <3> QED
      BY <3>1, <3>2
  <2>5. /\ Cardinality(lost \cup {i}) \in Nat /\ Cardinality(left) \in Nat
        /\ Cardinality(left) <= Cardinality(lost \cup {i})
    BY <2>2, FewerItems
  <2>6. Cardinality(left) <= mishaps'
    BY <1>1, <1>6, <2>1, <2>4, <2>5
  <2> QED
    BY <1>5, <2>1, <2>6
<1> QED
  BY <1>4, <1>8, <1>9, <1>10, <1>11 DEF Moves

\* What a goroutine writes over the object is covered.
LEMMA ForcesCovers ==
    ASSUME WorkConstants, TypeOK, TypeOK', Covering, Later, NEW w \in Workers, Forces(w)
    PROVE  /\ StaysCovered(obj'.st) /\ obj'.gen = obj.gen /\ obj'.spec = obj.spec
           /\ UNCHANGED <<obj, synced>> \/ synced' = [q \in Replicas |-> FALSE]
<1> DEFINE me == worker[w]
           view == cache[Host(w)]
<1>1. /\ obj.st.obs \in Nat /\ Host(w) \in Replicas /\ view.st.obs \in Nat /\ me.st.obs \in Nat
      /\ me.st \in Status /\ view.st \in Status /\ obj.spec \in SUBSET Items
  BY CoveringTypes DEF Host
<1>2. StaysCovered(obj.st) /\ StaysCovered(me.st) /\ StaysCovered(view.st) /\ Carries(me)
  BY <1>1, CoveredLater DEF Covering, Carries, Copied
<1>3. CASE UNCHANGED <<obj, synced>>
  BY <1>2, <1>3
<1>4. ASSUME NEW s \in Status, StaysCovered(s), Overwrites(s)
      PROVE  /\ StaysCovered(obj'.st) /\ obj'.gen = obj.gen /\ obj'.spec = obj.spec
             /\ synced' = [q \in Replicas |-> FALSE]
  BY <1>4 DEF Overwrites, StaysCovered
<1>5. ASSUME NEW s \in Status, StaysCovered(s), Fails(w, s)
      PROVE  /\ StaysCovered(obj'.st) /\ obj'.gen = obj.gen /\ obj'.spec = obj.spec
             /\ synced' = [q \in Replicas |-> FALSE]
  <2> DEFINE f == [s EXCEPT !.phase = "Failed"]
  <2>1. f \in Status /\ f.phase = "Failed" /\ f.obs = s.obs
    BY DEF Status, Phases
  <2>2. Overwrites(f)
    BY <1>5 DEF Fails
  <2> HIDE DEF f
  <2>3. StaysCovered(f)
    BY <1>5, <2>1 DEF StaysCovered
  <2> QED
    BY <1>4, <2>1, <2>2, <2>3
<1>6. CASE me.at = "final" /\ Overwrites(CompletedStatus(w)) /\ End(w)
  <2>1. CompletedStatus(w).obs = me.st.obs
    BY <1>1 DEF CompletedStatus, Status
  <2>2. /\ obj'.gen = obj.gen /\ obj'.spec = obj.spec /\ obj'.st.obs = me.st.obs
        /\ synced' = [q \in Replicas |-> FALSE]
    BY <1>6, <2>1 DEF Overwrites
  <2>3. /\ me.todo = {} /\ Cardinality(Lost(me)) <= mishaps
        /\ me.st.obs = obj.gen => me.spec = obj.spec
    BY <1>2, <1>6 DEF Carries
  <2>4. ASSUME me.st.obs = obj.gen PROVE CoveredNow
    <3>1. Lost(me) = obj.spec \ Created
      BY <2>3, <2>4 DEF Lost
    <3> QED
      BY <2>3, <3>1 DEF CoveredNow
  <2> DEFINE c == [me.st EXCEPT !.phase = "Completed"]
  <2>5. c.obs = me.st.obs
    BY <1>1 DEF Status
  <2>6. Covered(c)
    BY <1>2, <2>4, <2>5 DEF Covered, Carries
  <2>7. c.phase = "Completed"
    BY <1>1 DEF Status
  <2> HIDE DEF c
  <2>8. StaysCovered(c)
    BY <1>1, <2>5, <2>6, CoveredLater
  <2> QED
    BY <2>2, <2>5, <2>7, <2>8 DEF StaysCovered
<1> QED
  BY <1>1, <1>2, <1>3, <1>4, <1>5, <1>6 DEF Forces

\* What a step of a goroutine leaves of the counters, the rows and the other goroutines.
LEMMA WorkLater ==
    ASSUME WorkConstants, TypeOK, TypeOK', CopiesHaveIssues, Covering, NEW w \in Workers, Work(w)
    PROVE  Later
<1>1. Forces(w) /\ mishaps <= mishaps' /\ (Ended(w) \/ \E g \in Goroutine : Moves(w, g))
  BY WorkEffect
<1>2. obj.gen \in Nat /\ obj \in Object
  BY CoveringTypes
<1>3. obj'.gen = obj.gen /\ obj'.spec = obj.spec
  BY <1>1 DEF Forces, Fails, Overwrites
<1>4. Created \subseteq Created'
  <2>1. CASE UNCHANGED issues
    BY <2>1 DEF Created
  <2>2. ASSUME NEW i \in Items, issues' = [issues EXCEPT ![i] = @ + 1]
        PROVE  Created \subseteq Created'
    BY <2>2 DEF Created, TypeOK
  <2>3. UNCHANGED issues \/ \E i \in Items : issues' = [issues EXCEPT ![i] = @ + 1]
    BY <1>1 DEF Ended, Moves, Begun, Advanced, Recorded, Issued, Missed
  <2> QED
    BY <2>1, <2>2, <2>3
<1> QED
  BY <1>1, <1>2, <1>3, <1>4 DEF Later

\* Each step of a goroutine keeps the invariant.
LEMMA WorkCoversStep ==
    ASSUME WorkConstants, TypeOK, TypeOK', CopiesHaveIssues, Covering, NEW w \in Workers, Work(w)
    PROVE  Covering'
<1>1. /\ Forces(w) /\ cache' = cache
      /\ End(w) \/ \E g \in Goroutine : GoOn(w, g) /\ Moves(w, g)
  BY WorkEffect DEF Ended
<1>2. Later
  BY WorkLater
<1>3. /\ StaysCovered(obj'.st) /\ obj'.gen = obj.gen /\ obj'.spec = obj.spec
      /\ UNCHANGED <<obj, synced>> \/ synced' = [q \in Replicas |-> FALSE]
  BY <1>1, <1>2, ForcesCovers
<1>4. \A v \in Workers : StaysCarried(worker[v])
  BY <1>2, CarriedLater, CoveringTypes DEF Covering
<1>5. \A v \in Workers : StaysCarried(worker'[v])
  <2>1. CASE End(w)
    <3>1. NoWork.st = NoStatus /\ NoWork.at = "free"
      BY DEF NoWork
    <3>2. StaysCarried(NoWork)
      BY <3>1, NothingCarried
    <3> QED
      BY <1>4, <2>1, <3>2 DEF End, TypeOK
  <2>2. ASSUME NEW g \in Goroutine, GoOn(w, g), Moves(w, g)
        PROVE  \A v \in Workers : StaysCarried(worker'[v])
    <3>1. StaysCarried(g)
      BY <1>2, <1>3, <2>2, MovesCovers
    <3> QED
      BY <1>4, <2>2, <3>1 DEF GoOn, TypeOK
  <2> QED
    BY <1>1, <2>1, <2>2
<1> QED
  BY <1>1, <1>2, <1>3, <1>5, CoveringKept

LEMMA WorkCovering == Spec => []Covering
<1> USE WorkConstants
<1>1. Init /\ TypeOK => Covering
  <2> SUFFICES ASSUME Init, TypeOK PROVE Covering
    OBVIOUS
  <2>1. obj.gen = 1 /\ obj.st = NoStatus
    BY DEF Init
  <2>2. NoStatus.obs = 0 /\ NoStatus.phase = ""
    BY DEF NoStatus
  <2>3. NoStatus.obs <= obj.gen /\ obj.gen > 0
    <3>1. 0 <= obj.gen /\ obj.gen > 0
      BY <2>1
    <3> QED
      BY <2>2, <3>1
  <2>9. Covered(NoStatus)
    BY <2>2, <2>3 DEF Covered
  <2>4. \A r \in Replicas : cache[r] = obj
    BY DEF Init
  <2>5. Copied(obj)
    <3>1. obj.gen <= obj.gen
      BY <2>1
    <3> QED
      BY <2>1, <2>3, <2>9, <3>1 DEF Copied
  <2>6. \A w \in Workers : worker[w] = NoWork
    BY DEF Init
  <2>7. NoWork.st = NoStatus /\ NoWork.at = "free"
    BY DEF NoWork
  <2>8. Carries(NoWork)
    BY <2>7, <2>9 DEF Carries
  <2> QED
    BY <2>1, <2>3, <2>4, <2>5, <2>6, <2>8, <2>9 DEF Covering
<1>2. TypeOK /\ TypeOK' /\ CopiesHaveIssues /\ Covering /\ [Next]_vars => Covering'
  <2> SUFFICES ASSUME TypeOK, TypeOK', CopiesHaveIssues, Covering, [Next]_vars PROVE Covering'
    OBVIOUS
  <2>0. /\ obj.gen \in Nat /\ mishaps \in Nat /\ obj \in Object
        /\ \A w \in Workers : worker[w] \in Goroutine
    BY CoveringTypes
  <2>2. ASSUME obj'.gen = obj.gen + 1, obj'.st = obj.st, synced' = [r \in Replicas |-> FALSE],
               UNCHANGED <<cache, worker, issues, mishaps>>
        PROVE  Covering'
    <3>1. Later
      BY <2>0, <2>2 DEF Later, Created
    <3>2. StaysCovered(obj'.st)
      BY <2>2, <3>1, CoveredLater, CoveringTypes DEF Covering
    <3>3. \A w \in Workers : StaysCarried(worker'[w])
      BY <2>0, <2>2, <3>1, CarriedLater DEF Covering
    <3> QED
      BY <2>2, <3>1, <3>2, <3>3, CoveringKept
  <2>3. CASE EditFilters
    <3>1. PICK s \in Specs : Store([obj EXCEPT !.spec = s, !.gen = @ + 1])
      BY <2>3 DEF EditFilters
    <3>2. obj'.gen = obj.gen + 1 /\ obj'.st = obj.st /\ synced' = [r \in Replicas |-> FALSE]
      BY <2>0, <3>1 DEF Store, Object
    <3> QED
      BY <2>2, <2>3, <3>2 DEF EditFilters
  <2>4. CASE Delete
    <3>1. obj'.gen = obj.gen + 1 /\ obj'.st = obj.st /\ synced' = [r \in Replicas |-> FALSE]
      BY <2>0, <2>4 DEF Delete, Store, Object
    <3> QED
      BY <2>2, <2>4, <3>1 DEF Delete
  <2>5. ASSUME NEW r \in Replicas, CacheSync(r) PROVE Covering'
    <3>1. Later
      BY <2>0, <2>5 DEF CacheSync, Later, Created
    <3>2. \A w \in Workers : StaysCarried(worker'[w])
      BY <2>0, <2>5, <3>1, CarriedLater DEF CacheSync, Covering
    <3> QED
      BY <2>5, <3>1, <3>2, CoveringRefreshed DEF CacheSync
  <2>6. ASSUME NEW r \in Replicas, Crash(r) PROVE Covering'
    <3>1. mishaps <= mishaps'
      BY <2>0, <2>6, MishapsGrow DEF Crash, Mishap
    <3>2. Later
      BY <2>0, <2>6, <3>1 DEF Crash, Later, Created
    <3>3. \A w \in Workers : StaysCarried(worker[w])
      BY <2>0, <3>2, CarriedLater DEF Covering
    <3>4. NoWork.st = NoStatus /\ NoWork.at = "free"
      BY DEF NoWork
    <3>5. StaysCarried(NoWork)
      BY <3>4, NothingCarried
    <3>6. \A w \in Workers : StaysCarried(worker'[w])
      BY <2>6, <3>3, <3>5 DEF Crash
    <3> QED
      BY <2>6, <3>2, <3>6, CoveringRefreshed DEF Crash
  <2>7. CASE UNCHANGED vars
    BY <2>7 DEF vars, Covering, Copied, Carries, Covered, CoveredNow, Created, Lost
  <2> QED
    BY <2>3, <2>4, <2>5, <2>6, <2>7, ReconcileCovers, WorkCoversStep DEF Next
<1> QED
  BY <1>1, <1>2, WorkTypeCorrect, WorkCopies, PTL DEF Spec

\* Completed with the filter observed: the items it selects have their issues, but for as many
\* as there were mishaps; with outdated reads, any number of replicas and goroutines, and
\* whatever status a goroutine writes over another.
THEOREM WorkCovers == Spec => []CompletedCovers
<1>1. Covering => CompletedCovers
  BY DEF Covering, Covered, CoveredNow, CompletedCovers
<1> QED
  BY <1>1, WorkCovering, PTL

-----------------------------------------------------------------------------
(* The number of issues.                                                   *)

\* The item i has been created and its row is about to be written.
Unrecorded(i) == \E w \in Workers : i \in worker[w].item

\* One issue of the item is known: to its row, or to the goroutine that created it.
Remembered(i) == rows[i] = "success" \/ Unrecorded(i)

Owed(i) == IF Remembered(i) THEN 1 ELSE 0

\* The inductive invariant of IssuesWithinMishaps: every issue of an item but one was paid for
\* with a mishap or a race, and the last one too unless a row or a goroutine remembers it.
Budget ==
    /\ \A w \in Workers : worker[w].item # {} => worker[w].at = "record"
    /\ \A i \in Items : issues[i] <= mishaps + raced + Owed(i)

\* Less to pay for, or more mishaps: the budget of an item holds on.
LEMMA BudgetKept ==
    ASSUME TypeOK, TypeOK', Budget, mishaps <= mishaps', raced <= raced', NEW i \in Items,
           issues'[i] = issues[i], mishaps' > mishaps \/ (Remembered(i) => Remembered(i)')
    PROVE  issues'[i] <= mishaps' + raced' + Owed(i)'
<1>1. /\ issues[i] <= mishaps + raced + Owed(i) /\ issues[i] \in Nat
      /\ mishaps \in Nat /\ mishaps' \in Nat /\ raced \in Nat /\ raced' \in Nat
  BY DEF Budget, TypeOK
<1>2. /\ Owed(i) \in {0, 1} /\ Owed(i)' \in {0, 1}
      /\ mishaps' > mishaps \/ Owed(i) <= Owed(i)'
  BY DEF Owed
<1> QED
  BY <1>1, <1>2

\* A reconcile has nothing to do with GitHub.
LEMMA ReconcileBudget ==
    ASSUME WorkConstants, TypeOK, TypeOK', Budget, NEW r \in Replicas, Reconcile(r)
    PROVE  Budget'
<1>1. UNCHANGED <<issues, rows, raced>> /\ mishaps <= mishaps' /\ (UNCHANGED worker \/ Spawn(r))
  BY ReconcileEffect
<1>2. \A w \in Workers :
          worker'[w] = worker[w] \/ (worker'[w].item = {} /\ worker[w].at = "free")
  <2>1. CASE Spawn(r)
    <3> DEFINE new == [NoWork EXCEPT !.host = r, !.at = "start"]
    <3>1. new.item = {}
      BY DEF NoWork
    <3>2. PICK v \in Workers : worker[v].at = "free" /\ worker' = [worker EXCEPT ![v] = new]
      BY <2>1 DEF Spawn
    <3> HIDE DEF new
    <3> QED
      BY <3>1, <3>2 DEF TypeOK
  <2> QED
    BY <1>1, <2>1
<1>3. \A w \in Workers : worker'[w].item = worker[w].item
                         /\ (worker'[w] = worker[w] \/ worker'[w].item = {})
  BY <1>2 DEF Budget
<1>4. \A i \in Items : Remembered(i)' = Remembered(i)
  BY <1>1, <1>3 DEF Remembered, Unrecorded
<1>5. \A w \in Workers : worker'[w].item # {} => worker'[w].at = "record"
  BY <1>3 DEF Budget
<1>6. raced <= raced'
  BY <1>1 DEF TypeOK
<1>7. ASSUME NEW i \in Items PROVE issues'[i] <= mishaps' + raced' + Owed(i)'
  BY <1>1, <1>4, <1>6, BudgetKept
<1> QED
  BY <1>5, <1>7 DEF Budget

\* An issue is created for an item that nobody remembers, or with a mishap that hides its row,
\* or in a race.
LEMMA MovesBudget ==
    ASSUME WorkConstants, Tracked, TypeOK, TypeOK', Budget, mishaps <= mishaps',
           NEW w \in Workers, NEW g \in Goroutine, GoOn(w, g), Moves(w, g)
    PROVE  Budget'
<1> DEFINE me == worker[w]
<1>1. worker'[w] = g /\ \A v \in Workers \ {w} : worker'[v] = worker[v]
  BY DEF GoOn, TypeOK
<1>2. \A i : /\ Unrecorded(i) <=> i \in me.item \/ Racing(w, i)
             /\ Unrecorded(i)' <=> i \in g.item \/ Racing(w, i)
  BY <1>1 DEF Unrecorded, Racing
<1>3. /\ me.item # {} => me.at = "record"
      /\ mishaps \in Nat /\ mishaps' \in Nat /\ raced \in Nat /\ raced' \in Nat
      /\ me.todo \in SUBSET Items
      /\ \A i \in Items : issues[i] \in Nat /\ issues'[i] \in Nat
  BY DEF Budget, TypeOK, Goroutine
<1>4. ASSUME g.item # {} => g.at = "record",
             \A i \in Items : issues'[i] <= mishaps' + raced' + Owed(i)'
      PROVE  Budget'
  <2>1. \A v \in Workers : worker'[v].item # {} => worker'[v].at = "record"
    BY <1>1, <1>4 DEF Budget
  <2> QED
    BY <1>4, <2>1 DEF Budget
<1>5. ASSUME NEW i \in Items, issues'[i] = issues[i], raced <= raced',
             mishaps' > mishaps \/ (rows[i] = "success" => rows'[i] = "success"),
             mishaps' > mishaps \/ (i \in me.item => rows'[i] = "success" \/ i \in g.item)
      PROVE  issues'[i] <= mishaps' + raced' + Owed(i)'
  <2>1. mishaps' > mishaps \/ (Remembered(i) => Remembered(i)')
    BY <1>2, <1>5 DEF Remembered
  <2> QED
    BY <1>5, <2>1, BudgetKept
<1>6. CASE Begun(w, g)
  <2>1. UNCHANGED <<issues, rows, raced>> /\ g.item = {} /\ me.item = {}
    BY <1>3, <1>6 DEF Begun
  <2> QED
    BY <1>3, <1>4, <1>5, <2>1
<1>7. CASE Advanced(w, g)
  <2>1. /\ UNCHANGED <<issues, rows, raced>> /\ g.item = me.item
        /\ me.at = "record" <=> g.at = "record"
    BY <1>7 DEF Advanced
  <2> QED
    BY <1>3, <1>4, <1>5, <2>1
<1>8. CASE Recorded(w, g)
  <2>1. /\ UNCHANGED <<issues, raced>> /\ g.item = {}
        /\ \/ rows' = [i \in Items |-> IF i \in me.item THEN "success" ELSE rows[i]]
           \/ mishaps' = mishaps + 1 /\ UNCHANGED rows
    BY <1>8 DEF Recorded
  <2>2. ASSUME NEW i \in Items PROVE issues'[i] <= mishaps' + raced' + Owed(i)'
    <3>1. /\ mishaps' > mishaps \/ (rows[i] = "success" => rows'[i] = "success")
          /\ mishaps' > mishaps \/ (i \in me.item => rows'[i] = "success")
      BY <1>3, <2>1
    <3> QED
      BY <1>3, <1>5, <2>1, <3>1
  <2> QED
    BY <1>4, <2>1, <2>2
<1> DEFINE race(i) == IF Racing(w, i) THEN 1 ELSE 0
<1>9. ASSUME NEW i \in Items, me.at = "work",
             issues' = [issues EXCEPT ![i] = @ + 1] \/ issues' = issues,
             \A j \in Items \ {i} : rows'[j] = rows[j], raced <= raced'
      PROVE  /\ me.item = {} /\ issues'[i] <= issues[i] + 1
             /\ issues[i] <= mishaps + raced + Unseen(i) + race(i)
             /\ Unseen(i) \in {0, 1} /\ race(i) \in {0, 1}
             /\ \A j \in Items \ {i} : issues'[j] <= mishaps' + raced' + Owed(j)'
  <2>1. me.item = {}
    BY <1>3, <1>9
  <2>2. issues'[i] <= issues[i] + 1 /\ \A j \in Items \ {i} : issues'[j] = issues[j]
    BY <1>3, <1>9 DEF TypeOK
  <2>3. Unseen(i) \in {0, 1} /\ race(i) \in {0, 1}
    BY DEF Unseen
  <2>4. Unrecorded(i) <=> Racing(w, i)
    BY <1>2, <2>1
  <2>5. Owed(i) \in {0, 1} /\ Owed(i) <= Unseen(i) + race(i)
    BY <2>4 DEF Owed, Remembered, Unseen
  <2>6. issues[i] <= mishaps + raced + Owed(i)
    BY DEF Budget
  <2>7. issues[i] <= mishaps + raced + Unseen(i) + race(i)
    <3> HIDE DEF race
    <3> QED
      BY <1>3, <2>3, <2>5, <2>6
  <2>8. \A j \in Items \ {i} : issues'[j] <= mishaps' + raced' + Owed(j)'
    BY <1>5, <1>9, <2>1, <2>2
  <2> QED
    BY <2>1, <2>2, <2>3, <2>7, <2>8
<1>10. ASSUME NEW i \in Items, Issued(w, g, i) PROVE Budget'
  <2>1. /\ me.at = "work" /\ g.item = {i} /\ g.at = "record" /\ mishaps' = mishaps + Unseen(i)
        /\ issues' = [issues EXCEPT ![i] = @ + 1] /\ rows' = rows /\ CountRace(w, i)
    BY <1>10 DEF Issued
  <2>2. raced' = raced + race(i) /\ raced <= raced'
    BY <1>3, <2>1 DEF CountRace
  <2>3. /\ issues'[i] <= issues[i] + 1 /\ issues[i] <= mishaps + raced + Unseen(i) + race(i)
        /\ Unseen(i) \in {0, 1} /\ race(i) \in {0, 1}
        /\ \A j \in Items \ {i} : issues'[j] <= mishaps' + raced' + Owed(j)'
    <3> HIDE DEF race
    <3> QED
      BY <1>9, <2>1, <2>2
  <2>4. Owed(i)' = 1
    BY <1>2, <2>1 DEF Owed, Remembered
  <2>5. issues'[i] <= mishaps' + raced' + Owed(i)'
    <3> HIDE DEF race
    <3> QED
      BY <1>3, <2>1, <2>2, <2>3, <2>4
  <2> QED
    BY <1>4, <2>1, <2>3, <2>5
<1>11. ASSUME NEW i \in Items, Missed(w, g, i) PROVE Budget'
  <2>1. /\ me.at = "work" /\ g.item = me.item /\ mishaps' = mishaps + 1 + Unseen(i)
        /\ issues' = [issues EXCEPT ![i] = @ + 1] \/ issues' = issues
        /\ rows' = [rows EXCEPT ![i] = "failed"] /\ raced' = raced
    BY <1>11 DEF Missed
  <2>2. (\A j \in Items \ {i} : rows'[j] = rows[j]) /\ raced <= raced'
    BY <1>3, <2>1 DEF TypeOK
  <2>3. /\ me.item = {} /\ issues'[i] <= issues[i] + 1
        /\ issues[i] <= mishaps + raced + Unseen(i) + race(i)
        /\ Unseen(i) \in {0, 1} /\ race(i) \in {0, 1}
        /\ \A j \in Items \ {i} : issues'[j] <= mishaps' + raced' + Owed(j)'
    <3> HIDE DEF race
    <3> QED
      BY <1>9, <2>1, <2>2
  <2>4. Owed(i)' \in {0, 1} /\ race(i) <= Owed(i)'
    BY <1>2 DEF Owed, Remembered
  <2>5. issues'[i] <= mishaps' + raced' + Owed(i)'
    <3> HIDE DEF race
    <3> QED
      BY <1>3, <2>1, <2>3, <2>4
  <2> QED
    BY <1>4, <2>1, <2>3, <2>5
<1> QED
  BY <1>6, <1>7, <1>8, <1>10, <1>11 DEF Moves

\* A goroutine that ends with an item at hand ends by a mishap.
LEMMA EndedBudget ==
    ASSUME WorkConstants, TypeOK, TypeOK', Budget, mishaps <= mishaps',
           NEW w \in Workers, Ended(w)
    PROVE  Budget'
<1>1. NoWork.item = {}
  BY DEF NoWork
<1>2. /\ End(w) /\ UNCHANGED <<issues, rows, raced>>
      /\ worker[w].at = "record" => mishaps' = mishaps + 1
  BY DEF Ended
<1>3. worker'[w].item = {} /\ \A v \in Workers \ {w} : worker'[v] = worker[v]
  BY <1>1, <1>2 DEF End, TypeOK
<1>4. mishaps \in Nat /\ raced \in Nat /\ (worker[w].item # {} => worker[w].at = "record")
  BY DEF TypeOK, Budget
<1>5. \A i : mishaps' > mishaps \/ (Remembered(i) => Remembered(i)')
  <2>1. CASE worker[w].item # {}
    BY <1>2, <1>4, <2>1
  <2>2. CASE worker[w].item = {}
    BY <1>2, <1>3, <2>2 DEF Remembered, Unrecorded
  <2> QED
    BY <2>1, <2>2
<1>6. raced <= raced'
  BY <1>2, <1>4
<1>7. ASSUME NEW i \in Items PROVE issues'[i] <= mishaps' + raced' + Owed(i)'
  BY <1>2, <1>5, <1>6, BudgetKept
<1>8. \A v \in Workers : worker'[v].item # {} => worker'[v].at = "record"
  BY <1>3 DEF Budget
<1> QED
  BY <1>7, <1>8 DEF Budget

\* With the rows of PostgreSQL, and however many replicas and goroutines work on whatever copies:
\* all the issues of an item but one are paid for with a crash, a time-out, a lost answer or a
\* failed write, or with a second goroutine that created its issue before the first wrote its row.
THEOREM WorkBudget ==
    ASSUME Tracked
    PROVE  Spec => []IssuesWithinMishaps
<1> USE WorkConstants
<1>1. Init => Budget
  <2> SUFFICES ASSUME Init PROVE Budget
    OBVIOUS
  <2>1. \A w \in Workers : worker[w].item = {}
    BY DEF Init, NoWork
  <2>2. \A i \in Items : issues[i] = 0
    BY DEF Init
  <2>3. mishaps = 0 /\ raced = 0
    BY DEF Init
  <2>4. \A i \in Items : Owed(i) = 0
    BY <2>1 DEF Init, Unrecorded, Remembered, Owed
  <2> QED
    BY <2>1, <2>2, <2>3, <2>4 DEF Budget
<1>2. TypeOK /\ TypeOK' /\ Budget /\ [Next]_vars => Budget'
  <2> SUFFICES ASSUME TypeOK, TypeOK', Budget, [Next]_vars PROVE Budget'
    OBVIOUS
  <2>1. ASSUME UNCHANGED <<worker, issues, rows, raced, mishaps>> PROVE Budget'
    BY <2>1 DEF Budget, Owed, Remembered, Unrecorded
  <2>2. CASE EditFilters \/ Delete \/ \E r \in Replicas : CacheSync(r)
    BY <2>1, <2>2 DEF EditFilters, Delete, CacheSync
  <2>3. ASSUME NEW r \in Replicas, Crash(r) PROVE Budget'
    <3>1. /\ mishaps' = mishaps + 1 /\ mishaps \in Nat /\ UNCHANGED <<issues, rows, raced>>
          /\ raced <= raced'
      BY <2>3 DEF Crash, Mishap, Mishaps, TypeOK
    <3>2. NoWork.item = {}
      BY DEF NoWork
    <3>3. \A w \in Workers : worker'[w].item # {} => worker'[w].at = "record"
      BY <2>3, <3>2 DEF Crash, Budget
    <3>4. ASSUME NEW i \in Items PROVE issues'[i] <= mishaps' + raced' + Owed(i)'
      BY <3>1, BudgetKept
    <3> QED
      BY <3>3, <3>4 DEF Budget
  <2>4. ASSUME NEW w \in Workers, Work(w) PROVE Budget'
    <3>1. /\ mishaps <= mishaps'
          /\ Ended(w) \/ \E g \in Goroutine : GoOn(w, g) /\ Moves(w, g)
      BY <2>4, WorkEffect
    <3> QED
      BY <3>1, EndedBudget, MovesBudget
  <2>5. CASE UNCHANGED vars
    BY <2>1, <2>5 DEF vars
  <2> QED
    BY <2>2, <2>3, <2>4, <2>5, ReconcileBudget DEF Next
<1>3. TypeOK /\ Budget => IssuesWithinMishaps
  <2> SUFFICES ASSUME TypeOK, Budget, NEW i \in Items PROVE issues[i] <= 1 + mishaps + raced
    BY DEF IssuesWithinMishaps
  <2>1. /\ issues[i] <= mishaps + raced + Owed(i) /\ issues[i] \in Nat
        /\ mishaps \in Nat /\ raced \in Nat
    BY DEF Budget, TypeOK
  <2>2. Owed(i) \in {0, 1}
    BY DEF Owed
  <2> QED
    BY <2>1, <2>2
<1> QED
  BY <1>1, <1>2, <1>3, WorkTypeCorrect, PTL DEF Spec
=============================================================================
