------------------------- MODULE BatchMigrationProofs -------------------------
(* Theorems about BatchMigration, for any workers, pods, resources, names,    *)
(* specs, edits and mishaps: whoever may write holds the batch and has every  *)
(* outcome, the workers implement BatchClaim, and work is repeated only for   *)
(* an edit or a mishap.                                                       *)
EXTENDS BatchMigration, FiniteSetTheorems, TLAPS

Phases == {"", "Pending", "Claimed", "Processing", "Stale", "Retrying",
           "Completed", "Failed"}

\* Every version of the object there may be.
Batch == [spec : SUBSET Resources, phase : Phases, owner : Ids \cup {NoWorker},
          lease : 0 .. 2, wait : BOOLEAN,
          statuses : [Names -> {"none", "Completed", "Failed"}],
          failed : Nat, retries : Nat]

TypeOK ==
    /\ obj \in Batch
    /\ cache \in [Workers -> Batch]
    /\ synced \in [Workers -> BOOLEAN]
    /\ mem \in [Workers -> Batch]
    /\ current \in [Workers -> BOOLEAN]
    /\ pc \in [Workers -> {"idle", "got", "loop"}]
    /\ queued \in [Workers -> BOOLEAN]
    /\ pod \in [Workers -> 0 .. MaxPods]
    /\ ran \in [Names -> Nat]
    /\ edits \in Nat
    /\ mishaps \in Nat

\* Who holds a version of the batch, by its phase; a failure is counted.
Sane(o) ==
    /\ o.phase = "" => \A n \in Names : o.statuses[n] = "none"
    /\ o.phase \in {"", "Pending", "Retrying"} => o.owner = NoWorker
    /\ o.phase \in {"Claimed", "Processing", "Stale"} => o.owner \in Ids
    /\ (\E n \in Names : o.statuses[n] = "Failed") => o.failed > 0

Recorded(o, n) == o.statuses[n] # "none"

\* No outcome of o is missing in p.
Covers(p, o) == \A n \in Names : Recorded(o, n) => p.statuses[n] = o.statuses[n]

\* A cache that is not behind has the batch.
Cached == \A w \in Workers : Sane(cache[w]) /\ (synced[w] => cache[w] = obj)

\* What a worker has read is the batch, unless it is outdated.
Reading(w) == pc[w] = "got" /\ current[w] => mem[w] = obj

\* A worker in the loop has read a batch of its own; if its copy is not outdated,
\* it holds the batch, and what it may write loses nothing.
Looping(w) ==
    pc[w] = "loop" =>
        /\ Working(w, mem[w])
        /\ current[w] => /\ Working(w, obj) /\ mem[w].spec = obj.spec
                         /\ Covers(mem[w], obj)

\* The inductive invariant.
Exclusive ==
    /\ TypeOK
    /\ Sane(obj)
    /\ Cached
    /\ \A w \in Workers : Sane(mem[w]) /\ Reading(w) /\ Looping(w)

\* Nobody but w holds the batch.
NoOther(w) == \A v \in Workers \ {w} :
                 obj.phase \in {"Claimed", "Processing"} => ~Owns(v, obj)

-----------------------------------------------------------------------------
(* The operators on versions of the batch.                                 *)

\* The name of a pod is a name, and no two workers share it.
LEMMA WorkerNames ==
    ASSUME BatchAssumption, TypeOK, NEW w \in Workers
    PROVE  /\ WorkerID(w) \in Ids
           /\ WorkerID(w) # NoWorker
           /\ \A v \in Workers : WorkerID(v) = WorkerID(w) => v = w
BY DEF BatchAssumption, TypeOK, WorkerID, Ids

\* The batch as it is created.
LEMMA CreatedSane ==
    ASSUME BatchAssumption, NEW s \in SUBSET Resources
    PROVE  Created(s) \in Batch /\ Sane(Created(s))
BY DEF Created, Batch, Sane, Phases

\* Time changes neither the spec nor the phase nor the owner nor the entries.
LEMMA AgedSane ==
    ASSUME BatchAssumption, NEW o \in Batch, Sane(o)
    PROVE  /\ Aged(o) \in Batch /\ Sane(Aged(o))
           /\ Aged(o).phase = o.phase /\ Aged(o).owner = o.owner
           /\ Aged(o).statuses = o.statuses /\ Aged(o).spec = o.spec
<1> DEFINE l == IF o.lease > 0 THEN o.lease - 1 ELSE 0
<1>0. l \in 0 .. 2
  BY DEF Batch
<1>1. Aged(o) \in Batch
  <2>1. Aged(o) = [o EXCEPT !.lease = l, !.wait = FALSE]
    BY DEF Aged
  <2> HIDE DEF l
  <2> QED
    BY <1>0, <2>1 DEF Batch
<1>2. /\ Aged(o).phase = o.phase /\ Aged(o).owner = o.owner
      /\ Aged(o).statuses = o.statuses /\ Aged(o).failed = o.failed
      /\ Aged(o).spec = o.spec
  BY DEF Aged, Batch
<1> QED
  BY <1>1, <1>2 DEF Sane

\* The batch is prepared: it has no entries and nobody holds it.
LEMMA PreparedSane ==
    ASSUME BatchAssumption, NEW o \in Batch, Sane(o), o.phase = "",
           NEW p, p = [o EXCEPT !.phase = "Pending", !.failed = 0, !.retries = 0]
    PROVE  /\ p \in Batch /\ Sane(p) /\ p.phase = "Pending" /\ p.owner = o.owner
           /\ p.statuses = o.statuses /\ p.spec = o.spec
<1>1. /\ p \in Batch /\ p.phase = "Pending" /\ p.owner = o.owner
      /\ p.statuses = o.statuses /\ p.spec = o.spec
  BY DEF Batch, Phases
<1>2. o.owner = NoWorker /\ \A n \in Names : o.statuses[n] = "none"
  BY DEF Sane
<1> QED
  BY <1>1, <1>2 DEF Sane

\* The batch is claimed.
LEMMA ClaimedSane ==
    ASSUME NEW o \in Batch, Sane(o), NEW id \in Ids, NEW p,
           p = [o EXCEPT !.phase = "Claimed", !.owner = id, !.lease = 2]
    PROVE  /\ p \in Batch /\ Sane(p) /\ p.phase = "Claimed" /\ p.owner = id
           /\ p.statuses = o.statuses /\ p.spec = o.spec
<1> DEFINE q == [o EXCEPT !.phase = "Claimed", !.owner = id]
<1>1. q \in Batch /\ q.phase = "Claimed" /\ q.owner = id
      /\ q.statuses = o.statuses /\ q.failed = o.failed /\ q.spec = o.spec
  BY DEF Batch, Phases
<1>2. p = [q EXCEPT !.lease = 2]
  BY DEF q
<1> HIDE DEF q
<1>3. p \in Batch /\ p.phase = "Claimed" /\ p.owner = id
      /\ p.statuses = o.statuses /\ p.failed = o.failed /\ p.spec = o.spec
  BY <1>1, <1>2 DEF Batch
<1> QED
  BY <1>3 DEF Sane

\* The batch is free again.
LEMMA FreedSane ==
    ASSUME NEW o \in Batch, Sane(o), NEW p,
           p = [o EXCEPT !.phase = "Pending", !.owner = NoWorker, !.lease = 0]
    PROVE  /\ p \in Batch /\ Sane(p) /\ p.phase = "Pending" /\ p.owner = NoWorker
           /\ p.statuses = o.statuses /\ p.spec = o.spec
<1> DEFINE q == [o EXCEPT !.phase = "Pending", !.owner = NoWorker]
<1>1. q \in Batch /\ q.phase = "Pending" /\ q.owner = NoWorker
      /\ q.statuses = o.statuses /\ q.failed = o.failed /\ q.spec = o.spec
  BY DEF Batch, Phases
<1>2. p = [q EXCEPT !.lease = 0]
  BY DEF q
<1> HIDE DEF q
<1>3. p \in Batch /\ p.phase = "Pending" /\ p.owner = NoWorker
      /\ p.statuses = o.statuses /\ p.failed = o.failed /\ p.spec = o.spec
  BY <1>1, <1>2 DEF Batch
<1> QED
  BY <1>3 DEF Sane

\* A change of the phase alone, to one that has a holder as well.
LEMMA MovedSane ==
    ASSUME NEW o \in Batch, Sane(o), o.phase \in {"Claimed", "Processing"},
           NEW phase \in {"Processing", "Stale"}, NEW p, p = [o EXCEPT !.phase = phase]
    PROVE  /\ p \in Batch /\ Sane(p) /\ p.phase = phase /\ p.owner = o.owner
           /\ p.statuses = o.statuses /\ p.spec = o.spec
<1>1. /\ p \in Batch /\ p.phase = phase /\ p.owner = o.owner
      /\ p.statuses = o.statuses /\ p.failed = o.failed /\ p.spec = o.spec
  BY DEF Batch, Phases
<1> QED
  BY <1>1 DEF Sane

\* The entry of a resource that is marked, by its name.
LEMMA MarkedEntry ==
    ASSUME NEW o \in Batch, NEW k \in Resources, NEW status
    PROVE  Marked(o, k, status).statuses = [o.statuses EXCEPT ![SourceName[k]] = status]
BY DEF Marked, Batch

\* A resource that is marked had no outcome before, and a failure is counted.
LEMMA MarkedSane ==
    ASSUME BatchAssumption, NEW o \in Batch, Sane(o), o.phase = "Processing",
           NEW k \in Resources, NEW status \in {"Completed", "Failed"},
           ~Processed(o, k)
    PROVE  /\ Marked(o, k, status) \in Batch /\ Sane(Marked(o, k, status))
           /\ Marked(o, k, status).phase = o.phase
           /\ Marked(o, k, status).owner = o.owner
           /\ Marked(o, k, status).spec = o.spec
           /\ Covers(Marked(o, k, status), o)
<1> DEFINE x == SourceName[k]
           m == Marked(o, k, status)
<1>0. x \in Names
  BY DEF BatchAssumption
<1>1. m \in Batch
  <2> DEFINE f == IF status = "Failed" THEN o.failed + 1 ELSE o.failed
             t == [o.statuses EXCEPT ![x] = status]
  <2>1. f \in Nat /\ t \in [Names -> {"none", "Completed", "Failed"}]
    BY <1>0 DEF Batch
  <2>2. m = [o EXCEPT !.statuses = t, !.failed = f]
    BY DEF Marked
  <2> HIDE DEF f, t, m
  <2> QED
    BY <2>1, <2>2 DEF Batch
<1>2. m.phase = o.phase /\ m.owner = o.owner /\ m.spec = o.spec
  BY DEF Marked, Batch
<1>3. m.statuses = [o.statuses EXCEPT ![x] = status]
  BY DEF Marked, Batch
<1>4. m.failed = IF status = "Failed" THEN o.failed + 1 ELSE o.failed
  BY DEF Marked, Batch
<1>5. Covers(m, o)
  BY <1>0, <1>3 DEF Covers, Recorded, Processed, Batch
<1>6. (\E j \in Names : m.statuses[j] = "Failed") => m.failed > 0
  BY <1>0, <1>3, <1>4 DEF Sane, Batch
<1> QED
  BY <1>1, <1>2, <1>3, <1>5, <1>6 DEF Sane

\* A batch that is retried belongs to nobody.
LEMMA RetriedSane ==
    ASSUME BatchAssumption, NEW o \in Batch, Sane(o)
    PROVE  /\ Retried(o) \in Batch /\ Sane(Retried(o))
           /\ Retried(o).statuses = o.statuses /\ Retried(o).spec = o.spec
<1>1. CASE o.retries >= MaxRetries
  <2>1. Retried(o) = [o EXCEPT !.phase = "Failed"]
    BY <1>1 DEF Retried, Failing
  <2> QED
    BY <2>1 DEF Sane, Batch, Phases
<1>2. CASE ~(o.retries >= MaxRetries)
  <2>1. Retried(o) = [o EXCEPT !.phase = "Retrying", !.retries = @ + 1, !.wait = TRUE,
                               !.owner = NoWorker, !.lease = 0]
    BY <1>2 DEF Retried
  <2>2. Retried(o) \in Batch
    <3> DEFINE n == o.retries + 1
               p == [o EXCEPT !.phase = "Retrying", !.retries = n]
               q == [p EXCEPT !.wait = TRUE]
               u == [q EXCEPT !.owner = NoWorker]
    <3>1. n \in Nat
      BY DEF Batch
    <3>2. p \in Batch
      BY <3>1 DEF Batch, Phases
    <3>3. q \in Batch
      <4> HIDE DEF p
      <4> QED BY <3>2 DEF Batch
    <3>4. u \in Batch
      <4> HIDE DEF q
      <4> QED BY <3>3 DEF Batch
    <3>5. Retried(o) = [u EXCEPT !.lease = 0]
      BY <2>1
    <3> HIDE DEF u
    <3> QED
      BY <3>4, <3>5 DEF Batch
  <2>3. /\ Retried(o).phase = "Retrying" /\ Retried(o).owner = NoWorker
        /\ Retried(o).statuses = o.statuses /\ Retried(o).failed = o.failed
        /\ Retried(o).spec = o.spec
    BY <2>1 DEF Batch
  <2> QED
    BY <2>2, <2>3 DEF Sane
<1> QED
  BY <1>1, <1>2

\* completeBatch: every resource is completed, or the batch is retried.
LEMMA FinishedSane ==
    ASSUME BatchAssumption, NEW o \in Batch, Sane(o)
    PROVE  /\ Finished(o) \in Batch /\ Sane(Finished(o))
           /\ Finished(o).statuses = o.statuses /\ Finished(o).spec = o.spec
<1>1. CASE o.failed = 0
  <2>1. Finished(o) = [o EXCEPT !.phase = "Completed"]
    BY <1>1 DEF Finished
  <2> QED
    BY <2>1 DEF Sane, Batch, Phases
<1>2. CASE o.failed # 0
  BY <1>2, RetriedSane DEF Finished
<1> QED
  BY <1>1, <1>2

-----------------------------------------------------------------------------
(* The frames of the steps.                                                *)

\* The caches after a step that writes, or that changes nothing of them.
LEMMA CachesKeep ==
    ASSUME Exclusive, cache' = cache,
           \/ obj' = obj /\ synced' = synced
           \/ \A v \in Workers : ~synced'[v]
    PROVE  Cached'
BY DEF Exclusive, Cached, Sane

\* One cache receives the batch.
LEMMA RelistedKeeps ==
    ASSUME Sane(obj), Cached, NEW w \in Workers, obj' = obj, cache'[w] = obj,
           \A v \in Workers \ {w} : cache'[v] = cache[v] /\ synced'[v] = synced[v]
    PROVE  Sane(obj)' /\ Cached'
<1>1. Sane(obj)'
  BY DEF Sane
<1>2. ASSUME NEW v \in Workers PROVE Sane(cache[v])' /\ (synced[v] => cache[v] = obj)'
  <2>1. CASE v = w
    BY <2>1 DEF Sane
  <2>2. CASE v # w
    <3>1. Sane(cache[v]) /\ (synced[v] => cache[v] = obj)
      BY DEF Cached
    <3>2. cache'[v] = cache[v] /\ synced'[v] = synced[v]
      BY <2>2
    <3> QED
      BY <3>1, <3>2 DEF Sane
  <2> QED
    BY <2>1, <2>2
<1> QED
  BY <1>1, <1>2 DEF Cached

\* A step of w alone: the others keep what they know, unless w wrote, and then
\* their copies are outdated.
LEMMA OthersKeep ==
    ASSUME BatchAssumption, Exclusive, NEW v \in Workers, pod'[v] = pod[v],
           mem'[v] = mem[v], pc'[v] = pc[v],
           (obj' = obj /\ current'[v] = current[v]) \/ ~current'[v]
    PROVE  Sane(mem[v])' /\ Reading(v)' /\ Looping(v)'
<1>0. Sane(mem[v]) /\ Reading(v) /\ Looping(v)
  BY DEF Exclusive
<1>1. Sane(mem[v])'
  BY <1>0 DEF Sane
<1>2. /\ Working(v, mem[v])' <=> Working(v, mem[v])
      /\ obj' = obj => (Working(v, obj)' <=> Working(v, obj))
  BY DEF WorkerID, Owns, Working
<1>3. CASE obj' = obj /\ current'[v] = current[v]
  BY <1>0, <1>1, <1>2, <1>3 DEF Reading, Looping, Covers, Recorded
<1>4. CASE ~current'[v]
  BY <1>0, <1>1, <1>2, <1>4 DEF Reading, Looping
<1> QED
  BY <1>3, <1>4

\* A worker that returns knows nothing.
LEMMA ReturnForgets ==
    ASSUME BatchAssumption, Exclusive, NEW w \in Workers, Return(w)
    PROVE  /\ mem' \in [Workers -> Batch] /\ pc' \in [Workers -> {"idle", "got", "loop"}]
           /\ pc'[w] = "idle" /\ Sane(mem[w])' /\ Reading(w)' /\ Looping(w)'
           /\ \A v \in Workers \ {w} : mem'[v] = mem[v] /\ pc'[v] = pc[v]
<1>0. Created({}) \in Batch /\ Sane(Created({}))
  <2>1. {} \in SUBSET Resources
    OBVIOUS
  <2> QED
    BY <2>1, CreatedSane
<1>1. /\ mem' \in [Workers -> Batch] /\ pc' \in [Workers -> {"idle", "got", "loop"}]
      /\ mem'[w] = Created({}) /\ pc'[w] = "idle"
      /\ \A v \in Workers \ {w} : mem'[v] = mem[v] /\ pc'[v] = pc[v]
  BY <1>0 DEF Exclusive, TypeOK, Return
<1>2. Sane(mem[w])'
  BY <1>0, <1>1 DEF Sane
<1> QED
  BY <1>1, <1>2 DEF Reading, Looping

\* A step of w alone that leaves the batch as it is.
LEMMA QuietKeeps ==
    ASSUME BatchAssumption, Exclusive, NEW w \in Workers,
           UNCHANGED <<obj, cache, synced, current, pod>>,
           mem' \in [Workers -> Batch], pc' \in [Workers -> {"idle", "got", "loop"}],
           queued' \in [Workers -> BOOLEAN], ran' \in [Names -> Nat],
           edits' \in Nat, mishaps' \in Nat,
           \A v \in Workers \ {w} : mem'[v] = mem[v] /\ pc'[v] = pc[v],
           Sane(mem[w])', Reading(w)', Looping(w)'
    PROVE  Exclusive'
<1>1. TypeOK'
  BY DEF Exclusive, TypeOK
<1>2. Sane(obj)' /\ Cached'
  <2>1. Sane(obj)
    BY DEF Exclusive
  <2> QED
    BY <2>1, CachesKeep DEF Sane
<1>3. ASSUME NEW v \in Workers \ {w} PROVE Sane(mem[v])' /\ Reading(v)' /\ Looping(v)'
  BY OthersKeep
<1> QED
  BY <1>1, <1>2, <1>3 DEF Exclusive

\* A write of w that is accepted.
LEMMA PutKeeps ==
    ASSUME BatchAssumption, Exclusive, NEW w \in Workers, NEW o \in Batch, Put(w, o), Sane(o),
           UNCHANGED <<cache, pod, edits>>,
           mem' \in [Workers -> Batch], pc' \in [Workers -> {"idle", "got", "loop"}],
           queued' \in [Workers -> BOOLEAN], ran' \in [Names -> Nat],
           \A v \in Workers \ {w} : mem'[v] = mem[v] /\ pc'[v] = pc[v],
           Sane(mem[w])', Reading(w)', Looping(w)'
    PROVE  Exclusive'
<1>1. /\ obj' = o /\ current' \in [Workers -> BOOLEAN] /\ synced' \in [Workers -> BOOLEAN]
      /\ mishaps' = mishaps /\ \A v \in Workers : ~synced'[v]
      /\ \A v \in Workers \ {w} : ~current'[v]
  BY DEF Put
<1>2. TypeOK'
  BY <1>1 DEF Exclusive, TypeOK
<1>3. Sane(obj)' /\ Cached'
  BY <1>1, CachesKeep DEF Sane
<1>4. ASSUME NEW v \in Workers \ {w} PROVE Sane(mem[v])' /\ Reading(v)' /\ Looping(v)'
  BY <1>1, OthersKeep
<1> QED
  BY <1>2, <1>3, <1>4 DEF Exclusive

\* A refused write leaves the batch as it is.
LEMMA RefusedQuiet ==
    ASSUME Exclusive, NEW w \in Workers, Refused(w)
    PROVE  UNCHANGED <<obj, synced, current>> /\ mishaps' \in Nat
BY DEF Refused, Mishap, Exclusive, TypeOK

\* A last write of a reconcile keeps the invariant when what it writes is sane.
LEMMA WriteAndReturnKeeps ==
    ASSUME BatchAssumption, Exclusive, NEW w \in Workers, NEW o, WriteAndReturn(w, o),
           current[w] => o \in Batch /\ Sane(o)
    PROVE  Exclusive'
<1>1. /\ mem' \in [Workers -> Batch] /\ pc' \in [Workers -> {"idle", "got", "loop"}]
      /\ Sane(mem[w])' /\ Reading(w)' /\ Looping(w)'
      /\ \A v \in Workers \ {w} : mem'[v] = mem[v] /\ pc'[v] = pc[v]
  BY ReturnForgets DEF WriteAndReturn
<1>2. /\ UNCHANGED <<cache, pod, edits>> /\ ran' \in [Names -> Nat] /\ edits' \in Nat
      /\ queued' \in [Workers -> BOOLEAN]
  BY DEF WriteAndReturn, Exclusive, TypeOK
<1>3. CASE Put(w, o)
  <2>1. o \in Batch /\ Sane(o)
    BY <1>3 DEF Put
  <2> QED
    BY <1>1, <1>2, <1>3, <2>1, PutKeeps
<1>4. CASE Refused(w)
  BY <1>1, <1>2, <1>4, RefusedQuiet, QuietKeeps
<1> QED
  BY <1>3, <1>4 DEF WriteAndReturn

\* A reconcile that returns without a write keeps the invariant.
LEMMA ReturnOnlyKeeps ==
    ASSUME BatchAssumption, Exclusive, NEW w \in Workers, NEW again \in BOOLEAN,
           ReturnOnly(w, again)
    PROVE  Exclusive'
<1>1. /\ mem' \in [Workers -> Batch] /\ pc' \in [Workers -> {"idle", "got", "loop"}]
      /\ Sane(mem[w])' /\ Reading(w)' /\ Looping(w)'
      /\ \A v \in Workers \ {w} : mem'[v] = mem[v] /\ pc'[v] = pc[v]
  BY ReturnForgets DEF ReturnOnly
<1>2. /\ UNCHANGED <<obj, cache, synced, current, pod>> /\ queued' \in [Workers -> BOOLEAN]
      /\ ran' \in [Names -> Nat] /\ edits' \in Nat /\ mishaps' \in Nat
  BY DEF ReturnOnly, Exclusive, TypeOK
<1> QED
  BY <1>1, <1>2, QuietKeeps

\* A copy that was read and is not outdated is the batch; nobody else holds a
\* batch that it shows as free, or as held by w.
LEMMA CurrentCopy ==
    ASSUME BatchAssumption, Exclusive, NEW w \in Workers, pc[w] = "got", current[w]
    PROVE  /\ mem[w] = obj /\ mem[w] \in Batch /\ Sane(mem[w]) /\ Covers(mem[w], obj)
           /\ mem[w].phase \notin {"Claimed", "Processing"} \/ Owns(w, mem[w]) => NoOther(w)
<1>1. mem[w] = obj /\ mem[w] \in Batch /\ Sane(mem[w]) /\ Covers(mem[w], obj)
  BY DEF Exclusive, Reading, TypeOK, Covers
<1>2. ASSUME mem[w].phase \notin {"Claimed", "Processing"} \/ Owns(w, mem[w]) PROVE NoOther(w)
  BY <1>1, <1>2, WorkerNames DEF NoOther, Owns, Exclusive
<1> QED
  BY <1>1, <1>2

\* A worker in the loop; if its copy is not outdated, it is alone with the batch.
LEMMA LoopAlone ==
    ASSUME BatchAssumption, Exclusive, NEW w \in Workers, pc[w] = "loop"
    PROVE  /\ mem[w] \in Batch /\ Sane(mem[w]) /\ Working(w, mem[w])
           /\ current[w] => /\ NoOther(w) /\ Working(w, obj) /\ mem[w].spec = obj.spec
                            /\ Covers(mem[w], obj)
BY WorkerNames DEF Exclusive, Looping, NoOther, TypeOK, Working, Owns

-----------------------------------------------------------------------------
(* The steps.                                                              *)

\* The handlers that end in one write.
LEMMA WritingHandlersKeep ==
    ASSUME BatchAssumption, Exclusive, NEW w \in Workers,
           \/ InitializeStatus(w) \/ ClaimBatch(w) \/ ProcessClaimed(w)
           \/ ProcessStale(w) \/ ProcessRetrying(w) \/ CompleteBatch(w)
    PROVE  Exclusive'
<1>0. mem[w] \in Batch /\ Sane(mem[w])
  BY DEF Exclusive, TypeOK
<1>1. CASE InitializeStatus(w)
  <2>1. PICK o : /\ WriteAndReturn(w, o)
                 /\ o = [mem[w] EXCEPT !.phase = "Pending", !.failed = 0, !.retries = 0]
    BY <1>1 DEF InitializeStatus
  <2>2. mem[w].phase = ""
    BY <1>1 DEF InitializeStatus, Got
  <2>3. o \in Batch /\ Sane(o)
    BY <1>0, <2>1, <2>2, PreparedSane
  <2> QED
    BY <2>1, <2>3, WriteAndReturnKeeps
<1>2. CASE ClaimBatch(w)
  <2>1. PICK id, o : /\ id = WorkerID(w) /\ WriteAndReturn(w, o)
                     /\ o = [mem[w] EXCEPT !.phase = "Claimed", !.owner = id, !.lease = 2]
    BY <1>2 DEF ClaimBatch
  <2>2. id \in Ids
    BY <2>1, WorkerNames DEF Exclusive
  <2>3. o \in Batch /\ Sane(o)
    BY <1>0, <2>1, <2>2, ClaimedSane
  <2> QED
    BY <2>1, <2>3, WriteAndReturnKeeps
<1>3. CASE ProcessClaimed(w)
  <2>1. PICK o : WriteAndReturn(w, o) /\ o = [mem[w] EXCEPT !.phase = "Processing"]
    BY <1>3 DEF ProcessClaimed
  <2>2. mem[w].phase = "Claimed"
    BY <1>3 DEF ProcessClaimed, Got
  <2>3. o \in Batch /\ Sane(o)
    BY <1>0, <2>1, <2>2, MovedSane
  <2> QED
    BY <2>1, <2>3, WriteAndReturnKeeps
<1>4. CASE ProcessStale(w)
  BY <1>0, <1>4, RetriedSane, WriteAndReturnKeeps DEF ProcessStale
<1>5. CASE ProcessRetrying(w)
  <2>1. CASE mem[w].wait
    BY <1>5, <2>1, ReturnOnlyKeeps DEF ProcessRetrying
  <2>2. CASE ~mem[w].wait
    <3>1. PICK o : /\ WriteAndReturn(w, o)
                   /\ o = [mem[w] EXCEPT !.phase = "Pending", !.owner = NoWorker, !.lease = 0]
      BY <1>5, <2>2 DEF ProcessRetrying
    <3>2. o \in Batch /\ Sane(o)
      BY <1>0, <3>1, FreedSane
    <3> QED
      BY <3>1, <3>2, WriteAndReturnKeeps
  <2> QED
    BY <2>1, <2>2
<1>6. CASE CompleteBatch(w)
  BY <1>0, <1>6, FinishedSane, WriteAndReturnKeeps DEF CompleteBatch
<1> QED
  BY <1>1, <1>2, <1>3, <1>4, <1>5, <1>6

\* The first of the two writes of a stale batch.
LEMMA MarkStaleKeeps ==
    ASSUME BatchAssumption, Exclusive, NEW w \in Workers, MarkStale(w)
    PROVE  Exclusive'
<1>1. PICK o :
        /\ o = [mem[w] EXCEPT !.phase = "Stale"]
        /\ \/ /\ Put(w, o)
              /\ mem' = [mem EXCEPT ![w] = o]
              /\ pc' = [pc EXCEPT ![w] = "got"]
              /\ UNCHANGED queued
           \/ /\ Refused(w)
              /\ Return(w)
              /\ queued' = [queued EXCEPT ![w] = TRUE]
  BY DEF MarkStale
<1>2. /\ UNCHANGED <<cache, pod, ran, edits>> /\ ran' \in [Names -> Nat] /\ edits' \in Nat
      /\ queued' \in [Workers -> BOOLEAN]
  BY <1>1 DEF MarkStale, Exclusive, TypeOK
<1>3. o \in Batch /\ Sane(o) /\ o.phase = "Stale"
  <2>1. mem[w] \in Batch /\ Sane(mem[w]) /\ mem[w].phase \in {"Claimed", "Processing"}
    BY DEF MarkStale, Got, Exclusive, TypeOK
  <2> QED
    BY <1>1, <2>1, MovedSane
<1>4. CASE /\ Put(w, o) /\ mem' = [mem EXCEPT ![w] = o]
           /\ pc' = [pc EXCEPT ![w] = "got"]
  <2>1. /\ mem' \in [Workers -> Batch] /\ pc' \in [Workers -> {"idle", "got", "loop"}]
        /\ mem'[w] = o /\ pc'[w] = "got" /\ obj' = o
        /\ \A v \in Workers \ {w} : mem'[v] = mem[v] /\ pc'[v] = pc[v]
    BY <1>3, <1>4 DEF Put, Exclusive, TypeOK
  <2>2. Sane(mem[w])' /\ Reading(w)' /\ Looping(w)'
    BY <1>3, <2>1 DEF Sane, Reading, Looping
  <2> QED
    BY <1>2, <1>3, <1>4, <2>1, <2>2, PutKeeps
<1>5. CASE Refused(w) /\ Return(w)
  <2>1. /\ mem' \in [Workers -> Batch] /\ pc' \in [Workers -> {"idle", "got", "loop"}]
        /\ Sane(mem[w])' /\ Reading(w)' /\ Looping(w)'
        /\ \A v \in Workers \ {w} : mem'[v] = mem[v] /\ pc'[v] = pc[v]
    BY <1>5, ReturnForgets
  <2> QED
    BY <1>2, <1>5, <2>1, RefusedQuiet, QuietKeeps
<1> QED
  BY <1>1, <1>4, <1>5

\* A write in the loop, or a renewal before it, that may be refused.
LEMMA LoopWriteKeeps ==
    ASSUME BatchAssumption, Exclusive, NEW w \in Workers, NEW o \in Batch, Sane(o),
           mem' = [mem EXCEPT ![w] = o],
           pc' \in [Workers -> {"idle", "got", "loop"}], pc'[w] = "loop",
           \A v \in Workers \ {w} : pc'[v] = pc[v],
           UNCHANGED <<cache, queued, pod, edits>>, ran' \in [Names -> Nat],
           Working(w, o),
           current[w] => Working(w, obj) /\ o.spec = obj.spec /\ Covers(o, obj),
           Put(w, o) \/ Refused(w)
    PROVE  Exclusive'
<1>1. /\ mem' \in [Workers -> Batch] /\ mem'[w] = o /\ Sane(mem[w])'
      /\ queued' \in [Workers -> BOOLEAN] /\ edits' \in Nat
      /\ \A v \in Workers \ {w} : mem'[v] = mem[v] /\ pc'[v] = pc[v]
  BY DEF Sane, Exclusive, TypeOK
<1>2. Working(w, mem[w])' /\ (obj' = obj => (Working(w, obj)' <=> Working(w, obj)))
  BY <1>1 DEF Working, Owns, WorkerID
<1>3. Reading(w)'
  BY DEF Reading
<1>4. CASE Put(w, o)
  <2>1. obj' = o /\ Working(w, obj)'
    BY <1>1, <1>2, <1>4 DEF Put, Working, Owns, WorkerID
  <2>2. Looping(w)'
    BY <1>1, <1>2, <2>1 DEF Looping, Covers
  <2> QED
    BY <1>1, <1>3, <1>4, <2>2, PutKeeps
<1>5. CASE Refused(w)
  <2>1. UNCHANGED <<obj, synced, current>> /\ mishaps' \in Nat
    BY <1>5, RefusedQuiet
  <2>2. Looping(w)'
    BY <1>1, <1>2, <2>1 DEF Looping, Covers, Recorded
  <2> QED
    BY <1>1, <1>3, <2>1, <2>2, QuietKeeps
<1> QED
  BY <1>4, <1>5

\* A worker enters the loop.
LEMMA EnterLoopKeeps ==
    ASSUME BatchAssumption, Exclusive, NEW w \in Workers, EnterLoop(w)
    PROVE  Exclusive'
<1>1. /\ pc[w] = "got" /\ Working(w, mem[w]) /\ mem[w] \in Batch /\ Sane(mem[w])
      /\ current[w] => mem[w] = obj
  BY DEF EnterLoop, Exclusive, Reading, TypeOK
<1>2. /\ pc' \in [Workers -> {"idle", "got", "loop"}] /\ pc'[w] = "loop"
      /\ \A v \in Workers \ {w} : pc'[v] = pc[v]
      /\ UNCHANGED <<cache, queued, pod, edits>> /\ ran' \in [Names -> Nat]
  BY DEF EnterLoop, Exclusive, TypeOK
<1>3. CASE mem[w].lease = 1
  <2>1. PICK o : /\ o = [mem[w] EXCEPT !.lease = 2] /\ mem' = [mem EXCEPT ![w] = o]
                 /\ Put(w, o) \/ Refused(w)
    BY <1>3 DEF EnterLoop
  <2>2. /\ o \in Batch /\ o.phase = mem[w].phase /\ o.owner = mem[w].owner
        /\ o.statuses = mem[w].statuses /\ o.failed = mem[w].failed /\ o.spec = mem[w].spec
    BY <1>1, <2>1 DEF Batch
  <2>3. Sane(o) /\ Working(w, o)
    BY <1>1, <2>2 DEF Sane, Working, Owns
  <2>4. current[w] => Working(w, obj) /\ o.spec = obj.spec /\ Covers(o, obj)
    BY <1>1, <2>2 DEF Covers
  <2> QED
    BY <1>2, <2>1, <2>2, <2>3, <2>4, LoopWriteKeeps
<1>4. CASE mem[w].lease # 1
  <2>1. UNCHANGED <<obj, synced, mem, current, mishaps>>
    BY <1>4 DEF EnterLoop
  <2>2. /\ Working(w, mem[w])' /\ (Working(w, obj)' <=> Working(w, obj))
    BY <1>1, <1>2, <2>1 DEF Working, Owns, WorkerID
  <2>3. Sane(mem[w])' /\ Reading(w)'
    BY <1>1, <1>2, <2>1 DEF Sane, Reading
  <2>4. Looping(w)'
    BY <1>1, <2>1, <2>2 DEF Looping, Covers
  <2>5. /\ mem' \in [Workers -> Batch] /\ queued' \in [Workers -> BOOLEAN]
        /\ edits' \in Nat /\ mishaps' \in Nat
    BY <1>2, <2>1 DEF Exclusive, TypeOK
  <2> QED
    BY <1>2, <2>1, <2>3, <2>4, <2>5, QuietKeeps
<1> QED
  BY <1>3, <1>4

\* One resource of the loop.
LEMMA ProcessResourceKeeps ==
    ASSUME BatchAssumption, Exclusive, NEW w \in Workers, ProcessResource(w)
    PROVE  Exclusive'
<1>2. /\ mem[w] \in Batch /\ Sane(mem[w]) /\ Working(w, mem[w])
      /\ current[w] => Working(w, obj) /\ mem[w].spec = obj.spec /\ Covers(mem[w], obj)
  BY LoopAlone DEF ProcessResource
<1>1. PICK k \in Resources, status \in {"Completed", "Failed"} :
          /\ ~Processed(mem[w], k)
          /\ mem' = [mem EXCEPT ![w] = Marked(mem[w], k, status)]
          /\ ran' = [ran EXCEPT ![SourceName[k]] = @ + 1]
          /\ Put(w, Marked(mem[w], k, status)) \/ Refused(w)
  <2>1. mem[w].spec \subseteq Resources
    BY <1>2 DEF Batch
  <2> QED
    BY <2>1 DEF ProcessResource
<1> DEFINE o == Marked(mem[w], k, status)
<1>5. /\ o \in Batch /\ Sane(o) /\ o.phase = mem[w].phase /\ o.owner = mem[w].owner
      /\ o.spec = mem[w].spec /\ Covers(o, mem[w])
  BY <1>1, <1>2, MarkedSane DEF Working
<1> HIDE DEF o
<1>6. Working(w, o)
  BY <1>2, <1>5 DEF Working, Owns
<1>7. current[w] => Working(w, obj) /\ o.spec = obj.spec /\ Covers(o, obj)
  BY <1>2, <1>5 DEF Covers, Recorded
<1>8. /\ pc' \in [Workers -> {"idle", "got", "loop"}] /\ pc'[w] = "loop"
      /\ \A v \in Workers \ {w} : pc'[v] = pc[v]
      /\ UNCHANGED <<cache, queued, pod, edits>>
  BY DEF ProcessResource, Exclusive, TypeOK
<1>10. ran' \in [Names -> Nat]
  <2>1. ran \in [Names -> Nat] /\ SourceName[k] \in Names
    BY DEF Exclusive, TypeOK, BatchAssumption
  <2> QED
    BY <1>1, <2>1
<1>9. mem' = [mem EXCEPT ![w] = o] /\ (Put(w, o) \/ Refused(w))
  BY <1>1 DEF o
<1> QED
  BY <1>5, <1>6, <1>7, <1>8, <1>9, <1>10, LoopWriteKeeps

\* Reading the batch, perhaps an outdated copy of it.
LEMMA GetKeeps ==
    ASSUME BatchAssumption, Exclusive, NEW w \in Workers, Get(w)
    PROVE  Exclusive'
<1>1. /\ UNCHANGED <<obj, cache, synced, pod>> /\ mem'[w] = cache[w] /\ pc'[w] = "got"
      /\ current'[w] = synced[w]
      /\ \A v \in Workers \ {w} :
            mem'[v] = mem[v] /\ pc'[v] = pc[v] /\ current'[v] = current[v]
  BY DEF Get, Exclusive, TypeOK
<1>2. TypeOK'
  BY DEF Get, Mishap, Exclusive, TypeOK
<1>3. Sane(cache[w]) /\ (synced[w] => cache[w] = obj) /\ Sane(obj)
  BY DEF Exclusive, Cached
<1>4. Sane(obj)' /\ Cached' /\ Sane(mem[w])'
  BY <1>1, <1>3, CachesKeep DEF Sane
<1>5. Reading(w)' /\ Looping(w)'
  BY <1>1, <1>3 DEF Reading, Looping
<1>6. ASSUME NEW v \in Workers \ {w} PROVE Sane(mem[v])' /\ Reading(v)' /\ Looping(v)'
  BY <1>1, OthersKeep
<1> QED
  BY <1>2, <1>4, <1>5, <1>6 DEF Exclusive

\* The latest version arrives.
LEMMA CacheSyncKeeps ==
    ASSUME BatchAssumption, Exclusive, NEW w \in Workers, CacheSync(w)
    PROVE  Exclusive'
<1>1. /\ UNCHANGED <<obj, mem, current, pc, pod>> /\ cache'[w] = obj
      /\ \A v \in Workers \ {w} : cache'[v] = cache[v] /\ synced'[v] = synced[v]
  BY DEF CacheSync, Exclusive, TypeOK
<1>2. TypeOK'
  BY DEF CacheSync, Exclusive, TypeOK
<1>3. Sane(obj) /\ Cached
  BY DEF Exclusive
<1>4. Sane(obj)' /\ Cached'
  BY <1>1, <1>3, RelistedKeeps
<1>5. ASSUME NEW v \in Workers PROVE Sane(mem[v])' /\ Reading(v)' /\ Looping(v)'
  BY <1>1, OthersKeep
<1> QED
  BY <1>2, <1>4, <1>5 DEF Exclusive

\* Time passes.
LEMMA TickKeeps ==
    ASSUME BatchAssumption, Exclusive, Tick
    PROVE  Exclusive'
<1>1. /\ Sane(obj) /\ obj \in Batch
      /\ \A w \in Workers : /\ mem[w] \in Batch /\ Sane(mem[w])
                            /\ cache[w] \in Batch /\ Sane(cache[w])
  BY DEF Exclusive, TypeOK, Cached
<1>2. /\ obj' \in Batch /\ obj' = Aged(obj) /\ Sane(Aged(obj))
      /\ obj'.phase = obj.phase /\ obj'.owner = obj.owner
      /\ obj'.statuses = obj.statuses /\ obj'.spec = obj.spec
  BY <1>1, AgedSane DEF Tick
<1>3. \A w \in Workers :
          /\ mem'[w] \in Batch /\ mem'[w] = Aged(mem[w]) /\ Sane(Aged(mem[w]))
          /\ mem'[w].phase = mem[w].phase /\ mem'[w].owner = mem[w].owner
          /\ mem'[w].statuses = mem[w].statuses /\ mem'[w].spec = mem[w].spec
  BY <1>1, AgedSane DEF Tick
<1>4. \A w \in Workers :
          cache'[w] \in Batch /\ cache'[w] = Aged(cache[w]) /\ Sane(Aged(cache[w]))
  BY <1>1, AgedSane DEF Tick
<1>5. TypeOK'
  BY <1>2, <1>3, <1>4 DEF Tick, Exclusive, TypeOK
<1>6. Sane(obj)'
  BY <1>2 DEF Sane
<1>7. Cached'
  <2> SUFFICES ASSUME NEW w \in Workers
               PROVE  Sane(cache[w])' /\ (synced'[w] => cache'[w] = obj')
    BY DEF Cached
  <2>1. synced'[w] => cache'[w] = obj'
    BY <1>2, <1>4 DEF Tick, Exclusive, Cached
  <2> QED
    BY <1>4, <2>1 DEF Sane
<1>8. ASSUME NEW w \in Workers PROVE Sane(mem[w])' /\ Reading(w)' /\ Looping(w)'
  <2>1. Sane(mem[w])'
    BY <1>3 DEF Sane
  <2>2. /\ Working(w, mem[w])' <=> Working(w, mem[w])
        /\ Working(w, obj)' <=> Working(w, obj)
        /\ pc'[w] = pc[w] /\ current'[w] = current[w]
    BY <1>2, <1>3 DEF WorkerID, Owns, Working, Tick
  <2>3. Reading(w) /\ Looping(w)
    BY DEF Exclusive
  <2>4. Reading(w)'
    BY <1>2, <1>3, <2>2, <2>3 DEF Reading
  <2>5. Looping(w)'
    BY <1>2, <1>3, <2>2, <2>3 DEF Looping, Covers, Recorded
  <2> QED
    BY <2>1, <2>4, <2>5
<1> QED
  BY <1>5, <1>6, <1>7, <1>8 DEF Exclusive

\* A write by somebody else makes every copy outdated.
LEMMA UserKeeps ==
    ASSUME BatchAssumption, Exclusive, User
    PROVE  Exclusive'
<1>1. PICK s \in Specs : obj' = [obj EXCEPT !.spec = s]
  BY DEF User
<1>2. /\ obj' \in Batch /\ obj'.phase = obj.phase /\ obj'.owner = obj.owner
      /\ obj'.statuses = obj.statuses /\ obj'.failed = obj.failed
  <2>1. obj \in Batch /\ s \in SUBSET Resources
    BY DEF Exclusive, TypeOK, BatchAssumption
  <2> QED
    BY <1>1, <2>1 DEF Batch
<1>3. TypeOK'
  BY <1>2 DEF User, Exclusive, TypeOK
<1>4. Sane(obj)'
  BY <1>2 DEF Exclusive, Sane
<1>5. Cached'
  BY CachesKeep DEF User
<1>6. ASSUME NEW w \in Workers PROVE Sane(mem[w])' /\ Reading(w)' /\ Looping(w)'
  BY OthersKeep DEF User
<1> QED
  BY <1>3, <1>4, <1>5, <1>6 DEF Exclusive

\* A crash loses what the worker knew, and perhaps its name.
LEMMA CrashKeeps ==
    ASSUME BatchAssumption, Exclusive, NEW w \in Workers, Crash(w)
    PROVE  Exclusive'
<1>1. /\ mem' \in [Workers -> Batch] /\ pc' \in [Workers -> {"idle", "got", "loop"}]
      /\ Sane(mem[w])' /\ Reading(w)' /\ Looping(w)'
      /\ \A v \in Workers \ {w} : mem'[v] = mem[v] /\ pc'[v] = pc[v]
  BY ReturnForgets DEF Crash
<1>2. /\ obj' = obj /\ pod' \in [Workers -> 0 .. MaxPods] /\ mishaps' \in Nat
      /\ \A v \in Workers \ {w} : current'[v] = current[v] /\ pod'[v] = pod[v]
  BY DEF Crash, Mishap, Exclusive, TypeOK, BatchAssumption
<1>3. TypeOK'
  BY <1>1, <1>2 DEF Crash, Exclusive, TypeOK
<1>4. Sane(obj) /\ Cached
  BY DEF Exclusive
<1>5. Sane(obj)' /\ Cached'
  <2>1. /\ cache'[w] = obj
        /\ \A v \in Workers \ {w} : cache'[v] = cache[v] /\ synced'[v] = synced[v]
    BY DEF Crash, Exclusive, TypeOK
  <2> QED
    BY <1>2, <1>4, <2>1, RelistedKeeps
<1>6. ASSUME NEW v \in Workers \ {w} PROVE Sane(mem[v])' /\ Reading(v)' /\ Looping(v)'
  BY <1>1, <1>2, OthersKeep
<1> QED
  BY <1>1, <1>3, <1>5, <1>6 DEF Exclusive

\* The batch is created sane.
LEMMA InitKeeps ==
    ASSUME BatchAssumption, Init
    PROVE  Exclusive
<1>1. PICK s \in FirstSpecs : obj = Created(s)
  BY DEF Init
<1>2. s \in SUBSET Resources /\ {} \in SUBSET Resources
  BY DEF BatchAssumption
<1>3. /\ obj \in Batch /\ Sane(obj) /\ Created({}) \in Batch /\ Sane(Created({}))
  BY <1>1, <1>2, CreatedSane
<1>4. TypeOK
  BY <1>3 DEF Init, TypeOK, BatchAssumption
<1>5. Cached /\ \A w \in Workers : Sane(mem[w])
  BY <1>3 DEF Init, Cached
<1>6. \A w \in Workers : Reading(w) /\ Looping(w)
  BY DEF Init, Reading, Looping
<1> QED
  BY <1>3, <1>4, <1>5, <1>6 DEF Exclusive

\* Every step keeps the invariant.
LEMMA StepKeeps ==
    ASSUME BatchAssumption, Exclusive, [Next]_vars
    PROVE  Exclusive'
<1>1. CASE User
  BY <1>1, UserKeeps
<1>2. CASE Tick
  BY <1>2, TickKeeps
<1>3. ASSUME NEW w \in Workers, Crash(w) \/ CacheSync(w) PROVE Exclusive'
  BY <1>3, CrashKeeps, CacheSyncKeeps
<1>4. ASSUME NEW w \in Workers, Reconcile(w) PROVE Exclusive'
  <2>1. CASE Get(w)
    BY <2>1, GetKeeps
  <2>2. CASE LeaveAlone(w)
    BY <2>2, ReturnOnlyKeeps DEF LeaveAlone
  <2>3. CASE MarkStale(w)
    BY <2>3, MarkStaleKeeps
  <2>4. CASE EnterLoop(w)
    BY <2>4, EnterLoopKeeps
  <2>5. CASE ProcessResource(w)
    BY <2>5, ProcessResourceKeeps
  <2>6. CASE \/ InitializeStatus(w) \/ ClaimBatch(w) \/ ProcessClaimed(w)
             \/ ProcessStale(w) \/ ProcessRetrying(w) \/ CompleteBatch(w)
    BY <2>6, WritingHandlersKeep
  <2> QED
    BY <1>4, <2>1, <2>2, <2>3, <2>4, <2>5, <2>6 DEF Reconcile
<1>5. CASE UNCHANGED vars
  <2>1. TypeOK' /\ Sane(obj)' /\ Cached'
    BY <1>5 DEF vars, Exclusive, TypeOK, Sane, Cached
  <2>2. ASSUME NEW w \in Workers PROVE Sane(mem[w])' /\ Reading(w)' /\ Looping(w)'
    BY <1>5, OthersKeep DEF vars
  <2> QED
    BY <2>1, <2>2 DEF Exclusive
<1> QED
  BY <1>1, <1>2, <1>3, <1>4, <1>5 DEF Next

-----------------------------------------------------------------------------
(* The theorems.                                                           *)

\* The invariant holds of every behaviour: versions of the batch are well formed
\* and sane, and a copy whose writes would be accepted is the batch, or the batch
\* of its holder with more outcomes.
THEOREM ExclusiveAlways == Spec => []Exclusive
<1>1. Init => Exclusive
  BY BatchAssumption, InitKeeps
<1>2. Exclusive /\ [Next]_vars => Exclusive'
  BY BatchAssumption, StepKeeps
<1> QED
  BY <1>1, <1>2, PTL DEF Spec

\* A worker in the loop whose writes would be accepted holds the batch, and its
\* copy has every outcome that is recorded (OneWriter), although outdated copies
\* send others into the loop, leases expire and pods are replaced.
THEOREM OneWriterAlways == Spec => []OneWriter
<1>1. Exclusive => OneWriter
  BY DEF Exclusive, Looping, OneWriter, Working, Covers, Recorded
<1> QED
  BY <1>1, ExclusiveAlways, PTL

-----------------------------------------------------------------------------
(* The workers implement the claim.                                        *)

\* What the abstract claim sees of the batch.
Wanted(o) == {SourceName[k] : k \in o.spec}
Done(o) == {n \in Names : o.statuses[n] = "Completed"}
Result(o) == IF o.phase \in Terminal
             THEN IF o.phase = "Completed" THEN "completed" ELSE "failed"
             ELSE "open"

\* A step of the abstract claim, or none.
ClaimStep == [Claim!Next]_<<Wanted(obj), obj.owner, Done(obj), Result(obj)>>

\* A write of the holder that keeps the owner and loses nothing is a step of the
\* holder.
LEMMA HolderWrites ==
    ASSUME obj.owner # NoWorker, Result(obj) = "open", obj'.spec = obj.spec,
           obj'.owner \in {obj.owner, NoWorker}, Covers(obj', obj),
           \/ Result(obj') = "open"
           \/ obj'.owner = obj.owner /\ Result(obj') = "failed"
           \/ /\ obj'.owner = obj.owner /\ Result(obj') = "completed"
              /\ Wanted(obj) \subseteq Done(obj')
    PROVE  ClaimStep
<1>1. Done(obj) \subseteq Done(obj') /\ Done(obj') \subseteq Names
  BY DEF Done, Covers, Recorded
<1>2. Wanted(obj') = Wanted(obj)
  BY DEF Wanted
<1> QED
  BY <1>1, <1>2 DEF ClaimStep, Claim!Next, Claim!Hold, Done, Result, Wanted

\* A write that keeps the spec, the owner, the entries and the result is none.
LEMMA UnseenWrite ==
    ASSUME obj'.spec = obj.spec, obj'.owner = obj.owner, obj'.statuses = obj.statuses,
           Result(obj') = Result(obj)
    PROVE  ClaimStep
BY DEF ClaimStep, Done, Wanted

\* A retried batch belongs to nobody or failed with its owner.
LEMMA RetriedResult ==
    ASSUME NEW o \in Batch
    PROVE  \/ Retried(o).owner = NoWorker /\ Result(Retried(o)) = "open"
           \/ Retried(o).owner = o.owner /\ Result(Retried(o)) = "failed"
<1>1. CASE o.retries >= MaxRetries
  <2>1. Retried(o) = [o EXCEPT !.phase = "Failed"]
    BY <1>1 DEF Retried, Failing
  <2>2. Retried(o).owner = o.owner /\ Retried(o).phase = "Failed"
    BY <2>1 DEF Batch
  <2> QED
    BY <2>2 DEF Result, Terminal
<1>2. CASE ~(o.retries >= MaxRetries)
  <2>1. Retried(o) = [o EXCEPT !.phase = "Retrying", !.retries = @ + 1, !.wait = TRUE,
                               !.owner = NoWorker, !.lease = 0]
    BY <1>2 DEF Retried
  <2>2. Retried(o).owner = NoWorker /\ Retried(o).phase = "Retrying"
    BY <2>1 DEF Batch
  <2> QED
    BY <2>2 DEF Result, Terminal
<1> QED
  BY <1>1, <1>2

\* A finished batch is retried, or completed with every name of its spec.
LEMMA FinishedResult ==
    ASSUME BatchAssumption, NEW o \in Batch, Sane(o), \A k \in o.spec : Processed(o, k)
    PROVE  \/ Finished(o).owner = NoWorker /\ Result(Finished(o)) = "open"
           \/ Finished(o).owner = o.owner /\ Result(Finished(o)) = "failed"
           \/ /\ Finished(o).owner = o.owner /\ Result(Finished(o)) = "completed"
              /\ Wanted(o) \subseteq Done(Finished(o))
<1>1. CASE o.failed = 0
  <2>1. Finished(o) = [o EXCEPT !.phase = "Completed"]
    BY <1>1 DEF Finished
  <2>2. /\ Finished(o).owner = o.owner /\ Finished(o).phase = "Completed"
        /\ Finished(o).statuses = o.statuses
    BY <2>1 DEF Batch
  <2>3. \A k \in o.spec : SourceName[k] \in Names /\ o.statuses[SourceName[k]] = "Completed"
    <3>1. /\ \A n \in Names : o.statuses[n] \in {"none", "Completed", "Failed"}
          /\ \A k \in o.spec : SourceName[k] \in Names
      BY DEF Batch, BatchAssumption
    <3>2. \A n \in Names : o.statuses[n] # "Failed"
      <4>1. ~(o.failed > 0)
        BY <1>1
      <4> QED
        BY <4>1, Zenon DEF Sane
    <3> QED
      BY <3>1, <3>2 DEF Processed
  <2> QED
    BY <2>2, <2>3 DEF Result, Terminal, Done, Wanted
<1>2. CASE o.failed # 0
  BY <1>2, RetriedResult DEF Finished
<1> QED
  BY <1>1, <1>2

\* The handlers that end in one write do what a claim may do.
LEMMA WritesImplement ==
    ASSUME BatchAssumption, Exclusive, NEW w \in Workers, NEW o,
           WriteAndReturn(w, o),
           current[w] /\ obj' = o => ClaimStep
    PROVE  ClaimStep
<1>1. CASE Put(w, o)
  BY <1>1 DEF Put
<1>2. CASE Refused(w)
  BY <1>2, UnseenWrite DEF Refused
<1> QED
  BY <1>1, <1>2 DEF WriteAndReturn

\* The handlers of a batch nobody holds.
LEMMA FreeImplements ==
    ASSUME BatchAssumption, Exclusive, NEW w \in Workers,
           InitializeStatus(w) \/ ClaimBatch(w) \/ ProcessRetrying(w)
    PROVE  ClaimStep
<1> USE DEF Terminal
<1>1. CASE InitializeStatus(w)
  <2>1. PICK o : /\ WriteAndReturn(w, o)
                 /\ o = [mem[w] EXCEPT !.phase = "Pending", !.failed = 0, !.retries = 0]
    BY <1>1 DEF InitializeStatus
  <2>2. ASSUME current[w], obj' = o PROVE ClaimStep
    <3>1. mem[w] = obj /\ obj.phase = "" /\ obj \in Batch /\ Sane(obj)
      BY <1>1, <2>2, CurrentCopy DEF InitializeStatus, Got
    <3>2. o = [obj EXCEPT !.phase = "Pending", !.failed = 0, !.retries = 0]
      BY <2>1, <3>1
    <3>3. /\ o.phase = "Pending" /\ o.owner = obj.owner /\ o.statuses = obj.statuses
          /\ o.spec = obj.spec
      BY <3>1, <3>2, PreparedSane
    <3>4. Result(obj) = "open" /\ Result(obj') = "open"
      BY <2>2, <3>1, <3>3 DEF Result
    <3> QED
      BY <2>2, <3>3, <3>4, UnseenWrite
  <2> QED
    BY <2>1, <2>2, WritesImplement
<1>2. CASE ClaimBatch(w)
  <2>1. PICK id, o : /\ id = WorkerID(w) /\ WriteAndReturn(w, o)
                     /\ o = [mem[w] EXCEPT !.phase = "Claimed", !.owner = id, !.lease = 2]
    BY <1>2 DEF ClaimBatch
  <2>2. ASSUME current[w], obj' = o PROVE ClaimStep
    <3>1. mem[w] = obj /\ obj.phase = "Pending" /\ obj \in Batch /\ Sane(obj)
      BY <1>2, <2>2, CurrentCopy DEF ClaimBatch, Got
    <3>2. id \in Ids /\ obj.owner = NoWorker
      BY <2>1, <3>1, WorkerNames DEF Exclusive, Sane
    <3>3. o = [obj EXCEPT !.phase = "Claimed", !.owner = id, !.lease = 2]
      BY <2>1, <3>1
    <3>4. /\ o.phase = "Claimed" /\ o.owner = id /\ o.statuses = obj.statuses
          /\ o.spec = obj.spec
      BY <3>1, <3>3 DEF Batch
    <3>5. /\ Result(obj) = "open" /\ Result(obj') = "open" /\ Done(obj') = Done(obj)
          /\ Wanted(obj') = Wanted(obj) /\ obj'.owner = id
      BY <2>2, <3>1, <3>4 DEF Result, Done, Wanted
    <3>6. Claim!Acquire(id)
      BY <3>2, <3>5 DEF Claim!Acquire, Result, Done, Wanted
    <3> QED
      BY <3>2, <3>6 DEF ClaimStep, Claim!Next
  <2> QED
    BY <2>1, <2>2, WritesImplement
<1>3. CASE ProcessRetrying(w)
  <2>1. CASE mem[w].wait
    BY <1>3, <2>1, UnseenWrite DEF ProcessRetrying, ReturnOnly
  <2>2. CASE ~mem[w].wait
    <3>1. PICK o : /\ WriteAndReturn(w, o)
                   /\ o = [mem[w] EXCEPT !.phase = "Pending", !.owner = NoWorker, !.lease = 0]
      BY <1>3, <2>2 DEF ProcessRetrying
    <3>2. ASSUME current[w], obj' = o PROVE ClaimStep
      <4>1. mem[w] = obj /\ obj.phase = "Retrying" /\ obj \in Batch /\ Sane(obj)
        BY <1>3, <3>2, CurrentCopy DEF ProcessRetrying, Got
      <4>2. o = [obj EXCEPT !.phase = "Pending", !.owner = NoWorker, !.lease = 0]
        BY <3>1, <4>1
      <4>3. /\ o.phase = "Pending" /\ o.owner = NoWorker /\ o.statuses = obj.statuses
            /\ o.spec = obj.spec
        BY <4>1, <4>2, FreedSane
      <4>4. obj.owner = NoWorker
        BY <4>1 DEF Sane
      <4>5. Result(obj) = "open" /\ Result(obj') = "open"
        BY <3>2, <4>1, <4>3 DEF Result
      <4> QED
        BY <3>2, <4>3, <4>4, <4>5, UnseenWrite
    <3> QED
      BY <3>1, <3>2, WritesImplement
  <2> QED
    BY <2>1, <2>2
<1> QED
  BY <1>1, <1>2, <1>3

\* The last writes of a batch that somebody holds.
LEMMA HeldImplements ==
    ASSUME BatchAssumption, Exclusive, NEW w \in Workers,
           ProcessClaimed(w) \/ ProcessStale(w) \/ CompleteBatch(w)
    PROVE  ClaimStep
<1> USE DEF Terminal
<1>1. CASE ProcessClaimed(w)
  <2>1. PICK o : WriteAndReturn(w, o) /\ o = [mem[w] EXCEPT !.phase = "Processing"]
    BY <1>1 DEF ProcessClaimed
  <2>2. ASSUME current[w], obj' = o PROVE ClaimStep
    <3>1. mem[w] = obj /\ obj.phase = "Claimed" /\ obj \in Batch
      BY <1>1, <2>2, CurrentCopy DEF ProcessClaimed, Got
    <3>2. /\ obj'.phase = "Processing" /\ obj'.owner = obj.owner
          /\ obj'.statuses = obj.statuses /\ obj'.spec = obj.spec
      BY <2>1, <2>2, <3>1 DEF Batch
    <3> QED
      BY <3>1, <3>2, UnseenWrite DEF Result
  <2> QED
    BY <2>1, <2>2, WritesImplement
<1>2. CASE ProcessStale(w)
  <2>1. ASSUME current[w], obj' = Retried(mem[w]) PROVE ClaimStep
    <3>1. mem[w] = obj /\ obj.phase = "Stale" /\ obj \in Batch /\ Sane(obj)
      BY <1>2, <2>1, CurrentCopy DEF ProcessStale, Got
    <3>2. obj.owner # NoWorker /\ Result(obj) = "open"
      BY <3>1 DEF Sane, Result, BatchAssumption
    <3>3. Covers(obj', obj) /\ obj'.spec = obj.spec
      BY <2>1, <3>1, RetriedSane DEF Covers
    <3> QED
      BY <2>1, <3>1, <3>2, <3>3, RetriedResult, HolderWrites
  <2> QED
    BY <1>2, <2>1, WritesImplement DEF ProcessStale
<1>3. CASE CompleteBatch(w)
  <2>1. ASSUME current[w], obj' = Finished(mem[w]) PROVE ClaimStep
    <3>1. /\ obj.phase = "Processing" /\ obj.owner = WorkerID(w)
          /\ mem[w].owner = WorkerID(w) /\ mem[w] \in Batch /\ Sane(mem[w])
          /\ Covers(mem[w], obj) /\ mem[w].spec = obj.spec
      BY <1>3, <2>1, LoopAlone DEF CompleteBatch, Working, Owns
    <3>2. obj.owner # NoWorker /\ Result(obj) = "open"
      BY <3>1, WorkerNames DEF Result, Exclusive
    <3>3. Covers(obj', obj) /\ obj'.spec = obj.spec
      BY <2>1, <3>1, FinishedSane DEF Covers
    <3>4. \A k \in mem[w].spec : Processed(mem[w], k)
      BY <1>3 DEF CompleteBatch
    <3>5. Wanted(mem[w]) = Wanted(obj)
      BY <3>1 DEF Wanted
    <3> QED
      BY <2>1, <3>1, <3>2, <3>3, <3>4, <3>5, FinishedResult, HolderWrites
  <2> QED
    BY <1>3, <2>1, WritesImplement DEF CompleteBatch
<1> QED
  BY <1>1, <1>2, <1>3

\* The steps of the holder before its last write.
LEMMA HolderImplements ==
    ASSUME BatchAssumption, Exclusive, NEW w \in Workers,
           MarkStale(w) \/ EnterLoop(w) \/ ProcessResource(w)
    PROVE  ClaimStep
<1> USE DEF Terminal
<1>1. CASE MarkStale(w)
  <2> DEFINE o == [mem[w] EXCEPT !.phase = "Stale"]
  <2>1. CASE Put(w, o)
    <3>1. /\ mem[w] = obj /\ obj.phase \in {"Claimed", "Processing"} /\ obj \in Batch
          /\ obj' = o
      BY <1>1, <2>1, CurrentCopy DEF MarkStale, Got, Put
    <3>2. /\ obj'.phase = "Stale" /\ obj'.owner = obj.owner
          /\ obj'.statuses = obj.statuses /\ obj'.spec = obj.spec
      BY <3>1 DEF Batch
    <3> QED
      BY <3>1, <3>2, UnseenWrite DEF Result
  <2>2. CASE Refused(w)
    BY <2>2, UnseenWrite DEF Refused
  <2> QED
    BY <1>1, <2>1, <2>2 DEF MarkStale
<1>2. CASE EnterLoop(w)
  <2> DEFINE o == [mem[w] EXCEPT !.lease = 2]
  <2>1. CASE Put(w, o)
    <3>1. mem[w] = obj /\ obj.phase = "Processing" /\ obj \in Batch /\ obj' = o
      BY <1>2, <2>1, CurrentCopy DEF EnterLoop, Working, Put
    <3>2. /\ obj'.phase = obj.phase /\ obj'.owner = obj.owner
          /\ obj'.statuses = obj.statuses /\ obj'.spec = obj.spec
      BY <3>1 DEF Batch
    <3> QED
      BY <3>1, <3>2, UnseenWrite DEF Result
  <2>2. CASE obj' = obj
    BY <2>2, UnseenWrite
  <2> QED
    BY <1>2, <2>1, <2>2 DEF EnterLoop, Refused
<1>3. CASE ProcessResource(w)
  <2>0. mem[w] \in Batch /\ Sane(mem[w]) /\ Working(w, mem[w]) /\ mem[w].spec \subseteq Resources
    BY <1>3, LoopAlone DEF ProcessResource, Batch
  <2>1. PICK k \in Resources, status \in {"Completed", "Failed"} :
            /\ ~Processed(mem[w], k)
            /\ Put(w, Marked(mem[w], k, status)) \/ Refused(w)
    BY <1>3, <2>0 DEF ProcessResource
  <2> DEFINE o == Marked(mem[w], k, status)
  <2>2. CASE Put(w, o)
    <3>1. /\ obj.phase = "Processing" /\ obj.owner = WorkerID(w) /\ current[w]
          /\ mem[w].owner = WorkerID(w) /\ mem[w].phase = "Processing"
          /\ mem[w] \in Batch /\ Sane(mem[w]) /\ Covers(mem[w], obj) /\ obj' = o
          /\ mem[w].spec = obj.spec
      BY <1>3, <2>2, LoopAlone DEF ProcessResource, Working, Owns, Put
    <3>2. /\ o.phase = "Processing" /\ o.owner = WorkerID(w) /\ Covers(o, mem[w])
          /\ o.spec = obj.spec
      BY <2>1, <3>1, MarkedSane
    <3> HIDE DEF o
    <3>3. Covers(obj', obj) /\ obj'.spec = obj.spec
      BY <3>1, <3>2 DEF Covers, Recorded
    <3>4. obj.owner # NoWorker /\ Result(obj) = "open" /\ Result(obj') = "open"
          /\ obj'.owner = obj.owner
      BY <3>1, <3>2, WorkerNames DEF Result, Exclusive
    <3> QED
      BY <3>3, <3>4, HolderWrites
  <2>3. CASE Refused(w)
    BY <2>3, UnseenWrite DEF Refused
  <2> QED
    BY <2>1, <2>2, <2>3
<1> QED
  BY <1>1, <1>2, <1>3

\* An edit of the spec changes what is wanted, and nothing else.
LEMMA UserImplements ==
    ASSUME BatchAssumption, Exclusive, User
    PROVE  ClaimStep
<1>1. PICK s \in Specs : obj' = [obj EXCEPT !.spec = s]
  BY DEF User
<1>2. obj \in Batch /\ s \subseteq Resources
  BY DEF Exclusive, TypeOK, BatchAssumption
<1>3. /\ obj'.spec = s /\ obj'.owner = obj.owner /\ obj'.statuses = obj.statuses
      /\ obj'.phase = obj.phase
  BY <1>1, <1>2 DEF Batch
<1>4. Wanted(obj') \subseteq Names
  BY <1>2, <1>3 DEF Wanted, BatchAssumption
<1>5. Claim!Ask
  BY <1>3, <1>4 DEF Claim!Ask, Wanted
<1> QED
  BY <1>5 DEF ClaimStep, Claim!Next

\* Every step of the workers, their pods and time is a step of the claim or none.
LEMMA StepImplements ==
    ASSUME BatchAssumption, Exclusive, [Next]_vars
    PROVE  ClaimStep
<1>1. CASE obj' = obj
  BY <1>1, UnseenWrite
<1>2. CASE Tick
  <2>1. obj' = Aged(obj) /\ obj \in Batch /\ Sane(obj)
    BY <1>2 DEF Tick, Exclusive, TypeOK
  <2>2. /\ obj'.owner = obj.owner /\ obj'.statuses = obj.statuses /\ obj'.phase = obj.phase
        /\ obj'.spec = obj.spec
    BY <2>1, AgedSane
  <2> QED
    BY <2>2, UnseenWrite DEF Result
<1>3. ASSUME NEW w \in Workers, Reconcile(w) PROVE ClaimStep
  <2>1. CASE Get(w) \/ LeaveAlone(w)
    BY <1>1, <2>1 DEF Get, LeaveAlone, ReturnOnly
  <2>2. CASE InitializeStatus(w) \/ ClaimBatch(w) \/ ProcessRetrying(w)
    BY <2>2, FreeImplements
  <2>3. CASE ProcessClaimed(w) \/ ProcessStale(w) \/ CompleteBatch(w)
    BY <2>3, HeldImplements
  <2>4. CASE MarkStale(w) \/ EnterLoop(w) \/ ProcessResource(w)
    BY <2>4, HolderImplements
  <2> QED
    BY <1>3, <2>1, <2>2, <2>3, <2>4 DEF Reconcile
<1>4. CASE (\E w \in Workers : Crash(w) \/ CacheSync(w)) \/ UNCHANGED vars
  BY <1>1, <1>4 DEF Crash, CacheSync, vars
<1> QED
  BY <1>2, <1>3, <1>4, UserImplements DEF Next

\* ClaimSpec: the workers implement the claim of BatchClaim, whatever copies they
\* read, and whatever is added to the spec or removed from it on the way.
THEOREM Implements == Spec => ClaimSpec
<1>1. Init => Claim!Init
  <2> SUFFICES ASSUME Init PROVE Claim!Init
    OBVIOUS
  <2>1. PICK s \in FirstSpecs : obj = Created(s)
    BY DEF Init
  <2>2. /\ obj.owner = NoWorker /\ obj.phase = "" /\ obj.spec = s
        /\ \A n \in Names : obj.statuses[n] = "none"
    BY <2>1 DEF Created
  <2>3. {n \in Names : obj.statuses[n] = "Completed"} = {}
    BY <2>2
  <2>4. {SourceName[k] : k \in obj.spec} \subseteq Names
    <3>1. s \subseteq Resources
      BY BatchAssumption DEF BatchAssumption
    <3> QED
      BY <2>2, <3>1, BatchAssumption DEF BatchAssumption
  <2> QED
    BY <2>2, <2>3, <2>4 DEF Claim!Init, Terminal
<1>2. Exclusive /\ [Next]_vars =>
        [Claim!Next]_<<{SourceName[k] : k \in obj.spec}, obj.owner,
                       {n \in Names : obj.statuses[n] = "Completed"},
                       IF obj.phase \in Terminal
                       THEN IF obj.phase = "Completed" THEN "completed" ELSE "failed"
                       ELSE "open">>
  BY BatchAssumption, StepImplements DEF ClaimStep, Done, Result, Wanted
<1> QED
  BY <1>1, <1>2, ExclusiveAlways, PTL DEF Spec, ClaimSpec, Claim!Spec

-----------------------------------------------------------------------------
(* Work is repeated only for an edit or a mishap.                          *)

\* A worker that is at the resources, or will be without reading the batch again.
AtWork(w) == pc[w] = "loop" \/ (pc[w] = "got" /\ Working(w, mem[w]))

Spent == edits + mishaps

\* The outcome of n is in the batch, or in a copy that may still be written.
Remembered(n) ==
    \/ Recorded(obj, n)
    \/ \E w \in Workers : AtWork(w) /\ current[w] /\ Recorded(mem[w], n)

\* The workers that will migrate n for nothing, from an outdated copy.
Wasting(n) == {w \in Workers : AtWork(w) /\ ~current[w] /\ ~Recorded(mem[w], n)}

Due(n) == Cardinality(Wasting(n))

\* The inductive invariant of RunsWithinMishaps: all runs of a name but the one that is
\* remembered are paid for, and so are those that outdated copies will lead to.
Paid == \A n \in Names : ran[n] + Due(n) <= Spent + (IF Remembered(n) THEN 1 ELSE 0)

\* Sets of workers and their sizes.
LEMMA WorkersCounted ==
    ASSUME BatchAssumption, NEW S \in SUBSET Workers, NEW T \in SUBSET Workers
    PROVE  /\ Cardinality(S) \in Nat /\ Cardinality(T) \in Nat
           /\ T \subseteq S => Cardinality(T) <= Cardinality(S)
           /\ \A w \in Workers : T \subseteq S \cup {w} => Cardinality(T) <= Cardinality(S) + 1
           /\ \A w \in S : T \subseteq S \ {w} => Cardinality(T) <= Cardinality(S) - 1
<1>1. IsFiniteSet(S) /\ IsFiniteSet(T)
  BY FS_Subset DEF BatchAssumption
<1>2. Cardinality(S) \in Nat /\ Cardinality(T) \in Nat
  BY <1>1, FS_CardinalityType
<1>3. ASSUME T \subseteq S PROVE Cardinality(T) <= Cardinality(S)
  BY <1>1, <1>3, FS_Subset
<1>4. ASSUME NEW w \in Workers, T \subseteq S \cup {w}
      PROVE  Cardinality(T) <= Cardinality(S) + 1
  <2>1. /\ IsFiniteSet(S \cup {w})
        /\ Cardinality(S \cup {w}) = IF w \in S THEN Cardinality(S) ELSE Cardinality(S) + 1
    BY <1>1, FS_AddElement
  <2>2. Cardinality(T) <= Cardinality(S \cup {w})
    BY <1>4, <2>1, FS_Subset
  <2> QED
    BY <1>2, <2>1, <2>2
<1>5. ASSUME NEW w \in S, T \subseteq S \ {w}
      PROVE  Cardinality(T) <= Cardinality(S) - 1
  <2>1. /\ IsFiniteSet(S \ {w}) /\ Cardinality(S \ {w}) = Cardinality(S) - 1
    BY <1>1, FS_RemoveElement
  <2>2. Cardinality(T) <= Cardinality(S \ {w})
    BY <1>5, <2>1, FS_Subset
  <2> QED
    BY <2>1, <2>2
<1> QED
  BY <1>2, <1>3, <1>4, <1>5

\* A step that costs nothing, loses nothing and sends nobody to work in vain.
Free(n) ==
    /\ ran'[n] = ran[n] /\ Spent' >= Spent
    /\ (Wasting(n))' \subseteq Wasting(n)
    /\ Remembered(n) => Remembered(n)'

\* A trouble: an outcome is forgotten with it, or one worker works in vain.
Charged(n) ==
    /\ ran'[n] = ran[n] /\ Spent' >= Spent + 1
    /\ \/ (Wasting(n))' \subseteq Wasting(n)
       \/ /\ \E w \in Workers : (Wasting(n))' \subseteq Wasting(n) \cup {w}
          /\ Remembered(n) => Remembered(n)'

\* n is migrated: its outcome is remembered from now on, or lost by a mishap, or
\* the worker was in debt for it.
Migrated(n) ==
    /\ ran'[n] = ran[n] + 1
    /\ \/ /\ Spent' >= Spent /\ (Wasting(n))' \subseteq Wasting(n)
          /\ ~Remembered(n) /\ Remembered(n)'
       \/ /\ Spent' >= Spent + 1 /\ (Wasting(n))' \subseteq Wasting(n)
          /\ ~Remembered(n)
       \/ /\ Spent' >= Spent /\ \E w \in Wasting(n) : (Wasting(n))' \subseteq Wasting(n) \ {w}
          /\ Remembered(n) => Remembered(n)'

\* The account balances after each of them.
LEMMA Balanced ==
    ASSUME BatchAssumption, Exclusive, Exclusive', Paid,
           \A n \in Names : Free(n) \/ Charged(n) \/ Migrated(n)
    PROVE  Paid'
<1> SUFFICES ASSUME NEW n \in Names
             PROVE  ran'[n] + (Due(n))' <= Spent' + (IF Remembered(n)' THEN 1 ELSE 0)
  BY DEF Paid
<1> DEFINE S == Wasting(n)
           T == (Wasting(n))'
           d == Due(n)
           e == (Due(n))'
           k == IF Remembered(n) THEN 1 ELSE 0
           l == IF Remembered(n)' THEN 1 ELSE 0
<1>1. S \in SUBSET Workers /\ T \in SUBSET Workers /\ d = Cardinality(S) /\ e = Cardinality(T)
  BY DEF Wasting, Due
<1>2. /\ d \in Nat /\ e \in Nat
      /\ T \subseteq S => e <= d
      /\ \A w \in Workers : T \subseteq S \cup {w} => e <= d + 1
      /\ \A w \in S : T \subseteq S \ {w} => e <= d - 1
  <2> HIDE DEF S, T, d, e
  <2> QED
    BY <1>1, WorkersCounted
<1>3. /\ ran[n] \in Nat /\ ran'[n] \in Nat /\ edits \in Nat /\ mishaps \in Nat
      /\ edits' \in Nat /\ mishaps' \in Nat
  BY DEF Exclusive, TypeOK
<1>4. Spent \in Nat /\ Spent' \in Nat
  <2>1. \A i, j \in Nat : i + j \in Nat
    OBVIOUS
  <2>2. edits + mishaps \in Nat
    BY <1>3, <2>1
  <2>3. edits' + mishaps' \in Nat
    BY <1>3, <2>1
  <2> QED
    BY <2>2, <2>3 DEF Spent
<1>5. ran[n] + d <= Spent + k
  BY DEF Paid
<1>6. k \in 0 .. 1 /\ l \in 0 .. 1 /\ ((Remembered(n) => Remembered(n)') => k <= l)
      /\ (~Remembered(n) => k = 0) /\ (Remembered(n)' => l = 1)
  OBVIOUS
<1> HIDE DEF d, e, k, l
<1>7. CASE Free(n)
  <2>1. ran'[n] = ran[n] /\ Spent' >= Spent /\ e <= d /\ k <= l
    BY <1>2, <1>6, <1>7 DEF Free
  <2> QED
    BY <1>2, <1>3, <1>4, <1>5, <1>6, <2>1 DEF e, l
<1>8. CASE Charged(n)
  <2>1. ran'[n] = ran[n] /\ Spent' >= Spent + 1 /\ (e <= d \/ (e <= d + 1 /\ k <= l))
    BY <1>2, <1>6, <1>8 DEF Charged
  <2> QED
    BY <1>2, <1>3, <1>4, <1>5, <1>6, <2>1 DEF e, l
<1>9. CASE Migrated(n)
  <2>1. /\ ran'[n] = ran[n] + 1
        /\ \/ Spent' >= Spent /\ e <= d /\ k = 0 /\ l = 1
           \/ Spent' >= Spent + 1 /\ e <= d /\ k = 0
           \/ Spent' >= Spent /\ e <= d - 1 /\ k <= l
    BY <1>2, <1>6, <1>9 DEF Migrated
  <2> QED
    BY <1>2, <1>3, <1>4, <1>5, <1>6, <2>1 DEF e, l
<1> QED
  BY <1>7, <1>8, <1>9

\* Who is at work on a copy that is not outdated holds the batch, alone.
LEMMA CurrentAlone ==
    ASSUME BatchAssumption, Exclusive, NEW w \in Workers, AtWork(w), current[w]
    PROVE  /\ Working(w, obj) /\ NoOther(w) /\ Covers(mem[w], obj)
           /\ \A v \in Workers : AtWork(v) /\ current[v] => v = w
<1>1. ASSUME NEW v \in Workers, AtWork(v), current[v]
      PROVE  Working(v, obj) /\ NoOther(v) /\ Covers(mem[v], obj)
  <2>1. CASE pc[v] = "loop"
    BY <1>1, <2>1, LoopAlone
  <2>2. CASE pc[v] = "got" /\ Working(v, mem[v])
    BY <1>1, <2>2, CurrentCopy DEF Working
  <2> QED
    BY <1>1, <2>1, <2>2 DEF AtWork
<1>2. \A v \in Workers : AtWork(v) /\ current[v] => v = w
  BY <1>1, WorkerNames DEF Working, Owns, Exclusive
<1> QED
  BY <1>1, <1>2

\* A worker that a step leaves alone is as much at work as before.
LEMMA SameWork ==
    ASSUME NEW v \in Workers, pod'[v] = pod[v], mem'[v] = mem[v], pc'[v] = pc[v]
    PROVE  AtWork(v)' <=> AtWork(v)
BY DEF AtWork, Working, Owns, WorkerID

\* What a step of w alone does to the others: nothing, unless w wrote, and then
\* none of them is at work on a copy that was not outdated before.
LEMMA OthersSame ==
    ASSUME BatchAssumption, Exclusive, NEW w \in Workers,
           \A v \in Workers \ {w} : pod'[v] = pod[v] /\ mem'[v] = mem[v] /\ pc'[v] = pc[v],
           \/ \A v \in Workers \ {w} : current'[v] = current[v]
           \/ NoOther(w) /\ \A v \in Workers \ {w} : ~current'[v],
           NEW n \in Names
    PROVE  /\ \A v \in Workers \ {w} : v \in (Wasting(n))' => v \in Wasting(n)
           /\ \A v \in Workers \ {w} : AtWork(v) /\ current[v] /\ Recorded(mem[v], n)
                 => AtWork(v)' /\ current'[v] /\ Recorded(mem[v], n)'
<1> SUFFICES ASSUME NEW v \in Workers \ {w}
             PROVE  /\ v \in (Wasting(n))' => v \in Wasting(n)
                    /\ AtWork(v) /\ current[v] /\ Recorded(mem[v], n)
                          => AtWork(v)' /\ current'[v] /\ Recorded(mem[v], n)'
  OBVIOUS
<1>1. (AtWork(v)' <=> AtWork(v)) /\ (Recorded(mem[v], n)' <=> Recorded(mem[v], n))
  BY SameWork DEF Recorded
<1>2. CASE current'[v] = current[v]
  BY <1>1, <1>2 DEF Wasting
<1>3. CASE NoOther(w) /\ ~current'[v]
  <2>1. ~(AtWork(v) /\ current[v])
    BY <1>3, CurrentAlone DEF NoOther, Working
  <2> QED
    BY <1>1, <1>3, <2>1 DEF Wasting
<1> QED
  BY <1>2, <1>3

\* A step of w alone that leaves the batch as it is and ends with w not at work.
LEMMA QuietFree ==
    ASSUME BatchAssumption, Exclusive, NEW w \in Workers, NEW n \in Names,
           \A v \in Workers \ {w} : /\ pod'[v] = pod[v] /\ mem'[v] = mem[v] /\ pc'[v] = pc[v]
                                    /\ current'[v] = current[v],
           UNCHANGED <<obj, ran, edits, mishaps>>,
           w \notin (Wasting(n))' \/ w \in Wasting(n),
           AtWork(w) /\ current[w] /\ Recorded(mem[w], n)
              => AtWork(w)' /\ current'[w] /\ Recorded(mem[w], n)'
    PROVE  Free(n)
<1>1. \A v \in Workers : /\ v \in (Wasting(n))' => v \in Wasting(n)
                         /\ AtWork(v) /\ current[v] /\ Recorded(mem[v], n)
                               => AtWork(v)' /\ current'[v] /\ Recorded(mem[v], n)'
  BY OthersSame
<1>2. (Wasting(n))' \subseteq Wasting(n)
  BY <1>1 DEF Wasting
<1>3. Recorded(obj, n)' <=> Recorded(obj, n)
  BY DEF Recorded
<1>4. Remembered(n) => Remembered(n)'
  BY <1>1, <1>3 DEF Remembered
<1>5. Spent' = Spent /\ Spent \in Nat
  BY DEF Spent, Exclusive, TypeOK
<1> QED
  BY <1>2, <1>4, <1>5 DEF Free

\* A write that is accepted from a copy whose outcomes it keeps.
LEMMA AcceptedFree ==
    ASSUME BatchAssumption, Exclusive, NEW w \in Workers, NEW n \in Names, NEW o, Put(w, o),
           NoOther(w), Covers(mem[w], obj), Recorded(mem[w], n) => Recorded(o, n),
           \A v \in Workers \ {w} : pod'[v] = pod[v] /\ mem'[v] = mem[v] /\ pc'[v] = pc[v],
           UNCHANGED <<ran, edits>>
    PROVE  Free(n)
<1>1. /\ obj' = o /\ current'[w] /\ mishaps' = mishaps
      /\ \A v \in Workers \ {w} : ~current'[v]
  BY DEF Put
<1>2. /\ \A v \in Workers \ {w} : v \in (Wasting(n))' => v \in Wasting(n)
      /\ \A v \in Workers \ {w} : AtWork(v) /\ current[v] /\ Recorded(mem[v], n)
            => AtWork(v)' /\ current'[v] /\ Recorded(mem[v], n)'
  BY <1>1, OthersSame
<1>3. (Wasting(n))' \subseteq Wasting(n)
  BY <1>1, <1>2 DEF Wasting
<1>4. Remembered(n) => Recorded(mem[w], n)
  BY <1>1, <1>2 DEF Remembered, Covers, Recorded
<1>5. Remembered(n) => Remembered(n)'
  BY <1>1, <1>4 DEF Remembered, Recorded
<1>6. Spent' = Spent /\ Spent \in Nat
  BY <1>1 DEF Spent, Exclusive, TypeOK
<1> QED
  BY <1>3, <1>5, <1>6 DEF Free

\* A refused write is a mishap, or one of an outdated copy.
LEMMA RefusedPays ==
    ASSUME BatchAssumption, Exclusive, NEW w \in Workers, NEW n \in Names, Refused(w),
           UNCHANGED <<ran, edits>>,
           \A v \in Workers \ {w} : pod'[v] = pod[v] /\ mem'[v] = mem[v] /\ pc'[v] = pc[v],
           AtWork(w)' => AtWork(w) /\ (Recorded(mem[w], n)' <=> Recorded(mem[w], n))
    PROVE  Free(n) \/ Charged(n)
<1>1. obj' = obj /\ current' = current
  BY DEF Refused
<1>2. CASE current[w]
  <2>1. Spent' = Spent + 1 /\ Spent \in Nat
    BY <1>2 DEF Refused, Mishap, Spent, Exclusive, TypeOK
  <2>2. \A v \in Workers \ {w} : v \in (Wasting(n))' => v \in Wasting(n)
    BY <1>1, OthersSame
  <2>3. (Wasting(n))' \subseteq Wasting(n)
    BY <1>1, <1>2, <2>2 DEF Wasting
  <2> QED
    BY <2>1, <2>3 DEF Charged
<1>3. CASE ~current[w]
  <2>1. mishaps' = mishaps
    BY <1>3 DEF Refused
  <2>2. w \notin (Wasting(n))' \/ w \in Wasting(n)
    BY <1>1, <1>3 DEF Wasting
  <2> QED
    BY <1>1, <1>3, <2>1, <2>2, QuietFree
<1> QED
  BY <1>2, <1>3

\* A write of a worker that does not go on working.
LEMMA LastWritePays ==
    ASSUME BatchAssumption, Exclusive, NEW w \in Workers, NEW o, Put(w, o) \/ Refused(w),
           ~AtWork(w)', UNCHANGED <<ran, edits, pod>>,
           \A v \in Workers \ {w} : mem'[v] = mem[v] /\ pc'[v] = pc[v],
           current[w] => o.statuses = mem[w].statuses /\ NoOther(w) /\ Covers(mem[w], obj)
    PROVE  \A n \in Names : Free(n) \/ Charged(n)
<1> SUFFICES ASSUME NEW n \in Names PROVE Free(n) \/ Charged(n)
  OBVIOUS
<1>1. CASE Put(w, o)
  <2>1. current[w]
    BY <1>1 DEF Put
  <2>2. Recorded(mem[w], n) => Recorded(o, n)
    BY <2>1 DEF Recorded
  <2> QED
    BY <1>1, <2>1, <2>2, AcceptedFree
<1>2. CASE Refused(w)
  BY <1>2, RefusedPays
<1> QED
  BY <1>1, <1>2

\* A worker that returns is not at work.
LEMMA ReturnIdle ==
    ASSUME BatchAssumption, Exclusive, NEW w \in Workers, Return(w)
    PROVE  /\ ~AtWork(w)'
           /\ \A v \in Workers \ {w} : mem'[v] = mem[v] /\ pc'[v] = pc[v]
<1>1. pc'[w] = "idle" /\ \A v \in Workers \ {w} : mem'[v] = mem[v] /\ pc'[v] = pc[v]
  BY ReturnForgets
<1> QED
  BY <1>1 DEF AtWork

\* The last write of a reconcile.
LEMMA WriteAndReturnPays ==
    ASSUME BatchAssumption, Exclusive, NEW w \in Workers, NEW o, WriteAndReturn(w, o),
           current[w] => o.statuses = mem[w].statuses /\ NoOther(w) /\ Covers(mem[w], obj)
    PROVE  \A n \in Names : Free(n) \/ Charged(n)
<1>1. /\ UNCHANGED <<ran, edits, pod>> /\ Return(w)
      /\ Put(w, o) \/ Refused(w)
  BY DEF WriteAndReturn
<1> QED
  BY <1>1, ReturnIdle, LastWritePays

\* The handlers that end in a write.
LEMMA WritingHandlersPay ==
    ASSUME BatchAssumption, Exclusive, NEW w \in Workers,
           \/ InitializeStatus(w) \/ ClaimBatch(w) \/ ProcessClaimed(w)
           \/ ProcessStale(w) \/ ProcessRetrying(w) \/ CompleteBatch(w)
    PROVE  \A n \in Names : Free(n) \/ Charged(n)
<1>0. mem[w] \in Batch /\ Sane(mem[w])
  BY DEF Exclusive, TypeOK
<1>1. CASE InitializeStatus(w)
  <2>1. PICK o : /\ WriteAndReturn(w, o)
                 /\ o = [mem[w] EXCEPT !.phase = "Pending", !.failed = 0, !.retries = 0]
    BY <1>1 DEF InitializeStatus
  <2>2. o.statuses = mem[w].statuses
    BY <1>0, <2>1 DEF Batch
  <2>3. current[w] => NoOther(w) /\ Covers(mem[w], obj)
    BY <1>1, CurrentCopy DEF InitializeStatus, Got
  <2> QED
    BY <2>1, <2>2, <2>3, WriteAndReturnPays
<1>2. CASE ClaimBatch(w)
  <2>1. PICK id, o : /\ WriteAndReturn(w, o)
                     /\ o = [mem[w] EXCEPT !.phase = "Claimed", !.owner = id, !.lease = 2]
    BY <1>2 DEF ClaimBatch
  <2>2. o.statuses = mem[w].statuses
    BY <1>0, <2>1 DEF Batch
  <2>3. current[w] => NoOther(w) /\ Covers(mem[w], obj)
    BY <1>2, CurrentCopy DEF ClaimBatch, Got
  <2> QED
    BY <2>1, <2>2, <2>3, WriteAndReturnPays
<1>3. CASE ProcessClaimed(w)
  <2>1. PICK o : WriteAndReturn(w, o) /\ o = [mem[w] EXCEPT !.phase = "Processing"]
    BY <1>3 DEF ProcessClaimed
  <2>2. o.statuses = mem[w].statuses
    BY <1>0, <2>1 DEF Batch
  <2>3. current[w] => NoOther(w) /\ Covers(mem[w], obj)
    BY <1>3, CurrentCopy DEF ProcessClaimed, Got
  <2> QED
    BY <2>1, <2>2, <2>3, WriteAndReturnPays
<1>4. CASE ProcessStale(w)
  <2>1. WriteAndReturn(w, Retried(mem[w]))
    BY <1>4 DEF ProcessStale
  <2>2. Retried(mem[w]).statuses = mem[w].statuses
    BY <1>0, RetriedSane
  <2>3. current[w] => NoOther(w) /\ Covers(mem[w], obj)
    BY <1>4, CurrentCopy DEF ProcessStale, Got
  <2> QED
    BY <2>1, <2>2, <2>3, WriteAndReturnPays
<1>5. CASE ProcessRetrying(w)
  <2>1. pc[w] = "got" /\ mem[w].phase = "Retrying"
    BY <1>5 DEF ProcessRetrying, Got
  <2>2. CASE mem[w].wait
    <3>1. Return(w) /\ UNCHANGED <<obj, current, pod, ran, edits, mishaps>>
      BY <1>5, <2>2 DEF ProcessRetrying, ReturnOnly
    <3>2. ~AtWork(w)
      BY <2>1 DEF AtWork, Working
    <3> QED
      BY <3>1, <3>2, ReturnIdle, QuietFree DEF Wasting
  <2>3. CASE ~mem[w].wait
    <3>1. PICK o : /\ WriteAndReturn(w, o)
                   /\ o = [mem[w] EXCEPT !.phase = "Pending", !.owner = NoWorker, !.lease = 0]
      BY <1>5, <2>3 DEF ProcessRetrying
    <3>2. o.statuses = mem[w].statuses
      BY <1>0, <3>1 DEF Batch
    <3>3. current[w] => NoOther(w) /\ Covers(mem[w], obj)
      BY <2>1, CurrentCopy
    <3> QED
      BY <3>1, <3>2, <3>3, WriteAndReturnPays
  <2> QED
    BY <2>2, <2>3
<1>6. CASE CompleteBatch(w)
  <2>1. WriteAndReturn(w, Finished(mem[w])) /\ pc[w] = "loop"
    BY <1>6 DEF CompleteBatch
  <2>2. Finished(mem[w]).statuses = mem[w].statuses
    BY <1>0, FinishedSane
  <2>3. current[w] => NoOther(w) /\ Covers(mem[w], obj)
    BY <2>1, LoopAlone
  <2> QED
    BY <2>1, <2>2, <2>3, WriteAndReturnPays
<1> QED
  BY <1>1, <1>2, <1>3, <1>4, <1>5, <1>6

\* Stale: the work is given up with nothing to forget, for the copy is the batch.
LEMMA MarkStalePays ==
    ASSUME BatchAssumption, Exclusive, NEW w \in Workers, MarkStale(w)
    PROVE  \A n \in Names : Free(n) \/ Charged(n)
<1>1. PICK o :
        /\ o = [mem[w] EXCEPT !.phase = "Stale"]
        /\ \/ /\ Put(w, o)
              /\ mem' = [mem EXCEPT ![w] = o]
              /\ pc' = [pc EXCEPT ![w] = "got"]
           \/ Refused(w) /\ Return(w)
  BY DEF MarkStale
<1>2. /\ UNCHANGED <<ran, edits, pod>> /\ pc[w] = "got" /\ Owns(w, mem[w])
      /\ mem[w] \in Batch /\ mem \in [Workers -> Batch]
      /\ pc \in [Workers -> {"idle", "got", "loop"}]
  BY DEF MarkStale, Got, Exclusive, TypeOK
<1>3. o.phase = "Stale" /\ o.statuses = mem[w].statuses
  BY <1>1, <1>2 DEF Batch
<1>4. current[w] => NoOther(w) /\ Covers(mem[w], obj)
  BY <1>2, CurrentCopy
<1>5. CASE Put(w, o) /\ mem' = [mem EXCEPT ![w] = o] /\ pc' = [pc EXCEPT ![w] = "got"]
  <2>1. /\ mem'[w] = o /\ pc'[w] = "got"
        /\ \A v \in Workers \ {w} : mem'[v] = mem[v] /\ pc'[v] = pc[v]
    BY <1>2, <1>5
  <2>2. ~AtWork(w)'
    BY <1>3, <2>1 DEF AtWork, Working
  <2> QED
    BY <1>2, <1>3, <1>4, <1>5, <2>1, <2>2, LastWritePays
<1>6. CASE Refused(w) /\ Return(w)
  BY <1>2, <1>3, <1>4, <1>6, ReturnIdle, LastWritePays
<1> QED
  BY <1>1, <1>5, <1>6

\* The loop begins with the copy that was read, renewed or not.
LEMMA EnterLoopPays ==
    ASSUME BatchAssumption, Exclusive, NEW w \in Workers, EnterLoop(w)
    PROVE  \A n \in Names : Free(n) \/ Charged(n)
<1> SUFFICES ASSUME NEW n \in Names PROVE Free(n) \/ Charged(n)
  OBVIOUS
<1>1. /\ UNCHANGED <<ran, edits, pod>> /\ AtWork(w) /\ pc[w] = "got" /\ Working(w, mem[w])
      /\ mem[w] \in Batch /\ mem \in [Workers -> Batch] /\ pc'[w] = "loop"
      /\ \A v \in Workers \ {w} : pc'[v] = pc[v]
  BY DEF EnterLoop, AtWork, Exclusive, TypeOK
<1>2. AtWork(w)'
  BY <1>1 DEF AtWork
<1>3. CASE mem[w].lease = 1
  <2>1. PICK o : /\ o = [mem[w] EXCEPT !.lease = 2] /\ mem' = [mem EXCEPT ![w] = o]
                 /\ Put(w, o) \/ Refused(w)
    BY <1>3 DEF EnterLoop
  <2>2. /\ mem'[w] = o /\ o.statuses = mem[w].statuses
        /\ \A v \in Workers \ {w} : mem'[v] = mem[v]
    BY <1>1, <2>1 DEF Batch
  <2>3. Recorded(mem[w], n) <=> Recorded(o, n)
    BY <2>2 DEF Recorded
  <2>4. CASE Put(w, o)
    <3>1. NoOther(w) /\ Covers(mem[w], obj)
      BY <1>1, <2>4, CurrentAlone DEF Put
    <3> QED
      BY <1>1, <2>2, <2>3, <2>4, <3>1, AcceptedFree
  <2>5. CASE Refused(w)
    <3>1. Recorded(mem[w], n)' <=> Recorded(mem[w], n)
      BY <2>2 DEF Recorded
    <3> QED
      BY <1>1, <2>2, <2>5, <3>1, RefusedPays
  <2> QED
    BY <2>1, <2>4, <2>5
<1>4. CASE mem[w].lease # 1
  <2>1. UNCHANGED <<obj, mem, current, mishaps>>
    BY <1>4 DEF EnterLoop
  <2>2. w \notin (Wasting(n))' \/ w \in Wasting(n)
    BY <1>1, <2>1 DEF Wasting, Recorded
  <2>3. Recorded(mem[w], n)' <=> Recorded(mem[w], n)
    BY <2>1 DEF Recorded
  <2> QED
    BY <1>1, <1>2, <2>1, <2>2, <2>3, QuietFree
<1> QED
  BY <1>3, <1>4

\* A resource is worked on: nobody remembered its name, or the worker was in debt
\* for it.
LEMMA ProcessResourcePays ==
    ASSUME BatchAssumption, Exclusive, NEW w \in Workers, ProcessResource(w)
    PROVE  \A n \in Names : Free(n) \/ Charged(n) \/ Migrated(n)
<1>0. mem[w] \in Batch /\ Sane(mem[w]) /\ mem[w].spec \subseteq Resources
  BY LoopAlone DEF ProcessResource, Batch
<1>1. PICK k \in Resources, status \in {"Completed", "Failed"} :
          /\ ~Processed(mem[w], k)
          /\ mem' = [mem EXCEPT ![w] = Marked(mem[w], k, status)]
          /\ ran' = [ran EXCEPT ![SourceName[k]] = @ + 1]
          /\ Put(w, Marked(mem[w], k, status)) \/ Refused(w)
  BY <1>0 DEF ProcessResource
<1> DEFINE o == Marked(mem[w], k, status)
           m == SourceName[k]
<1>2. m \in Names
  BY DEF BatchAssumption
<1>3. /\ pc[w] = "loop" /\ UNCHANGED <<pc, pod, edits>> /\ AtWork(w) /\ AtWork(w)'
  BY DEF ProcessResource, AtWork
<1>4. /\ mem'[w] = o /\ \A v \in Workers \ {w} : mem'[v] = mem[v]
      /\ ran'[m] = ran[m] + 1 /\ \A j \in Names \ {m} : ran'[j] = ran[j]
      /\ Put(w, o) \/ Refused(w)
  BY <1>1, <1>2 DEF Exclusive, TypeOK
<1>5. /\ Recorded(o, m) /\ ~Recorded(mem[w], m)
      /\ \A j \in Names \ {m} : Recorded(o, j) <=> Recorded(mem[w], j)
  <2>1. o.statuses = [mem[w].statuses EXCEPT ![m] = status] /\ status # "none"
    BY <1>0, MarkedEntry
  <2>2. mem[w].statuses \in [Names -> {"none", "Completed", "Failed"}]
    BY <1>0 DEF Batch
  <2> HIDE DEF o
  <2> QED
    BY <1>1, <1>2, <2>1, <2>2 DEF Recorded, Processed
<1>6. Spent \in Nat
  BY DEF Spent, Exclusive, TypeOK
<1>7. current[w] => NoOther(w) /\ Covers(mem[w], obj) /\ ~Remembered(m)
  <2> SUFFICES ASSUME current[w] PROVE NoOther(w) /\ Covers(mem[w], obj) /\ ~Remembered(m)
    OBVIOUS
  <2>1. /\ NoOther(w) /\ Covers(mem[w], obj)
        /\ \A v \in Workers : AtWork(v) /\ current[v] => v = w
    BY <1>3, CurrentAlone
  <2>2. ~Recorded(obj, m)
    BY <1>2, <1>5, <2>1 DEF Covers, Recorded
  <2> QED
    BY <1>5, <2>1, <2>2 DEF Remembered
<1> HIDE DEF o, m
<1> SUFFICES ASSUME NEW n \in Names PROVE Free(n) \/ Charged(n) \/ Migrated(n)
  OBVIOUS
<1>8. Recorded(mem[w], n)' <=> (n = m \/ Recorded(mem[w], n))
  BY <1>4, <1>5 DEF Recorded
<1>9. \A v \in Workers \ {w} : pod'[v] = pod[v] /\ mem'[v] = mem[v] /\ pc'[v] = pc[v]
  BY <1>3, <1>4
<1>10. CASE Put(w, o)
  <2>1. /\ obj' = o /\ current[w] /\ current'[w] /\ Spent' = Spent
        /\ \A v \in Workers \ {w} : ~current'[v]
    BY <1>3, <1>10 DEF Put, Spent, Exclusive, TypeOK
  <2>2. \A v \in Workers \ {w} : v \in (Wasting(n))' => v \in Wasting(n)
    BY <1>7, <1>9, <2>1, OthersSame
  <2>3. (Wasting(n))' \subseteq Wasting(n)
    BY <2>1, <2>2 DEF Wasting
  <2>4. n = m \/ Remembered(n) => Remembered(n)'
    <3>1. Recorded(obj, n)' <=> Recorded(o, n)
      BY <2>1 DEF Recorded
    <3>2. Recorded(o, n) <=> (n = m \/ Recorded(mem[w], n))
      BY <1>5
    <3>3. Remembered(n) => Recorded(mem[w], n)
      BY <1>3, <1>7, <2>1, CurrentAlone DEF Remembered, Covers, Recorded
    <3> QED
      BY <3>1, <3>2, <3>3 DEF Remembered
  <2>5. CASE n = m
    BY <1>4, <1>6, <1>7, <2>1, <2>3, <2>4, <2>5 DEF Migrated
  <2>6. CASE n # m
    BY <1>4, <1>6, <2>1, <2>3, <2>4, <2>6 DEF Free
  <2> QED
    BY <2>5, <2>6
<1>11. CASE Refused(w) /\ current[w]
  <2>1. Spent' = Spent + 1 /\ current' = current /\ obj' = obj
    BY <1>3, <1>11 DEF Refused, Mishap, Spent, Exclusive, TypeOK
  <2>2. \A v \in Workers \ {w} : v \in (Wasting(n))' => v \in Wasting(n)
    BY <1>9, <2>1, OthersSame
  <2>3. (Wasting(n))' \subseteq Wasting(n)
    BY <1>11, <2>1, <2>2 DEF Wasting
  <2>4. CASE n = m
    BY <1>4, <1>6, <1>7, <1>11, <2>1, <2>3, <2>4 DEF Migrated
  <2>5. CASE n # m
    BY <1>4, <1>6, <2>1, <2>3, <2>5 DEF Charged
  <2> QED
    BY <2>4, <2>5
<1>12. CASE Refused(w) /\ ~current[w]
  <2>1. Spent' = Spent /\ current' = current /\ obj' = obj
    BY <1>3, <1>12 DEF Refused, Spent, Exclusive, TypeOK
  <2>2. /\ \A v \in Workers \ {w} : v \in (Wasting(n))' => v \in Wasting(n)
        /\ \A v \in Workers \ {w} : AtWork(v) /\ current[v] /\ Recorded(mem[v], n)
              => AtWork(v)' /\ current'[v] /\ Recorded(mem[v], n)'
    BY <1>9, <2>1, OthersSame
  <2>3. Recorded(obj, n)' <=> Recorded(obj, n)
    BY <2>1 DEF Recorded
  <2>4. Remembered(n) => Remembered(n)'
    BY <1>12, <2>2, <2>3 DEF Remembered
  <2>5. w \in (Wasting(n))' => n # m /\ w \in Wasting(n)
    BY <1>3, <1>8, <2>1 DEF Wasting
  <2>6. w \in Wasting(m)
    BY <1>3, <1>5, <1>12 DEF Wasting
  <2>7. (Wasting(n))' \subseteq Wasting(n) /\ (n = m => (Wasting(n))' \subseteq Wasting(n) \ {w})
    <3>1. (Wasting(n))' \subseteq Workers
      BY DEF Wasting
    <3> QED
      BY <2>2, <2>5, <3>1
  <2>8. CASE n = m
    BY <1>4, <1>6, <2>1, <2>4, <2>6, <2>7, <2>8 DEF Migrated
  <2>9. CASE n # m
    BY <1>4, <1>6, <2>1, <2>4, <2>7, <2>9 DEF Free
  <2> QED
    BY <2>8, <2>9
<1> QED
  BY <1>4, <1>10, <1>11, <1>12

\* Reading the batch: an outdated copy that is to be worked on is paid for.
LEMMA GetPays ==
    ASSUME BatchAssumption, Exclusive, NEW w \in Workers, Get(w)
    PROVE  \A n \in Names : Free(n) \/ Charged(n)
<1> SUFFICES ASSUME NEW n \in Names PROVE Free(n) \/ Charged(n)
  OBVIOUS
<1>1. /\ UNCHANGED <<obj, pod, ran, edits>> /\ mem'[w] = cache[w] /\ pc'[w] = "got"
      /\ current'[w] = synced[w] /\ pc[w] = "idle"
      /\ \A v \in Workers \ {w} : /\ mem'[v] = mem[v] /\ pc'[v] = pc[v]
                                   /\ current'[v] = current[v] /\ pod'[v] = pod[v]
  BY DEF Get, Exclusive, TypeOK
<1>2. ~AtWork(w)
  BY <1>1 DEF AtWork
<1>3. AtWork(w)' <=> Working(w, cache[w])
  BY <1>1 DEF AtWork, Working, Owns, WorkerID
<1>4. CASE ~synced[w] /\ Working(w, cache[w])
  <2>1. Spent' = Spent + 1 /\ Spent \in Nat
    BY <1>1, <1>4 DEF Get, Mishap, Spent, Exclusive, TypeOK
  <2>2. /\ \A v \in Workers \ {w} : v \in (Wasting(n))' => v \in Wasting(n)
        /\ \A v \in Workers \ {w} : AtWork(v) /\ current[v] /\ Recorded(mem[v], n)
              => AtWork(v)' /\ current'[v] /\ Recorded(mem[v], n)'
    BY <1>1, OthersSame
  <2>3. (Wasting(n))' \subseteq Wasting(n) \cup {w}
    BY <2>2 DEF Wasting
  <2>4. Recorded(obj, n)' <=> Recorded(obj, n)
    BY <1>1 DEF Recorded
  <2>5. Remembered(n) => Remembered(n)'
    BY <1>2, <2>2, <2>4 DEF Remembered
  <2> QED
    BY <1>1, <2>1, <2>3, <2>5 DEF Charged
<1>5. CASE synced[w] \/ ~Working(w, cache[w])
  <2>1. mishaps' = mishaps
    BY <1>5 DEF Get
  <2>2. w \notin (Wasting(n))'
    BY <1>1, <1>3, <1>5 DEF Wasting
  <2> QED
    BY <1>1, <1>2, <2>1, <2>2, QuietFree
<1> QED
  BY <1>4, <1>5

\* A write by somebody else: one worker at most was at work on the latest version,
\* and it will work in vain, or what it knows is forgotten.
LEMMA UserPays ==
    ASSUME BatchAssumption, Exclusive, User
    PROVE  \A n \in Names : Free(n) \/ Charged(n)
<1> SUFFICES ASSUME NEW n \in Names PROVE Charged(n)
  OBVIOUS
<1>1. /\ Spent' = Spent + 1 /\ Spent \in Nat /\ UNCHANGED <<mem, pc, pod, ran>>
      /\ \A v \in Workers : ~current'[v]
  BY DEF User, Spent, Exclusive, TypeOK
<1>2. \A v \in Workers : /\ AtWork(v)' <=> AtWork(v)
                         /\ Recorded(mem[v], n)' <=> Recorded(mem[v], n)
  BY <1>1, SameWork DEF Recorded
<1>3. Recorded(obj, n)' <=> Recorded(obj, n)
  BY DEF User, Recorded, Exclusive, TypeOK, Batch
<1>4. CASE \E w \in Workers : AtWork(w) /\ current[w] /\ ~Recorded(mem[w], n)
  <2>1. PICK w \in Workers : AtWork(w) /\ current[w] /\ ~Recorded(mem[w], n)
    BY <1>4
  <2>2. \A v \in Workers : AtWork(v) /\ current[v] => v = w
    BY <2>1, CurrentAlone
  <2>3. (Wasting(n))' \subseteq Wasting(n) \cup {w}
    BY <1>1, <1>2, <2>2 DEF Wasting
  <2>4. ~Recorded(obj, n)
    BY <2>1, CurrentAlone DEF Covers, Recorded
  <2>5. ~Remembered(n)
    BY <2>1, <2>2, <2>4 DEF Remembered
  <2> QED
    BY <1>1, <2>3, <2>5 DEF Charged
<1>5. CASE ~ \E w \in Workers : AtWork(w) /\ current[w] /\ ~Recorded(mem[w], n)
  <2>1. (Wasting(n))' \subseteq Wasting(n)
    BY <1>1, <1>2, <1>5 DEF Wasting
  <2> QED
    BY <1>1, <2>1 DEF Charged
<1> QED
  BY <1>4, <1>5

\* Time and events, a crash, and a batch that is left alone.
LEMMA IdlePays ==
    ASSUME BatchAssumption, Exclusive,
           Tick \/ \E w \in Workers : CacheSync(w) \/ Crash(w) \/ LeaveAlone(w)
    PROVE  \A n \in Names : Free(n) \/ Charged(n)
<1> SUFFICES ASSUME NEW n \in Names PROVE Free(n) \/ Charged(n)
  OBVIOUS
<1>0. Spent \in Nat
  BY DEF Spent, Exclusive, TypeOK
<1>1. CASE Tick
  <2>1. UNCHANGED <<current, pc, pod, ran, edits, mishaps>>
    BY <1>1 DEF Tick
  <2>2. /\ obj'.statuses = obj.statuses
        /\ \A v \in Workers : /\ mem'[v].statuses = mem[v].statuses
                               /\ mem'[v].phase = mem[v].phase
                               /\ mem'[v].owner = mem[v].owner
    BY <1>1, AgedSane DEF Tick, Exclusive, TypeOK
  <2>3. \A v \in Workers : /\ AtWork(v)' <=> AtWork(v)
                           /\ Recorded(mem[v], n)' <=> Recorded(mem[v], n)
    BY <2>1, <2>2 DEF AtWork, Working, Owns, WorkerID, Recorded
  <2>4. Recorded(obj, n)' <=> Recorded(obj, n)
    BY <2>2 DEF Recorded
  <2>5. (Wasting(n))' \subseteq Wasting(n)
    BY <2>1, <2>3 DEF Wasting
  <2>6. Remembered(n) => Remembered(n)'
    BY <2>1, <2>3, <2>4 DEF Remembered
  <2>7. Spent' = Spent
    BY <2>1 DEF Spent
  <2> QED
    BY <1>0, <2>1, <2>5, <2>6, <2>7 DEF Free
<1>2. ASSUME NEW w \in Workers, Crash(w) PROVE Charged(n)
  <2>1. Spent' = Spent + 1 /\ Spent \in Nat /\ ran' = ran
    BY <1>2 DEF Crash, Mishap, Spent, Exclusive, TypeOK
  <2>2. /\ ~AtWork(w)'
        /\ \A v \in Workers \ {w} : mem'[v] = mem[v] /\ pc'[v] = pc[v]
    BY <1>2, ReturnIdle DEF Crash
  <2>3. \A v \in Workers \ {w} : pod'[v] = pod[v] /\ current'[v] = current[v]
    BY <1>2 DEF Crash, Exclusive, TypeOK
  <2>4. \A v \in Workers \ {w} : v \in (Wasting(n))' => v \in Wasting(n)
    BY <2>2, <2>3, OthersSame
  <2>5. (Wasting(n))' \subseteq Wasting(n)
    BY <2>2, <2>4 DEF Wasting
  <2> QED
    BY <2>1, <2>5 DEF Charged
<1>3. ASSUME NEW w \in Workers, LeaveAlone(w) PROVE Free(n)
  <2>1. Return(w) /\ UNCHANGED <<obj, current, pod, ran, edits, mishaps>>
    BY <1>3 DEF LeaveAlone, ReturnOnly
  <2>2. ~AtWork(w)
    BY <1>3 DEF LeaveAlone, AtWork, Working, Terminal
  <2> QED
    BY <2>1, <2>2, ReturnIdle, QuietFree DEF Wasting
<1>4. ASSUME NEW w \in Workers, CacheSync(w) PROVE Free(n)
  <2>1. UNCHANGED <<obj, mem, current, pc, pod, ran, edits, mishaps>>
    BY <1>4 DEF CacheSync
  <2>2. /\ AtWork(w)' <=> AtWork(w)
        /\ Recorded(mem[w], n)' <=> Recorded(mem[w], n)
    BY <2>1, SameWork DEF Recorded
  <2> QED
    BY <2>1, <2>2, QuietFree DEF Wasting
<1> QED
  BY <1>1, <1>2, <1>3, <1>4

\* The budget is kept in every behaviour, whoever loses which write.
THEOREM BudgetAlways == Spec => []Paid
<1>1. Init => Paid
  <2> SUFFICES ASSUME Init, NEW n \in Names
               PROVE  ran[n] + Due(n) <= Spent + (IF Remembered(n) THEN 1 ELSE 0)
    BY DEF Paid
  <2>1. ran[n] = 0 /\ Spent = 0 /\ Wasting(n) = {}
    BY DEF Init, Wasting, AtWork, Spent
  <2>2. Due(n) = 0
    BY <2>1, FS_EmptySet DEF Due
  <2> QED
    BY <2>1, <2>2
<1>2. Exclusive /\ Exclusive' /\ Paid /\ [Next]_vars => Paid'
  <2> SUFFICES ASSUME Exclusive, Exclusive', Paid, [Next]_vars PROVE Paid'
    OBVIOUS
  <2>1. CASE Next
    <3>1. \/ User
          \/ Tick \/ \E w \in Workers : CacheSync(w) \/ Crash(w) \/ LeaveAlone(w)
          \/ \E w \in Workers :
                \/ \/ InitializeStatus(w) \/ ClaimBatch(w) \/ ProcessClaimed(w)
                   \/ ProcessStale(w) \/ ProcessRetrying(w) \/ CompleteBatch(w)
                \/ Get(w) \/ MarkStale(w) \/ EnterLoop(w) \/ ProcessResource(w)
      BY <2>1 DEF Next, Reconcile
    <3>2. \A n \in Names : Free(n) \/ Charged(n) \/ Migrated(n)
      BY <3>1, BatchAssumption, UserPays, IdlePays, WritingHandlersPay, GetPays, MarkStalePays,
         EnterLoopPays, ProcessResourcePays
    <3> QED
      BY <3>2, BatchAssumption, Balanced
  <2>2. CASE UNCHANGED vars
    BY <2>2 DEF vars, Paid, Due, Wasting, Remembered, AtWork, Working, Owns, WorkerID, Recorded,
       Spent
  <2> QED
    BY <2>1, <2>2
<1> QED
  BY <1>1, <1>2, ExclusiveAlways, PTL DEF Spec

\* The resources of one name are migrated once between them, and once more for every write by
\* somebody else, failed call, crash and outdated read that sends its worker into the loop
\* (RunsWithinMishaps), for any number of workers, names, retries and replaced pods.
THEOREM RunsBounded == Spec => []RunsWithinMishaps
<1>1. Exclusive /\ Paid => RunsWithinMishaps
  <2> SUFFICES ASSUME Exclusive, Paid, NEW n \in Names
               PROVE  ran[n] <= 1 + edits + mishaps
    BY DEF RunsWithinMishaps
  <2>1. edits \in Nat /\ mishaps \in Nat /\ ran[n] \in Nat
    BY DEF Exclusive, TypeOK
  <2>2. Due(n) \in Nat
    <3>1. Wasting(n) \in SUBSET Workers
      BY DEF Wasting
    <3> QED
      BY <3>1, BatchAssumption, WorkersCounted DEF Due
  <2>3. ran[n] + Due(n) <= edits + mishaps + (IF Remembered(n) THEN 1 ELSE 0)
    BY DEF Paid, Spent
  <2> QED
    BY <2>1, <2>2, <2>3
<1> QED
  BY <1>1, ExclusiveAlways, BudgetAlways, PTL
===============================================================================
