---------------------------- MODULE BatchMigration ----------------------------
(***************************************************************************)
(* The BatchMigration reconciler: worker processes claim a batch through   *)
(* optimistic writes to its status, hold it under a lease, process its     *)
(* resources one after the other, and give it back to be retried.          *)
(*                                                                         *)
(* A reconcile is a Get, answered by the worker's informer cache and so    *)
(* perhaps outdated, followed by the writes of the handler; the loop over  *)
(* the resources is a step per resource.  A version that reaches a cache   *)
(* wakes its worker (this controller has no event filter).  Outcomes are   *)
(* recorded by source name, and the spec may be edited at any time.  Time  *)
(* is abstracted to Tick: a lease is 2 (fresh), 1 (to be renewed) or 0     *)
(* (expired or none), a retry delay is over or not.                        *)
(***************************************************************************)
EXTENDS Integers, FiniteSets

CONSTANTS
    Workers,        \* worker pods
    ResourceCount,  \* resources there may be in the spec, in its order
    Names,          \* source names
    SourceName,     \* SourceName[k]: the source name of resource k
    Specs,          \* the sets of resources that users write
    FirstSpecs,     \* those that batches are created with
    MaxRetries,     \* spec.retryPolicy.maxRetries
    MaxPods,        \* bound on replaced pods, per worker
    MaxTroubles,    \* bound on edits and mishaps together
    NoWorker

Resources == 1 .. ResourceCount
Ids == Workers \X (0 .. MaxPods)

ASSUME BatchAssumption ==
    /\ {ResourceCount, MaxRetries, MaxPods, MaxTroubles} \subseteq Nat
    /\ NoWorker \notin Ids
    /\ IsFiniteSet(Workers)
    /\ SourceName \in [Resources -> Names]
    /\ Specs \subseteq SUBSET Resources /\ FirstSpecs \subseteq Specs

VARIABLES
    obj,        \* the BatchMigration in the API server
    cache,      \* cache[w]: w's informer copy of it
    synced,     \* synced[w]: cache[w] has the latest resource version
    mem,        \* mem[w]: the working copy of w's reconcile
    current,    \* current[w]: mem[w] has the latest resource version
    pc,         \* pc[w]: where w's reconcile is
    queued,     \* queued[w]: the object's key is in w's work queue
    pod,        \* pod[w]: w's pods so far; hostname and process id are its name
    ran,        \* ran[n]: how often a resource named n was migrated
    edits,      \* writes to the object by others
    mishaps     \* failed API calls, crashes, and outdated reads of a batch to work on

vars == <<obj, cache, synced, mem, current, pc, queued, pod, ran, edits, mishaps>>

Terminal == {"Completed", "Failed"}

\* spec: the resources of the spec.  phase, owner, lease and retryCount of the
\* status; wait: nextRetryTime lies ahead; statuses: resourceStatuses, by source
\* name; failed: failed of status.progress.
Created(s) == [spec |-> s, phase |-> "", owner |-> NoWorker, lease |-> 0, wait |-> FALSE,
               statuses |-> [n \in Names |-> "none"], failed |-> 0, retries |-> 0]

Init ==
    /\ obj \in {Created(s) : s \in FirstSpecs}
    /\ cache = [w \in Workers |-> obj]
    /\ synced = [w \in Workers |-> TRUE]
    /\ mem = [w \in Workers |-> Created({})]
    /\ current = [w \in Workers |-> FALSE]
    /\ pc = [w \in Workers |-> "idle"]
    /\ queued = [w \in Workers |-> TRUE]
    /\ pod = [w \in Workers |-> 0]
    /\ ran = [n \in Names |-> 0]
    /\ edits = 0
    /\ mishaps = 0

WorkerID(w) == <<w, pod[w]>>

-----------------------------------------------------------------------------
(* The API server, the informers and the environment.                      *)

Trouble == edits + mishaps < MaxTroubles

Mishap == Trouble /\ mishaps' = mishaps + 1

\* Accepted from the latest version: every other copy is outdated now.
Put(w, o) ==
    /\ current[w]
    /\ obj' = o
    /\ current' = [v \in Workers |-> v = w]
    /\ synced' = [v \in Workers |-> FALSE]
    /\ UNCHANGED mishaps

\* Refused: a conflict, or a failed call.
Refused(w) ==
    /\ IF current[w] THEN Mishap ELSE UNCHANGED mishaps
    /\ UNCHANGED <<obj, current, synced>>

Return(w) ==
    /\ pc' = [pc EXCEPT ![w] = "idle"]
    /\ mem' = [mem EXCEPT ![w] = Created({})]

\* The last write of a reconcile.  Its error asks for a requeue, and so does the
\* result, unless the batch ended.
WriteAndReturn(w, o) ==
    /\ Return(w)
    /\ \/ Put(w, o) /\ queued' = [queued EXCEPT ![w] = @ \/ o.phase \notin Terminal]
       \/ Refused(w) /\ queued' = [queued EXCEPT ![w] = TRUE]
    /\ UNCHANGED <<cache, pod, ran, edits>>

ReturnOnly(w, again) ==
    /\ Return(w)
    /\ queued' = [queued EXCEPT ![w] = @ \/ again]
    /\ UNCHANGED <<obj, cache, synced, current, pod, ran, edits, mishaps>>

\* The informer receives the latest version and wakes its worker.
CacheSync(w) ==
    /\ ~synced[w]
    /\ cache' = [cache EXCEPT ![w] = obj]
    /\ synced' = [synced EXCEPT ![w] = TRUE]
    /\ queued' = [queued EXCEPT ![w] = TRUE]
    /\ UNCHANGED <<obj, mem, current, pc, pod, ran, edits, mishaps>>

\* A write by somebody else: resources are added or removed, or something of
\* the object changes that the worker does not read.
User ==
    /\ Trouble
    /\ edits' = edits + 1
    /\ \E s \in Specs : obj' = [obj EXCEPT !.spec = s]
    /\ current' = [w \in Workers |-> FALSE]
    /\ synced' = [w \in Workers |-> FALSE]
    /\ UNCHANGED <<cache, mem, pc, queued, pod, ran, mishaps>>

Aged(o) == [o EXCEPT !.lease = IF @ > 0 THEN @ - 1 ELSE 0, !.wait = FALSE]

\* Time passes: leases age in every copy, retry delays end.
Tick ==
    /\ obj' = Aged(obj)
    /\ cache' = [w \in Workers |-> Aged(cache[w])]
    /\ mem' = [w \in Workers |-> Aged(mem[w])]
    /\ UNCHANGED <<synced, current, pc, queued, pod, ran, edits, mishaps>>

\* The container starts again under its name, or another pod takes its place;
\* its informer lists the object anew.
Crash(w) ==
    /\ Mishap
    /\ \/ UNCHANGED pod
       \/ pod[w] < MaxPods /\ pod' = [pod EXCEPT ![w] = @ + 1]
    /\ Return(w)
    /\ cache' = [cache EXCEPT ![w] = obj]
    /\ synced' = [synced EXCEPT ![w] = TRUE]
    /\ current' = [current EXCEPT ![w] = FALSE]
    /\ queued' = [queued EXCEPT ![w] = TRUE]
    /\ UNCHANGED <<obj, ran, edits>>

-----------------------------------------------------------------------------
(* The reconcile.                                                          *)

Owns(w, o) == o.owner = WorkerID(w)

\* The copy shows w a batch to work on.
Working(w, o) == o.phase = "Processing" /\ Owns(w, o)

\* The Get is answered by the informer cache; an outdated copy that sends the
\* worker to the resources counts as a mishap.
Get(w) ==
    /\ pc[w] = "idle" /\ queued[w]
    /\ queued' = [queued EXCEPT ![w] = FALSE]
    /\ mem' = [mem EXCEPT ![w] = cache[w]]
    /\ current' = [current EXCEPT ![w] = synced[w]]
    /\ pc' = [pc EXCEPT ![w] = "got"]
    /\ IF ~synced[w] /\ Working(w, cache[w]) THEN Mishap ELSE UNCHANGED mishaps
    /\ UNCHANGED <<obj, cache, synced, pod, ran, edits>>

Got(w, phase) == pc[w] = "got" /\ mem[w].phase = phase

InitializeStatus(w) ==
    /\ Got(w, "")
    /\ WriteAndReturn(w, [mem[w] EXCEPT !.phase = "Pending", !.failed = 0, !.retries = 0])

ClaimBatch(w) ==
    /\ Got(w, "Pending")
    /\ WriteAndReturn(w, [mem[w] EXCEPT !.phase = "Claimed", !.owner = WorkerID(w),
                                        !.lease = 2])

\* The batch of another worker is left alone, for good, and so is an ended one.
LeaveAlone(w) ==
    /\ pc[w] = "got"
    /\ \/ mem[w].phase \in {"Claimed", "Processing"} /\ ~Owns(w, mem[w])
       \/ mem[w].phase \in Terminal
    /\ ReturnOnly(w, FALSE)

ProcessClaimed(w) ==
    /\ Got(w, "Claimed") /\ Owns(w, mem[w]) /\ mem[w].lease > 0
    /\ WriteAndReturn(w, [mem[w] EXCEPT !.phase = "Processing"])

Failing(o) == [o EXCEPT !.phase = "Failed"]

\* retryBatch: back to the others after a delay, or failed for good.
Retried(o) ==
    IF o.retries >= MaxRetries THEN Failing(o)
    ELSE [o EXCEPT !.phase = "Retrying", !.retries = @ + 1, !.wait = TRUE,
                   !.owner = NoWorker, !.lease = 0]

\* markStale: written, then retried by a second write.
MarkStale(w) ==
    /\ Got(w, "Claimed") \/ Got(w, "Processing")
    /\ Owns(w, mem[w]) /\ mem[w].lease = 0
    /\ LET o == [mem[w] EXCEPT !.phase = "Stale"]
       IN \/ /\ Put(w, o)
             /\ mem' = [mem EXCEPT ![w] = o]
             /\ pc' = [pc EXCEPT ![w] = "got"]
             /\ UNCHANGED queued
          \/ /\ Refused(w)
             /\ Return(w)
             /\ queued' = [queued EXCEPT ![w] = TRUE]
    /\ UNCHANGED <<cache, pod, ran, edits>>

ProcessStale(w) == Got(w, "Stale") /\ WriteAndReturn(w, Retried(mem[w]))

\* Mutant: the end of the delay is expected to wake the worker.
ProcessRetryingUnqueued(w) ==
    /\ Got(w, "Retrying")
    /\ IF mem[w].wait THEN ReturnOnly(w, FALSE)
       ELSE WriteAndReturn(w, [mem[w] EXCEPT !.phase = "Pending", !.owner = NoWorker,
                                             !.lease = 0])

ProcessRetrying(w) ==
    /\ Got(w, "Retrying")
    /\ IF mem[w].wait THEN ReturnOnly(w, TRUE)
       ELSE WriteAndReturn(w, [mem[w] EXCEPT !.phase = "Pending", !.owner = NoWorker,
                                             !.lease = 0])

\* Mutant: the owner of the batch is not looked at.
EnterLoopUnowned(w) ==
    /\ Got(w, "Processing") /\ mem[w].lease > 0
    /\ pc' = [pc EXCEPT ![w] = "loop"]
    /\ UNCHANGED <<obj, cache, synced, mem, current, queued, pod, ran, edits, mishaps>>

\* The lease is renewed once, before the loop; a refused renewal is logged.
EnterLoop(w) ==
    /\ pc[w] = "got" /\ Working(w, mem[w]) /\ mem[w].lease > 0
    /\ pc' = [pc EXCEPT ![w] = "loop"]
    /\ IF mem[w].lease = 1
       THEN LET o == [mem[w] EXCEPT !.lease = 2]
            IN mem' = [mem EXCEPT ![w] = o] /\ (Put(w, o) \/ Refused(w))
       ELSE UNCHANGED <<obj, synced, mem, current, mishaps>>
    /\ UNCHANGED <<cache, queued, pod, ran, edits>>

\* Mutant: a completed resource is taken up again.
FailedOnly(o, k) == o.statuses[SourceName[k]] = "Failed"

\* isResourceProcessed: looked up by source name alone, so that of two resources
\* with one name the second is taken for the first; a failed one counts.
Processed(o, k) == o.statuses[SourceName[k]] # "none"

\* markResourceFailed and markResourceCompleted: by source name as well; the
\* counter only grows.
Marked(o, k, status) ==
    [o EXCEPT !.statuses[SourceName[k]] = status,
              !.failed = IF status = "Failed" THEN @ + 1 ELSE @]

\* One resource; its status write may be refused, which is only logged.
ProcessResource(w) ==
    /\ pc[w] = "loop"
    /\ \E k \in mem[w].spec, status \in {"Completed", "Failed"} :
          /\ ~Processed(mem[w], k)
          /\ \A j \in mem[w].spec : j < k => Processed(mem[w], j)
          /\ LET o == Marked(mem[w], k, status)
             IN /\ mem' = [mem EXCEPT ![w] = o]
                /\ ran' = [ran EXCEPT ![SourceName[k]] = @ + 1]
                /\ Put(w, o) \/ Refused(w)
    /\ UNCHANGED <<cache, pc, queued, pod, edits>>

\* Mutant: what failed is left to the statistics.
CompletedAnyway(o) == [o EXCEPT !.phase = "Completed"]

\* completeBatch
Finished(o) ==
    IF o.failed = 0 THEN [o EXCEPT !.phase = "Completed"] ELSE Retried(o)

CompleteBatch(w) ==
    /\ pc[w] = "loop"
    /\ \A k \in mem[w].spec : Processed(mem[w], k)
    /\ WriteAndReturn(w, Finished(mem[w]))

Reconcile(w) ==
    \/ Get(w) \/ InitializeStatus(w) \/ ClaimBatch(w) \/ LeaveAlone(w)
    \/ ProcessClaimed(w) \/ MarkStale(w) \/ ProcessStale(w) \/ ProcessRetrying(w)
    \/ EnterLoop(w) \/ ProcessResource(w) \/ CompleteBatch(w)

Next == User \/ Tick \/ \E w \in Workers : CacheSync(w) \/ Crash(w) \/ Reconcile(w)

Spec == Init /\ [][Next]_vars

\* Events arrive, queues are worked off, reconciles go on, time passes.
FairSpec ==
    /\ Spec
    /\ WF_vars(Tick)
    /\ \A w \in Workers : WF_vars(CacheSync(w)) /\ WF_vars(Reconcile(w))

-----------------------------------------------------------------------------
\* An outdated copy can send a second worker into the loop, and a lease that
\* expires there stops nobody.  But a worker in the loop whose writes would be
\* accepted holds the batch, and its copy has every outcome that is recorded: of
\* the workers in the loop one at most writes, and it loses nothing.
OneWriter ==
    \A w \in Workers :
       pc[w] = "loop" /\ current[w] =>
          /\ obj.phase = "Processing" /\ Owns(w, obj)
          /\ \A n \in Names :
                obj.statuses[n] # "none" => mem[w].statuses[n] = obj.statuses[n]

\* The resources of one name are migrated once between them, and once more for
\* every write by somebody else, failed call, crash and outdated read that sends
\* its worker into the loop, although a refused status write is only logged there.
RunsWithinMishaps == \A n \in Names : ran[n] <= 1 + edits + mishaps

Claim == INSTANCE BatchClaim WITH
    Holders <- Ids, NoHolder <- NoWorker,
    wanted <- {SourceName[k] : k \in obj.spec},
    holder <- obj.owner,
    done <- {n \in Names : obj.statuses[n] = "Completed"},
    result <- IF obj.phase \in Terminal
              THEN IF obj.phase = "Completed" THEN "completed" ELSE "failed"
              ELSE "open"

\* The workers implement the claim: the batch changes hands only by way of
\* nobody, progress is recorded while it is held and never lost, and it completes
\* only with every source name that the spec has then.
ClaimSpec == Claim!Spec

\* The holder's pod was replaced: no worker has its name.
Orphaned == obj.owner # NoWorker /\ \A w \in Workers : ~Owns(w, obj)

\* Every batch ends unless its holder is replaced: expired leases, outdated reads,
\* refused writes and restarts under the same name only delay it.
Ends == <>(obj.phase \in Terminal \/ Orphaned)

=============================================================================
