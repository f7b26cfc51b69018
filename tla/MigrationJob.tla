------------------------------ MODULE MigrationJob ------------------------------
(* The MigrationJob reconciler, which creates no child and counts none: a  *)
(* job that passes its validation runs for ever.                           *)
EXTENDS StatusObject

CONSTANT JobSpecs       \* specs of a job: [config, secrets, resources]

NoJob == [phase |-> "", total |-> 0, completed |-> 0]

InitializeJob(r) ==
    LET o == cache[r] IN
    /\ o.status.phase = ""
    /\ Handle(r, With(o, [o.status EXCEPT !.phase = "Pending", !.total = o.spec.resources]), TRUE)

ProcessPendingJob(r) ==
    LET o == cache[r] IN
    /\ o.status.phase = "Pending"
    /\ Handle(r, With(o, [o.status EXCEPT !.phase = "Validating"]), TRUE)

ValidateSecrets(s) == s.secrets

ValidJob(s) == s.config /\ s.resources > 0 /\ ValidateSecrets(s)

\* The children would be created after this write; createChildMigrations creates none.
ProcessValidatingJob(r) ==
    LET o == cache[r]
        valid == ValidJob(o.spec)
        t == [o.status EXCEPT !.phase = IF valid THEN "Running" ELSE "Failed"] IN
    o.status.phase = "Validating" /\ Handle(r, With(o, t), valid)

ChildProgress(s) == [total |-> s.resources, completed |-> 0]

\* An edit may leave a job without resources: it completes.
ProcessRunningJob(r) ==
    LET o == cache[r]
        progress == ChildProgress(o.spec)
        complete == progress.completed = progress.total
        t == [o.status EXCEPT !.total = progress.total, !.completed = progress.completed,
                              !.phase = IF complete THEN "Completed" ELSE @] IN
    o.status.phase = "Running" /\ Handle(r, With(o, t), ~complete)

ReconcileJob(r) ==
    \/ KeepFinalizer(r)
    \/ /\ Live(cache[r])
       /\ \/ InitializeJob(r)
          \/ ProcessPendingJob(r)
          \/ ProcessValidatingJob(r)
          \/ ProcessRunningJob(r)
          \/ Ended(cache[r].status) /\ Ignore(r, FALSE)

\* A job is edited with kubectl.
UpdateJob(r) == \E s \in JobSpecs : UpdateSpec(r, s)

\* A deletion has nothing to clean up: the children would have the job as their owner.
DeleteJob(r) == DeleteObject(r)
=============================================================================
