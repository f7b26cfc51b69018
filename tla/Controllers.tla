------------------------------ MODULE Controllers ------------------------------
(***************************************************************************)
(* The three reconcilers that follow StatusObject, each with an object of  *)
(* its kind, under the operator's replicas, the API handlers and crashes.  *)
(***************************************************************************)
EXTENDS PipelineConversion, AdoDiscovery, MigrationJob

VARIABLE kind       \* of the object: "conversion", "discovery" or "job"

vars == <<objectVars, connection, kind>>

Init ==
    /\ DiscoveryInit
    /\ \/ kind = "conversion" /\ \E s \in ConversionSpecs : InitObject(Fresh(s, NoConversion))
       \/ kind = "discovery" /\ \E s \in DiscoverySpecs : InitObject(Fresh(s, NoDiscovery))
       \/ kind = "job" /\ \E s \in JobSpecs : InitObject(Fresh(s, NoJob))

Reconcile(r) ==
    /\ queued[r]
    /\ \/ kind = "conversion" /\ ReconcileConversion(r)
       \/ kind = "discovery" /\ ReconcileDiscovery(r) /\ UNCHANGED connection
       \/ kind = "job" /\ ReconcileJob(r) /\ UNCHANGED connection
    /\ UNCHANGED kind

Update(r) ==
    /\ \/ kind = "conversion" /\ UpdateConversion(r)
       \/ kind = "discovery" /\ UpdateDiscovery(r)
       \/ kind = "job" /\ UpdateJob(r)
    /\ UNCHANGED <<kind, connection>>

Delete(r) ==
    /\ \/ kind = "conversion" /\ DeleteConversion(r)
       \/ kind = "discovery" /\ DeleteDiscovery(r)
       \/ kind = "job" /\ DeleteJob(r)
    /\ UNCHANGED <<kind, connection>>

Next ==
    \E r \in Replicas :
        \/ Reconcile(r)
        \/ Update(r)
        \/ Delete(r)
        \/ CacheSync(r) /\ UNCHANGED <<kind, connection>>
        \/ Crash(r) /\ ForgetConnection(r) /\ UNCHANGED kind
        \/ TokenExpires(r) /\ UNCHANGED kind

Spec == Init /\ [][Next]_vars

\* The work queue hands out every key, and the watch delivers every version.
Fairness ==
    \A r \in Replicas : WF_vars(Reconcile(r)) /\ WF_vars(CacheSync(r) /\ UNCHANGED <<kind, connection>>)

FairSpec == Spec /\ Fairness

-----------------------------------------------------------------------------

InState(t, state) == {i \in DOMAIN t.entries : t.entries[i].state = state}

Converted(t) == InState(t, "Completed")

\* The counters of a conversion and its workflows agree with its entries, through
\* refused writes, repeated reconciles and restarts: processConverting moves from one
\* phase to the next by the counters alone, so that every entry is converted then only
\* while the total is their number.
EntriesCounted ==
    kind = "conversion" =>
        LET t == object.status IN
        /\ t.completed = Cardinality(Converted(t))
        /\ t.completed = Len(t.workflows)
        /\ t.processing = Cardinality(InState(t, "Converting"))
        /\ t.phase \in {"Validating", "Completed"} /\ t.total = Len(t.entries) =>
               Converted(t) = DOMAIN t.entries

\* Within the pipelines that were found or listed, an id stands for one type.
IdsTellTypes(o) ==
    LET known == ToSet(o.status.entries) \union ToSet(o.spec.pipelines) IN
    \A p, q \in known : p.id = q.id => p.type = q.type

\* A converted pipeline has a workflow of its own type, as long as the spec is the one that
\* was converted: processConverting finds the pipeline by its id among those of the spec,
\* and build and release definitions are numbered apart.
OwnWorkflow ==
    kind = "conversion" =>
        LET t == object.status IN
        IdsTellTypes(object) /\ object.gen = 1 =>
            \A i \in Converted(t) :
                [id |-> t.entries[i].id, type |-> t.entries[i].type] \in ToSet(t.workflows)

\* What an object waits for that no reconcile brings: a discovery that finds pipelines,
\* the entries of the pipelines that an edit added, and the children of a job.
Waiting ==
    LET t == object.status IN
    \/ kind = "conversion" /\ t.phase = "Analyzing" /\ t.entries = <<>>
    \/ kind = "conversion" /\ t.phase = "Converting" /\ t.total # Len(t.entries)
    \/ kind = "job" /\ t.phase = "Running"

\* When users and failures leave an object alone it ends, or is deleted, or waits for
\* what never comes.
Settles == <>[](~object.exists \/ (~object.deleting /\ (Ended(object.status) \/ Waiting)))
=============================================================================
