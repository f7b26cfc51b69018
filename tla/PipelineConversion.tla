--------------------------- MODULE PipelineConversion ---------------------------
(***************************************************************************)
(* The PipelineToWorkflow reconciler: it lists or discovers the pipelines  *)
(* of an Azure DevOps project, analyses and converts them one at a time,   *)
(* and validates the whole.  An edit of a finished conversion starts it    *)
(* again.                                                                  *)
(*                                                                         *)
(* A pipeline is [id, type]: build and release definitions are numbered    *)
(* apart in Azure DevOps, so two pipelines may share an id.                *)
(***************************************************************************)
EXTENDS PipelineDiscovery

CONSTANT ConversionSpecs     \* specs of a conversion; auto: what to discover, if anything

PipelineResource == [id : Nat, type : Types, named : BOOLEAN]

AutoDiscovery ==
    [enabled : BOOLEAN, auth : {"none", "pat", "principal"}, types : SUBSET Types,
     folder : [path : Seq(STRING), below : BOOLEAN], names : SUBSET Nat, max : Nat]

ASSUME ConversionSpecsAssumption ==
    ConversionSpecs \subseteq
        [pipelines : Seq(PipelineResource), auto : AutoDiscovery, config : BOOLEAN,
         settings : BOOLEAN, create : BOOLEAN]

NoConversion ==
    [observed |-> 0, phase |-> "", total |-> 0, completed |-> 0, processing |-> 0,
     setUp |-> FALSE, entries |-> <<>>, workflows |-> <<>>]

\* The status as the reconcile goes on with it: stored only with the next status write.
Observing(o) == [o.status EXCEPT !.observed = o.gen]

SpecChanged(o) == o.status.observed \notin {0, o.gen}

\* Pipelines of the spec whose id has no entry.
New(o) == {p \in ToSet(o.spec.pipelines) : \A e \in ToSet(o.status.entries) : e.id # p.id}

\* The status with which a finished conversion starts again.  The entries stay, so the
\* new pipelines get none.
Restarted(o) ==
    IF o.spec.auto.enabled THEN [NoConversion EXCEPT !.phase = "Pending", !.observed = o.gen]
    ELSE IF New(o) = {} THEN Observing(o)
    ELSE [Observing(o) EXCEPT !.phase = "Analyzing", !.setUp = FALSE,
                              !.total = Len(o.spec.pipelines)]

RestartConversion(r) ==
    LET o == cache[r] IN
    /\ o.exists /\ SpecChanged(o) /\ Ended(o.status)
    /\ Handle(r, With(o, Restarted(o)), o.spec.auto.enabled \/ New(o) # {})

InitializeConversion(r) ==
    LET o == cache[r] IN
    /\ o.status.phase = ""
    /\ Handle(r, With(o, [Observing(o) EXCEPT !.phase = "Pending",
                                              !.total = Len(o.spec.pipelines)]), TRUE)

ValidConfiguration(s) == s.config /\ (s.pipelines # <<>> \/ s.auto.enabled)

ProcessPendingConversion(r) ==
    LET o == cache[r]
        valid == ValidConfiguration(o.spec)
        t == [Observing(o) EXCEPT !.phase = IF valid THEN "Analyzing" ELSE "Failed"] IN
    o.status.phase = "Pending" /\ Handle(r, With(o, t), valid)

\* One entry for every pipeline.  What a discovery returns is not written to the spec.
ListEntries(o, pipelines) ==
    [Observing(o) EXCEPT
        !.total = Len(pipelines),
        !.entries = [i \in DOMAIN pipelines |->
                        [id |-> pipelines[i].id, type |-> pipelines[i].type, state |-> "Pending"]]]

ListPipelines(r) ==
    LET o == cache[r] IN
    /\ o.status.phase = "Analyzing" /\ o.status.entries = <<>>
    /\ \/ /\ o.spec.auto.enabled
          /\ \/ /\ Connected(r, o.spec.auto)
                /\ \E found \in DiscoverPipelines(o.spec.auto) :
                      Handle(r, With(o, ListEntries(o, found)), TRUE)
             \/ /\ DiscoveryFails(r, o.spec.auto)
                /\ Handle(r, With(o, Fail(Observing(o))), FALSE)
       \/ /\ ~o.spec.auto.enabled /\ UNCHANGED connection
          /\ Handle(r, With(o, ListEntries(o, o.spec.pipelines)), TRUE)

\* The first entry in one of the states, or 0.
FirstIn(entries, states) == SelectInSeq(entries, LAMBDA e : e.state \in states)

Analyzed(entries) ==
    LET i == FirstIn(entries, {"Pending"}) IN
    IF i = 0 THEN entries ELSE [entries EXCEPT ![i].state = "Analyzing"]

\* Mutant: an entry that was converted before a restart counts as not analysed.
AnalyzedOnly(entries) == \A e \in ToSet(entries) : e.state = "Analyzing"

AllAnalyzed(entries) == FirstIn(entries, {"Pending"}) = 0

AnalyzePipeline(r) ==
    LET o == cache[r]
        entries == Analyzed(o.status.entries)
        t == [Observing(o) EXCEPT !.entries = entries,
                                  !.phase = IF AllAnalyzed(entries) THEN "Converting" ELSE @] IN
    /\ o.status.phase = "Analyzing" /\ o.status.entries # <<>>
    /\ Handle(r, With(o, t), TRUE)

\* Mutant: without the pipeline of a discovery, an empty one is converted.
PipelineOfSpec(spec, e) ==
    LET i == SelectInSeq(spec.pipelines, LAMBDA p : p.id = e.id) IN
    IF i = 0 THEN [id |-> 0, type |-> "build"] ELSE spec.pipelines[i]

\* The pipeline that an entry stands for: the first of the spec with its id, and the
\* entry itself when the spec has none.
PipelineOf(spec, e) ==
    LET i == SelectInSeq(spec.pipelines, LAMBDA p : p.id = e.id) IN
    IF i = 0 THEN [id |-> e.id, type |-> e.type] ELSE spec.pipelines[i]

\* The workflow that a conversion generates: of the source's id, in the directory of its type.
ConvertPipeline(p) == [id |-> p.id, type |-> p.type]

\* Mutant: the pipeline keeps counting as in process.
FinishStillProcessing(t, i, w) ==
    [t EXCEPT !.entries[i].state = "Completed", !.workflows = Append(@, w), !.completed = @ + 1]

Finish(t, i, w) ==
    [t EXCEPT !.entries[i].state = "Completed", !.workflows = Append(@, w),
              !.processing = @ - 1, !.completed = @ + 1]

ConvertNext(spec, t) ==
    LET i == FirstIn(t.entries, {"Analyzing", "Converting"}) IN
    IF i = 0 THEN t
    ELSE IF t.entries[i].state = "Analyzing"
    THEN [t EXCEPT !.entries[i].state = "Converting", !.processing = @ + 1]
    ELSE Finish(t, i, ConvertPipeline(PipelineOf(spec, t.entries[i])))

\* The phase ends when the counters say so, whatever the entries say.
AllConverted(t) == t.completed = t.total

EndOfConverting(t) ==
    IF AllConverted(t) THEN [t EXCEPT !.phase = "Validating", !.setUp = FALSE] ELSE t

\* The status is stored only when something was done; without it the reconcile repeats.
ConvertWith(r, o, t) ==
    LET new == EndOfConverting(ConvertNext(o.spec, t)) IN
    IF new = Observing(o) THEN Ignore(r, TRUE) ELSE Handle(r, With(o, new), TRUE)

WithoutToken(r, o) == Handle(r, With(o, Fail(Observing(o))), FALSE)

\* The repository for the workflows comes first.  A set-up that fails is tried again.
SetupWorkflowsRepository(r) ==
    LET o == cache[r]
        t == Observing(o) IN
    /\ o.status.phase = "Converting" /\ o.spec.create /\ ~o.status.setUp
    /\ \/ WithoutToken(r, o)
       \/ ConvertWith(r, o, t)
       \/ ConvertWith(r, o, [t EXCEPT !.setUp = TRUE])

ProcessConverting(r) ==
    LET o == cache[r] IN
    /\ o.status.phase = "Converting" /\ (o.spec.create => o.status.setUp)
    /\ ConvertWith(r, o, Observing(o))

ValidPipeline(p) == p.named

ValidSettings(s) == s.settings

\* The validation looks at the spec: not at what was discovered.
ValidateConversion(s) == ValidSettings(s) /\ \A p \in ToSet(s.pipelines) : ValidPipeline(p)

ProcessValidatingConversion(r) ==
    LET o == cache[r]
        t == [Observing(o) EXCEPT !.phase = IF ValidateConversion(o.spec) THEN "Completed" ELSE "Failed"] IN
    o.status.phase = "Validating" /\ Handle(r, With(o, t), FALSE)

ReconcileConversion(r) ==
    LET o == cache[r] IN
    \/ RestartConversion(r) /\ UNCHANGED connection
    \/ /\ ~(o.exists /\ SpecChanged(o) /\ Ended(o.status))
       /\ \/ KeepFinalizer(r) /\ UNCHANGED connection
          \/ Live(o) /\ ListPipelines(r)
          \/ /\ Live(o) /\ UNCHANGED connection
             /\ \/ InitializeConversion(r)
                \/ ProcessPendingConversion(r)
                \/ AnalyzePipeline(r)
                \/ SetupWorkflowsRepository(r)
                \/ ProcessConverting(r)
                \/ ProcessValidatingConversion(r)
                \/ Ended(o.status) /\ Ignore(r, FALSE)

\* validatePipelineConversion: what the API accepts.
Acceptable(s) == s.config /\ s.settings /\ s.pipelines # <<>> /\ \A p \in ToSet(s.pipelines) : p.named

UpdateConversion(r) == \E s \in ConversionSpecs : Acceptable(s) /\ UpdateSpec(r, s)

DeleteConversion(r) == DeleteObject(r)
=============================================================================
