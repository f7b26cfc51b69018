--------------------------- MODULE ControllersProofs ---------------------------
(* Theorems about Controllers: what the reconciler of a pipeline conversion *)
(* keeps, whatever the replicas, users and failures do.                     *)
EXTENDS Controllers, FiniteSetTheorems, SequenceTheorems, WellFoundedInduction, TLAPS

-----------------------------------------------------------------------------
(* Lists, and the first entry of a kind in one.                            *)

IsList(s) == s \in Seq(ToSet(s))

\* A finite sequence is a list, whatever it is a sequence of, and a list has a length.
LEMMA Lists ==
    /\ \A S : \A s \in Seq(S) : IsList(s)
    /\ \A s : IsList(s) => Len(s) \in Nat /\ DOMAIN s = 1 .. Len(s)
<1>1. ASSUME NEW S, NEW s \in Seq(S) PROVE IsList(s)
  <2>1. Len(s) \in Nat /\ DOMAIN s = 1 .. Len(s) /\ s \in [1 .. Len(s) -> S]
    OBVIOUS
  <2>2. \A i \in 1 .. Len(s) : s[i] \in ToSet(s)
    BY <2>1 DEF ToSet
  <2>3. s \in [1 .. Len(s) -> ToSet(s)]
    BY <2>1, <2>2
  <2> QED
    BY <2>1, <2>3 DEF IsList
<1>2. ASSUME NEW s, IsList(s) PROVE Len(s) \in Nat /\ DOMAIN s = 1 .. Len(s)
  BY <1>2 DEF IsList
<1> QED
  BY <1>1, <1>2

\* A function on the positions of a list is a list as long.
LEMMA ListOfFunction ==
    ASSUME NEW n \in Nat, NEW f, f = [i \in 1 .. n |-> f[i]]
    PROVE  IsList(f) /\ Len(f) = n /\ DOMAIN f = 1 .. n
<1> DEFINE S == {f[i] : i \in 1 .. n}
<1>1. f \in [1 .. n -> S]
  OBVIOUS
<1>2. f \in Seq(S) /\ Len(f) = n /\ DOMAIN f = 1 .. n
  BY <1>1
<1> QED
  BY <1>2, Lists

\* What a list that grows by one holds.
LEMMA ListAppend ==
    ASSUME NEW s, IsList(s), NEW x
    PROVE  /\ IsList(Append(s, x))
           /\ Len(Append(s, x)) = Len(s) + 1
           /\ ToSet(Append(s, x)) = ToSet(s) \union {x}
<1> DEFINE S == ToSet(s) \union {x}
           t == Append(s, x)
<1>1. s \in Seq(S) /\ x \in S
  BY SeqMonotonic DEF IsList
<1> HIDE DEF S
<1>2. t \in Seq(S) /\ Len(t) = Len(s) + 1 /\ Len(s) \in Nat
  BY <1>1
<1>3. /\ DOMAIN t = 1 .. Len(s) + 1 /\ DOMAIN s = 1 .. Len(s)
      /\ t[Len(s) + 1] = x /\ \A i \in 1 .. Len(s) : t[i] = s[i]
  BY <1>1, <1>2
<1>4. ToSet(t) = ToSet(s) \union {x}
  <2>1. \A i \in DOMAIN t : t[i] \in ToSet(s) \union {x}
    BY <1>2, <1>3 DEF ToSet
  <2>2. \A i \in DOMAIN s : i \in DOMAIN t /\ t[i] = s[i]
    BY <1>2, <1>3
  <2>3. x \in ToSet(t)
    BY <1>2, <1>3 DEF ToSet
  <2> QED
    BY <2>1, <2>2, <2>3 DEF ToSet
<1> QED
  BY <1>2, <1>4, Lists

\* Two lists in a row are a list.
LEMMA ListConcat ==
    ASSUME NEW s, NEW t, IsList(s), IsList(t)
    PROVE  IsList(s \o t)
<1> DEFINE S == ToSet(s) \union ToSet(t)
<1>1. s \in Seq(S) /\ t \in Seq(S)
  BY SeqMonotonic DEF IsList
<1> HIDE DEF S
<1>2. s \o t \in Seq(S)
  BY <1>1
<1> QED
  BY <1>2, Lists

\* A part of a list, up to any place, is a list.
LEMMA ListPart ==
    ASSUME NEW s, NEW n \in Int
    PROVE  IsList(SubSeq(s, 1, n))
<1> DEFINE S == {s[i] : i \in 1 .. n}
<1>1. \A i \in 1 .. n : s[i] \in S
  OBVIOUS
<1> HIDE DEF S
<1>2. SubSeq(s, 1, n) \in Seq(S)
  BY <1>1, SubSeqProperties
<1> QED
  BY <1>2, Lists

\* A set of positions that is not empty has a least one.
LEMMA LeastPlace ==
    ASSUME NEW S \in SUBSET Nat, S # {}
    PROVE  Min(S) \in S /\ \A j \in S : Min(S) <= j
<1>1. \E i \in S : \A j \in S : <<j, i>> \notin OpToRel(<, Nat)
  BY NatLessThanWellFounded, WFMin
<1>2. \A i, j \in S : j < i => <<j, i>> \in OpToRel(<, Nat)
  BY DEF OpToRel
<1>3. PICK i \in S : \A j \in S : ~(j < i)
  BY <1>1, <1>2
<1>4. \A j \in S : i <= j
  BY <1>3
<1> QED
  BY <1>4 DEF Min

\* FirstIn finds an entry in one of the states, if there is one.
LEMMA FirstInFinds ==
    ASSUME NEW es, IsList(es), NEW states
    PROVE  LET i == FirstIn(es, states) IN
           /\ i = 0 => \A j \in DOMAIN es : es[j].state \notin states
           /\ i # 0 => i \in DOMAIN es /\ es[i].state \in states
<1> DEFINE I == {i \in 1 .. Len(es) : es[i].state \in states}
<1>1. Len(es) \in Nat /\ DOMAIN es = 1 .. Len(es)
  BY Lists
<1>2. FirstIn(es, states) = IF I # {} THEN Min(I) ELSE 0
  BY DEF FirstIn, SelectInSeq
<1>3. I \in SUBSET Nat
  BY <1>1
<1>4. I # {} => Min(I) \in I
  BY <1>3, LeastPlace
<1> QED
  BY <1>1, <1>2, <1>4

-----------------------------------------------------------------------------
(* The invariant of a conversion.                                          *)

EntryStates == {"Pending", "Analyzing", "Converting", "Completed"}

IsEntry(e) == e = [id |-> e.id, type |-> e.type, state |-> e.state] /\ e.state \in EntryStates

ConversionPhases ==
    {"", "Pending", "Analyzing", "Converting", "Validating", "Completed", "Failed"}

IsConversion(t) ==
    /\ t = [observed |-> t.observed, phase |-> t.phase, total |-> t.total,
            completed |-> t.completed, processing |-> t.processing, setUp |-> t.setUp,
            entries |-> t.entries, workflows |-> t.workflows]
    /\ t.phase \in ConversionPhases
    /\ IsList(t.workflows)
    /\ IsList(t.entries) /\ \A i \in DOMAIN t.entries : IsEntry(t.entries[i])

\* What EntriesCounted says of one status.
Counted(t) ==
    /\ t.completed = Cardinality(Converted(t))
    /\ t.completed = Len(t.workflows)
    /\ t.processing = Cardinality(InState(t, "Converting"))
    /\ t.phase \in {"Validating", "Completed"} /\ t.total = Len(t.entries) =>
           Converted(t) = DOMAIN t.entries

\* As long as the spec is the first one, every converted entry has the workflow of the
\* pipeline that its id finds there.
Found(spec, t) ==
    \A i \in Converted(t) : ConvertPipeline(PipelineOf(spec, t.entries[i])) \in ToSet(t.workflows)

ObjectOK(o) ==
    /\ o = [exists |-> o.exists, deleting |-> o.deleting, fin |-> o.fin, gen |-> o.gen,
            spec |-> o.spec, status |-> o.status]
    /\ o.gen \in Nat \ {0}
    /\ o.spec \in ConversionSpecs
    /\ IsConversion(o.status)
    /\ Counted(o.status)
    /\ o.gen = 1 => o.status.observed \in {0, 1} /\ Found(o.spec, o.status)

\* A copy that its replica takes for the latest is the object.
CopiesCurrent ==
    /\ cache = [r \in Replicas |-> cache[r]]
    /\ synced = [r \in Replicas |-> synced[r]]
    /\ \A r \in Replicas : synced[r] => cache[r] = object

ConversionInv == kind = "conversion" => CopiesCurrent /\ ObjectOK(object)

\* What the assumption says of one spec.
LEMMA SpecOfConversion ==
    ASSUME NEW s \in ConversionSpecs
    PROVE  /\ IsList(s.pipelines) /\ s.pipelines \in Seq(PipelineResource)
           /\ s.auto \in AutoDiscovery /\ s.auto.enabled \in BOOLEAN /\ s.auto.max \in Nat
           /\ s.config \in BOOLEAN /\ s.create \in BOOLEAN
<1>1. s \in [pipelines : Seq(PipelineResource), auto : AutoDiscovery, config : BOOLEAN,
             settings : BOOLEAN, create : BOOLEAN]
  BY ConversionSpecsAssumption
<1>2. s.auto \in AutoDiscovery /\ s.pipelines \in Seq(PipelineResource)
  BY <1>1
<1> QED
  BY <1>1, <1>2, Lists DEF AutoDiscovery

\* The positions of a list that a constructor selects can be counted.
LEMMA Countable ==
    ASSUME NEW s, IsList(s), NEW S \in SUBSET DOMAIN s
    PROVE  IsFiniteSet(S) /\ Cardinality(S) \in Nat
<1>1. DOMAIN s = 1 .. Len(s) /\ Len(s) \in Nat
  BY Lists
<1>2. IsFiniteSet(1 .. Len(s))
  BY <1>1, FS_Interval
<1>3. IsFiniteSet(S)
  BY <1>1, <1>2, FS_Subset
<1> QED
  BY <1>3, FS_CardinalityType

-----------------------------------------------------------------------------
(* What a discovery finds is a list.                                       *)

LEMMA FilteredList ==
    ASSUME NEW pipelines, IsList(pipelines), NEW config
    PROVE  IsList(FilterPipelines(pipelines, config))
<1> DEFINE kept == {i \in DOMAIN pipelines : Matches(pipelines[i], config)}
           place(i) == Cardinality({j \in kept : j <= i})
           f == [n \in 1 .. Cardinality(kept) |-> pipelines[CHOOSE i \in kept : place(i) = n]]
<1>1. FilterPipelines(pipelines, config) = f
  BY DEF FilterPipelines
<1>2. Cardinality(kept) \in Nat
  BY Countable
<1>3. f = [n \in 1 .. Cardinality(kept) |-> f[n]]
  OBVIOUS
<1> HIDE DEF f, kept
<1> QED
  BY <1>1, <1>2, <1>3, ListOfFunction

LEMMA LimitedLists ==
    ASSUME NEW build, NEW release, IsList(build), IsList(release), NEW max \in Nat
    PROVE  LET lists == ApplyMaxLimit([build |-> build, release |-> release], max) IN
           IsList(lists.build) /\ IsList(lists.release)
<1> DEFINE lists == [build |-> build, release |-> release]
           b == Len(build)
           l == Len(release)
           quotient == (max * b) \div (b + l)
           builds == IF max - quotient > l THEN max - l ELSE quotient
<1>1. b \in Nat /\ l \in Nat
  BY Lists
<1>2. CASE max = 0 \/ b + l <= max
  <2>1. ApplyMaxLimit(lists, max) = lists
    BY <1>2 DEF ApplyMaxLimit
  <2> QED
    BY <2>1
<1>3. CASE ~(max = 0 \/ b + l <= max)
  <2>1. CASE b + l = 0
    BY <1>1, <1>3, <2>1
  <2>2. CASE b + l # 0
    <3>1. max * b \in Nat
      BY <1>1
    <3>2. b + l \in Nat \ {0}
      BY <1>1, <2>2
    <3>3. quotient \in Int
      BY <3>1, <3>2
    <3>4. ApplyMaxLimit(lists, max) =
            [build |-> SubSeq(build, 1, builds), release |-> SubSeq(release, 1, max - builds)]
      BY <1>3 DEF ApplyMaxLimit
    <3> HIDE DEF quotient
    <3>5. builds \in Int /\ max - builds \in Int
      BY <1>1, <3>3
    <3> HIDE DEF builds
    <3>6. IsList(SubSeq(build, 1, builds)) /\ IsList(SubSeq(release, 1, max - builds))
      BY <3>5, ListPart
    <3>7. /\ ApplyMaxLimit(lists, max).build = SubSeq(build, 1, builds)
          /\ ApplyMaxLimit(lists, max).release = SubSeq(release, 1, max - builds)
      BY <3>4
    <3> QED
      BY <3>6, <3>7
  <2> QED
    BY <2>1, <2>2
<1> QED
  BY <1>2, <1>3

LEMMA Discovered ==
    ASSUME NEW config, config.max \in Nat, NEW found \in DiscoverPipelines(config)
    PROVE  IsList(found)
<1> DEFINE build(p) == DiscoverPipelinesWithPAT(p, config, "build")
           release(p) == DiscoverPipelinesWithPAT(p, config, "release")
           lists(p, q) == ApplyMaxLimit([build |-> build(p), release |-> release(q)], config.max)
<1>1. PICK p \in Projects, q \in Projects :
          found = ConvertDiscoveredPipelinesToResources(lists(p, q))
  BY DEF DiscoverPipelines
<1>2. p \in [build : Seq(ProjectPipeline), release : Seq(ProjectPipeline)]
      /\ q \in [build : Seq(ProjectPipeline), release : Seq(ProjectPipeline)]
  BY ProjectsAssumption
<1>3. IsList(p["build"]) /\ IsList(q["release"]) /\ IsList(<<>>)
  <2>1. p["build"] \in Seq(ProjectPipeline) /\ q["release"] \in Seq(ProjectPipeline)
    BY <1>2
  <2>2. <<>> \in Seq(ProjectPipeline)
    OBVIOUS
  <2> QED
    BY <2>1, <2>2, Lists
<1>4. IsList(build(p)) /\ IsList(release(q))
  BY <1>3, FilteredList DEF DiscoverPipelinesWithPAT
<1>5. PICK b, l : b = build(p) /\ l = release(q)
  OBVIOUS
<1>6. PICK ls : ls = lists(p, q)
  OBVIOUS
<1> HIDE DEF build, release
<1>7. IsList(ls.build) /\ IsList(ls.release)
  BY <1>4, <1>6, LimitedLists
<1>8. PICK all : all = ls.build \o ls.release
  OBVIOUS
<1>9. IsList(all)
  BY <1>7, <1>8, ListConcat
<1>10. found = [i \in DOMAIN all |-> [id |-> all[i].id, type |-> all[i].type, named |-> TRUE]]
  BY <1>1, <1>6, <1>8 DEF ConvertDiscoveredPipelinesToResources
<1>11. DOMAIN all = 1 .. Len(all) /\ Len(all) \in Nat
  BY <1>9, Lists
<1> QED
  BY <1>10, <1>11, ListOfFunction

-----------------------------------------------------------------------------
(* The statuses that a reconcile may store.                                *)

\* What the invariant says of the status of an object of generation gen.
StatusOK(spec, gen, t) ==
    /\ IsConversion(t)
    /\ Counted(t)
    /\ gen = 1 => t.observed \in {0, 1} /\ Found(spec, t)

\* A status that keeps entries, workflows and counters keeps the invariant, unless its
\* phase says that all is converted and is not.
LEMMA OtherPhase ==
    ASSUME NEW spec, NEW gen, NEW t, StatusOK(spec, gen, t),
           NEW n,
           n = [observed |-> n.observed, phase |-> n.phase, total |-> n.total,
                completed |-> t.completed, processing |-> t.processing, setUp |-> n.setUp,
                entries |-> t.entries, workflows |-> t.workflows],
           n.phase \in ConversionPhases,
           gen = 1 => n.observed \in {0, 1},
           n.phase \in {"Validating", "Completed"} /\ n.total = Len(t.entries) =>
               Converted(t) = DOMAIN t.entries
    PROVE  StatusOK(spec, gen, n)
<1>1. /\ n.entries = t.entries /\ n.workflows = t.workflows
      /\ n.completed = t.completed /\ n.processing = t.processing
  OBVIOUS
<1>2. IsConversion(n)
  BY <1>1 DEF StatusOK, IsConversion
<1>3. Converted(n) = Converted(t) /\ InState(n, "Converting") = InState(t, "Converting")
  BY <1>1 DEF Converted, InState
<1>4. Counted(n)
  BY <1>1, <1>3 DEF StatusOK, Counted
<1>5. gen = 1 => Found(spec, n)
  BY <1>1, <1>3 DEF StatusOK, Found
<1> QED
  BY <1>2, <1>4, <1>5 DEF StatusOK

\* An observed status differs from the stored one in its generation only.
LEMMA ObservingOK ==
    ASSUME NEW o, ObjectOK(o)
    PROVE  LET t == Observing(o) IN
           /\ t = [observed |-> o.gen, phase |-> o.status.phase, total |-> o.status.total,
                   completed |-> o.status.completed, processing |-> o.status.processing,
                   setUp |-> o.status.setUp, entries |-> o.status.entries,
                   workflows |-> o.status.workflows]
           /\ StatusOK(o.spec, o.gen, t)
<1> DEFINE t == Observing(o)
<1>1. StatusOK(o.spec, o.gen, o.status)
  BY DEF ObjectOK, StatusOK
<1>2. t = [observed |-> o.gen, phase |-> o.status.phase, total |-> o.status.total,
           completed |-> o.status.completed, processing |-> o.status.processing,
           setUp |-> o.status.setUp, entries |-> o.status.entries,
           workflows |-> o.status.workflows]
  BY DEF Observing, ObjectOK, IsConversion
<1>3. t.phase \in ConversionPhases /\ (o.gen = 1 => t.observed \in {0, 1})
  BY <1>2 DEF ObjectOK, IsConversion
<1>4. t.phase \in {"Validating", "Completed"} /\ t.total = Len(o.status.entries) =>
          Converted(o.status) = DOMAIN o.status.entries
  BY <1>2 DEF ObjectOK, Counted
<1>5. t = [observed |-> t.observed, phase |-> t.phase, total |-> t.total,
           completed |-> o.status.completed, processing |-> o.status.processing,
           setUp |-> t.setUp, entries |-> o.status.entries, workflows |-> o.status.workflows]
  BY <1>2
<1> HIDE DEF t
<1>6. StatusOK(o.spec, o.gen, t)
  BY <1>1, <1>3, <1>4, <1>5, OtherPhase
<1> QED
  BY <1>2, <1>6 DEF t

\* The empty list.
LEMMA EmptyList == \E nil : nil = <<>> /\ IsList(nil) /\ Len(nil) = 0 /\ DOMAIN nil = {}
<1>1. PICK nil : nil = <<>> /\ nil \in Seq({}) /\ Len(nil) = 0
  BY EmptySeq
<1>2. IsList(nil) /\ DOMAIN nil = 1 .. 0
  BY <1>1, Lists
<1>3. DOMAIN nil = {}
  BY <1>2
<1> QED
  BY <1>1, <1>2, <1>3

\* A status without entries, workflows and counts.
LEMMA EmptyStatusOK ==
    ASSUME NEW spec, NEW gen, NEW observed, NEW phase \in {"", "Pending"},
           gen = 1 => observed \in {0, 1},
           NEW no, NEW nil, IsList(nil), Len(nil) = 0, DOMAIN nil = {},
           NEW t,
           t = [observed |-> observed, phase |-> phase, total |-> 0, completed |-> 0,
                processing |-> 0, setUp |-> no, entries |-> nil, workflows |-> nil]
    PROVE  StatusOK(spec, gen, t)
<1>1. /\ t.entries = nil /\ t.workflows = nil /\ t.completed = 0 /\ t.processing = 0
      /\ t.phase = phase /\ t.observed = observed
      /\ t = [observed |-> t.observed, phase |-> t.phase, total |-> t.total,
              completed |-> t.completed, processing |-> t.processing, setUp |-> t.setUp,
              entries |-> t.entries, workflows |-> t.workflows]
  OBVIOUS
<1>2. IsConversion(t)
  BY <1>1 DEF IsConversion, ConversionPhases
<1>3. Converted(t) = {} /\ InState(t, "Converting") = {}
  BY <1>1 DEF Converted, InState
<1>4. Cardinality({}) = 0
  BY FS_EmptySet
<1>5. Counted(t)
  BY <1>1, <1>3, <1>4 DEF Counted
<1>6. Found(spec, t)
  BY <1>3 DEF Found
<1> QED
  BY <1>1, <1>2, <1>5, <1>6 DEF StatusOK

\* The status of a new conversion, and of one that starts again.
LEMMA EmptyOK ==
    ASSUME NEW spec, NEW gen, NEW observed, gen = 1 => observed \in {0, 1}
    PROVE  /\ StatusOK(spec, 1, NoConversion)
           /\ StatusOK(spec, gen,
                  [NoConversion EXCEPT !.phase = "Pending", !.observed = observed])
<1>1. PICK nil : nil = <<>> /\ IsList(nil) /\ Len(nil) = 0 /\ DOMAIN nil = {}
  BY EmptyList
<1>2. PICK no : no = FALSE
  OBVIOUS
<1>3. PICK t : t = NoConversion
  OBVIOUS
<1>4. t = [observed |-> 0, phase |-> "", total |-> 0, completed |-> 0,
           processing |-> 0, setUp |-> no, entries |-> nil, workflows |-> nil]
  BY <1>1, <1>2, <1>3, Zenon DEF NoConversion
<1>5. PICK m : m = [t EXCEPT !.phase = "Pending"]
  OBVIOUS
<1>6. m = [observed |-> 0, phase |-> "Pending", total |-> 0, completed |-> 0,
           processing |-> 0, setUp |-> no, entries |-> nil, workflows |-> nil]
  BY <1>4, <1>5
<1>7. PICK l : l = [m EXCEPT !.observed = observed]
  OBVIOUS
<1>8. l = [observed |-> observed, phase |-> "Pending", total |-> 0, completed |-> 0,
           processing |-> 0, setUp |-> no, entries |-> nil, workflows |-> nil]
  BY <1>6, <1>7
<1>9. StatusOK(spec, 1, t)
  BY <1>1, <1>4, EmptyStatusOK
<1>10. StatusOK(spec, gen, l)
  BY <1>1, <1>8, EmptyStatusOK
<1>11. l = [NoConversion EXCEPT !.phase = "Pending", !.observed = observed]
  BY <1>3, <1>5, <1>7
<1> QED
  BY <1>3, <1>9, <1>10, <1>11

\* One pending entry for every pipeline: nothing is converted and nothing in process.
LEMMA ListedOK ==
    ASSUME NEW o, ObjectOK(o), o.status.entries = <<>>, o.status.phase = "Analyzing",
           NEW found, IsList(found)
    PROVE  StatusOK(o.spec, o.gen, ListEntries(o, found))
<1> DEFINE t == Observing(o)
           n == ListEntries(o, found)
           es == [i \in DOMAIN found |->
                     [id |-> found[i].id, type |-> found[i].type, state |-> "Pending"]]
<1>1. /\ t = [observed |-> o.gen, phase |-> o.status.phase, total |-> o.status.total,
              completed |-> o.status.completed, processing |-> o.status.processing,
              setUp |-> o.status.setUp, entries |-> o.status.entries,
              workflows |-> o.status.workflows]
      /\ StatusOK(o.spec, o.gen, t)
  BY ObservingOK
<1>2. n = [observed |-> o.gen, phase |-> "Analyzing", total |-> Len(found),
           completed |-> t.completed, processing |-> t.processing, setUp |-> t.setUp,
           entries |-> es, workflows |-> t.workflows]
  <2>1. n = [t EXCEPT !.total = Len(found), !.entries = es]
    BY DEF ListEntries
  <2> HIDE DEF t, es, n
  <2> QED
    BY <1>1, <2>1
<1>3. DOMAIN found = 1 .. Len(found) /\ Len(found) \in Nat
  BY Lists
<1>4. IsList(es) /\ DOMAIN es = DOMAIN found
  <2>1. es = [i \in 1 .. Len(found) |-> es[i]]
    BY <1>3
  <2> HIDE DEF es
  <2> QED
    BY <1>3, <2>1, ListOfFunction
<1>5. \A i \in DOMAIN es : IsEntry(es[i]) /\ es[i].state = "Pending"
  BY <1>4 DEF IsEntry, EntryStates
<1>6. t.entries = <<>>
  BY <1>1
<1> HIDE DEF t, es
<1>7. Converted(t) = {} /\ InState(t, "Converting") = {}
  <2>1. DOMAIN <<>> = {}
    OBVIOUS
  <2> QED
    BY <1>6, <2>1 DEF Converted, InState
<1>8. n.entries = es /\ n.phase = "Analyzing" /\ n.workflows = t.workflows
      /\ n.completed = t.completed /\ n.processing = t.processing /\ n.observed = o.gen
  BY <1>2
<1>9. n = [observed |-> n.observed, phase |-> n.phase, total |-> n.total,
           completed |-> n.completed, processing |-> n.processing, setUp |-> n.setUp,
           entries |-> n.entries, workflows |-> n.workflows]
  BY <1>2
<1> HIDE DEF n
<1>10. Converted(n) = {} /\ InState(n, "Converting") = {}
  BY <1>5, <1>8 DEF Converted, InState
<1>11. IsConversion(n)
  BY <1>1, <1>4, <1>5, <1>8, <1>9 DEF IsConversion, StatusOK, ConversionPhases
<1>12. Counted(n)
  BY <1>1, <1>7, <1>8, <1>10 DEF StatusOK, Counted
<1>13. Found(o.spec, n)
  BY <1>10 DEF Found
<1>14. StatusOK(o.spec, o.gen, n)
  BY <1>8, <1>11, <1>12, <1>13 DEF StatusOK
<1> QED
  BY <1>14 DEF n

\* One entry gets another state.
InNewState(es, i, state) == [es EXCEPT ![i].state = state]

\* The entry keeps what it stands for, and the others are left alone.
LEMMA EntryChanges ==
    ASSUME NEW es, IsList(es), \A j \in DOMAIN es : IsEntry(es[j]),
           NEW i \in DOMAIN es, NEW state \in EntryStates,
           NEW new, new = InNewState(es, i, state)
    PROVE  /\ IsList(new) /\ DOMAIN new = DOMAIN es /\ Len(new) = Len(es)
           /\ \A j \in DOMAIN es :
                 /\ IsEntry(new[j]) /\ new[j].id = es[j].id /\ new[j].type = es[j].type
                 /\ new[j].state = IF j = i THEN state ELSE es[j].state
<1> DEFINE e == [es[i] EXCEPT !.state = state]
<1>1. DOMAIN es = 1 .. Len(es) /\ Len(es) \in Nat /\ es \in Seq(ToSet(es))
  BY Lists DEF IsList
<1>2. e = [id |-> es[i].id, type |-> es[i].type, state |-> state]
  BY DEF IsEntry
<1>3. IsEntry(e) /\ e.id = es[i].id /\ e.type = es[i].type /\ e.state = state
  BY <1>2 DEF IsEntry
<1> HIDE DEF e
<1>4. new = [j \in 1 .. Len(es) |-> IF j = i THEN e ELSE es[j]]
  <2>1. new = [es EXCEPT ![i] = e]
    BY DEF e, InNewState
  <2>2. es = [j \in 1 .. Len(es) |-> es[j]]
    BY <1>1
  <2> QED
    BY <1>1, <2>1, <2>2
<1>5. new = [j \in 1 .. Len(es) |-> new[j]]
  BY <1>4
<1>6. IsList(new) /\ Len(new) = Len(es) /\ DOMAIN new = 1 .. Len(es)
  BY <1>1, <1>5, ListOfFunction
<1>7. \A j \in DOMAIN es : new[j] = IF j = i THEN e ELSE es[j]
  BY <1>1, <1>4
<1> QED
  BY <1>1, <1>3, <1>6, <1>7

\* The pipeline of an entry depends on its id and type only.
LEMMA SamePipeline ==
    ASSUME NEW spec, NEW e, NEW f, e.id = f.id, e.type = f.type
    PROVE  PipelineOf(spec, e) = PipelineOf(spec, f)
BY DEF PipelineOf

\* What the analysis makes of the entries.
LEMMA AnalyzedEntries ==
    ASSUME NEW es, IsList(es), \A j \in DOMAIN es : IsEntry(es[j]),
           NEW new, new = Analyzed(es)
    PROVE  /\ IsList(new) /\ DOMAIN new = DOMAIN es
           /\ \A j \in DOMAIN es :
                 /\ IsEntry(new[j]) /\ new[j].id = es[j].id /\ new[j].type = es[j].type
                 /\ \/ new[j].state = es[j].state
                    \/ es[j].state = "Pending" /\ new[j].state = "Analyzing"
<1>1. PICK i : i = FirstIn(es, {"Pending"})
  OBVIOUS
<1>2. CASE i = 0
  BY <1>1, <1>2 DEF Analyzed
<1>3. CASE i # 0
  <2>1. i \in DOMAIN es /\ es[i].state = "Pending"
    BY <1>1, <1>3, FirstInFinds
  <2>2. PICK m : m = InNewState(es, i, "Analyzing")
    OBVIOUS
  <2>3. new = m
    BY <1>1, <1>3, <2>2 DEF Analyzed, InNewState
  <2>4. "Analyzing" \in EntryStates
    BY DEF EntryStates
  <2>5. /\ IsList(m) /\ DOMAIN m = DOMAIN es
        /\ \A j \in DOMAIN es :
              /\ IsEntry(m[j]) /\ m[j].id = es[j].id /\ m[j].type = es[j].type
              /\ m[j].state = IF j = i THEN "Analyzing" ELSE es[j].state
    BY <2>1, <2>2, <2>4, EntryChanges
  <2> QED
    BY <2>1, <2>3, <2>5
<1> QED
  BY <1>2, <1>3

\* Entries that are analysed are not converted, nor in process: the counters stay right.
LEMMA AnalyzedOK ==
    ASSUME NEW spec, NEW gen, NEW t, StatusOK(spec, gen, t),
           NEW n,
           n = [observed |-> t.observed, phase |-> n.phase, total |-> t.total,
                completed |-> t.completed, processing |-> t.processing, setUp |-> t.setUp,
                entries |-> n.entries, workflows |-> t.workflows],
           n.phase \in {"Analyzing", "Converting"},
           n.entries = Analyzed(t.entries)
    PROVE  StatusOK(spec, gen, n)
<1>1. IsList(t.entries) /\ \A j \in DOMAIN t.entries : IsEntry(t.entries[j])
  BY DEF StatusOK, IsConversion
<1>2. /\ IsList(n.entries) /\ DOMAIN n.entries = DOMAIN t.entries
      /\ \A j \in DOMAIN t.entries :
            /\ IsEntry(n.entries[j])
            /\ n.entries[j].id = t.entries[j].id /\ n.entries[j].type = t.entries[j].type
            /\ \/ n.entries[j].state = t.entries[j].state
               \/ t.entries[j].state = "Pending" /\ n.entries[j].state = "Analyzing"
  BY <1>1, AnalyzedEntries
<1>3. /\ n.observed = t.observed /\ n.completed = t.completed
      /\ n.processing = t.processing /\ n.workflows = t.workflows
  OBVIOUS
<1>4. Converted(n) = Converted(t) /\ InState(n, "Converting") = InState(t, "Converting")
  BY <1>2 DEF Converted, InState
<1>5. IsConversion(n)
  BY <1>2, <1>3 DEF StatusOK, IsConversion, ConversionPhases
<1>6. Counted(n)
  BY <1>3, <1>4 DEF StatusOK, Counted
<1>7. Found(spec, t) => Found(spec, n)
  <2>1. \A j \in DOMAIN t.entries :
            PipelineOf(spec, n.entries[j]) = PipelineOf(spec, t.entries[j])
    BY <1>2, SamePipeline
  <2>2. Converted(t) \subseteq DOMAIN t.entries
    BY DEF Converted, InState
  <2> QED
    BY <1>3, <1>4, <2>1, <2>2 DEF Found
<1> QED
  BY <1>3, <1>5, <1>6, <1>7 DEF StatusOK

\* An entry that goes into process is one more in process, and none converted.
LEMMA StartedOK ==
    ASSUME NEW spec, NEW gen, NEW t, StatusOK(spec, gen, t), t.phase = "Converting",
           NEW i \in DOMAIN t.entries, t.entries[i].state = "Analyzing",
           NEW n,
           n = [observed |-> t.observed, phase |-> t.phase, total |-> t.total,
                completed |-> t.completed, processing |-> t.processing + 1,
                setUp |-> t.setUp, entries |-> n.entries, workflows |-> t.workflows],
           n.entries = InNewState(t.entries, i, "Converting")
    PROVE  StatusOK(spec, gen, n)
<1>1. IsList(t.entries) /\ \A j \in DOMAIN t.entries : IsEntry(t.entries[j])
  BY DEF StatusOK, IsConversion
<1>2. "Converting" \in EntryStates
  BY DEF EntryStates
<1>3. /\ IsList(n.entries) /\ DOMAIN n.entries = DOMAIN t.entries
      /\ \A j \in DOMAIN t.entries :
            /\ IsEntry(n.entries[j])
            /\ n.entries[j].id = t.entries[j].id /\ n.entries[j].type = t.entries[j].type
            /\ n.entries[j].state = IF j = i THEN "Converting" ELSE t.entries[j].state
  BY <1>1, <1>2, EntryChanges
<1>4. /\ n.observed = t.observed /\ n.completed = t.completed /\ n.phase = t.phase
      /\ n.processing = t.processing + 1 /\ n.workflows = t.workflows
  OBVIOUS
<1>5. Converted(n) = Converted(t)
  BY <1>3 DEF Converted, InState
<1>6. /\ InState(n, "Converting") = InState(t, "Converting") \cup {i}
      /\ i \notin InState(t, "Converting")
  BY <1>3 DEF InState
<1>7. InState(t, "Converting") \in SUBSET DOMAIN t.entries
  BY DEF InState
<1>8. IsFiniteSet(InState(t, "Converting"))
  BY <1>1, <1>7, Countable
<1>9. Cardinality(InState(n, "Converting")) = Cardinality(InState(t, "Converting")) + 1
  BY <1>6, <1>8, FS_AddElement
<1>10. IsConversion(n)
  BY <1>3, <1>4 DEF StatusOK, IsConversion
<1>11. Counted(n)
  BY <1>4, <1>5, <1>9 DEF StatusOK, Counted
<1>12. Found(spec, t) => Found(spec, n)
  <2>1. \A j \in DOMAIN t.entries :
            PipelineOf(spec, n.entries[j]) = PipelineOf(spec, t.entries[j])
    BY <1>3, SamePipeline
  <2>2. Converted(t) \subseteq DOMAIN t.entries
    BY DEF Converted, InState
  <2> QED
    BY <1>4, <1>5, <2>1, <2>2 DEF Found
<1> QED
  BY <1>4, <1>10, <1>11, <1>12 DEF StatusOK

\* An entry that is finished has the workflow of its pipeline, is one less in process and
\* one more converted.
LEMMA FinishedOK ==
    ASSUME NEW spec, NEW gen, NEW t, StatusOK(spec, gen, t), t.phase = "Converting",
           NEW i \in DOMAIN t.entries, t.entries[i].state = "Converting",
           NEW n,
           n = [observed |-> t.observed, phase |-> t.phase, total |-> t.total,
                completed |-> t.completed + 1, processing |-> t.processing - 1,
                setUp |-> t.setUp, entries |-> n.entries, workflows |-> n.workflows],
           n.entries = InNewState(t.entries, i, "Completed"),
           n.workflows = Append(t.workflows, ConvertPipeline(PipelineOf(spec, t.entries[i])))
    PROVE  StatusOK(spec, gen, n)
<1>1. IsList(t.entries) /\ \A j \in DOMAIN t.entries : IsEntry(t.entries[j])
  BY DEF StatusOK, IsConversion
<1>2. "Completed" \in EntryStates
  BY DEF EntryStates
<1>3. /\ IsList(n.entries) /\ DOMAIN n.entries = DOMAIN t.entries
      /\ \A j \in DOMAIN t.entries :
            /\ IsEntry(n.entries[j])
            /\ n.entries[j].id = t.entries[j].id /\ n.entries[j].type = t.entries[j].type
            /\ n.entries[j].state = IF j = i THEN "Completed" ELSE t.entries[j].state
  BY <1>1, <1>2, EntryChanges
<1>4. /\ n.observed = t.observed /\ n.completed = t.completed + 1 /\ n.phase = t.phase
      /\ n.processing = t.processing - 1
  OBVIOUS
<1>5. PICK w : w = ConvertPipeline(PipelineOf(spec, t.entries[i]))
  OBVIOUS
<1>6. IsList(t.workflows) /\ n.workflows = Append(t.workflows, w)
  BY <1>5 DEF StatusOK, IsConversion
<1>7. /\ IsList(n.workflows) /\ Len(n.workflows) = Len(t.workflows) + 1
      /\ ToSet(n.workflows) = ToSet(t.workflows) \cup {w}
  BY <1>6, ListAppend
<1>8. Converted(n) = Converted(t) \cup {i} /\ i \notin Converted(t)
  BY <1>3 DEF Converted, InState
<1>9. InState(n, "Converting") = InState(t, "Converting") \ {i} /\ i \in InState(t, "Converting")
  BY <1>3 DEF InState
<1>10. /\ InState(t, "Converting") \in SUBSET DOMAIN t.entries
       /\ Converted(t) \in SUBSET DOMAIN t.entries
  BY DEF InState, Converted
<1>11. /\ IsFiniteSet(InState(t, "Converting")) /\ IsFiniteSet(Converted(t))
       /\ Cardinality(InState(t, "Converting")) \in Nat /\ Cardinality(Converted(t)) \in Nat
  BY <1>1, <1>10, Countable
<1>12. Cardinality(Converted(n)) = Cardinality(Converted(t)) + 1
  BY <1>8, <1>11, FS_AddElement
<1>13. Cardinality(InState(n, "Converting")) = Cardinality(InState(t, "Converting")) - 1
  BY <1>9, <1>11, FS_RemoveElement
<1>14. IsConversion(n)
  BY <1>3, <1>4, <1>7 DEF StatusOK, IsConversion
<1>15. Counted(n)
  BY <1>4, <1>7, <1>12, <1>13 DEF StatusOK, Counted
<1>16. Found(spec, t) => Found(spec, n)
  <2>1. \A j \in DOMAIN t.entries :
            PipelineOf(spec, n.entries[j]) = PipelineOf(spec, t.entries[j])
    BY <1>3, SamePipeline
  <2> SUFFICES ASSUME Found(spec, t), NEW j \in Converted(n)
               PROVE  ConvertPipeline(PipelineOf(spec, n.entries[j])) \in ToSet(n.workflows)
    BY DEF Found
  <2>2. j \in DOMAIN t.entries
    BY <1>8, <1>10
  <2>3. CASE j = i
    BY <1>5, <1>7, <2>1, <2>2, <2>3
  <2>4. CASE j # i
    BY <1>7, <1>8, <2>1, <2>2, <2>4 DEF Found
  <2> QED
    BY <2>3, <2>4
<1> QED
  BY <1>4, <1>14, <1>15, <1>16 DEF StatusOK

\* One round of conversions.
LEMMA ConvertedOK ==
    ASSUME NEW spec, NEW gen, NEW t, StatusOK(spec, gen, t), t.phase = "Converting",
           NEW n, n = ConvertNext(spec, t)
    PROVE  StatusOK(spec, gen, n) /\ n.phase = "Converting"
<1>1. PICK i : i = FirstIn(t.entries, {"Analyzing", "Converting"})
  OBVIOUS
<1>2. CASE i = 0
  BY <1>1, <1>2 DEF ConvertNext
<1>3. t = [observed |-> t.observed, phase |-> t.phase, total |-> t.total,
           completed |-> t.completed, processing |-> t.processing, setUp |-> t.setUp,
           entries |-> t.entries, workflows |-> t.workflows]
      /\ IsList(t.entries)
  BY DEF StatusOK, IsConversion
<1>4. CASE i # 0
  <2>1. i \in DOMAIN t.entries /\ t.entries[i].state \in {"Analyzing", "Converting"}
    BY <1>1, <1>3, <1>4, FirstInFinds
  <2>2. CASE t.entries[i].state = "Analyzing"
    <3>1. PICK es : es = InNewState(t.entries, i, "Converting")
      OBVIOUS
    <3>2. n = [t EXCEPT !.entries = es, !.processing = @ + 1]
      BY <1>1, <1>4, <2>2, <3>1 DEF ConvertNext, InNewState
    <3>3. n = [observed |-> t.observed, phase |-> t.phase, total |-> t.total,
               completed |-> t.completed, processing |-> t.processing + 1,
               setUp |-> t.setUp, entries |-> es, workflows |-> t.workflows]
      BY <1>3, <3>2
    <3>4. n.entries = es /\ n.phase = t.phase
      BY <3>3
    <3> QED
      BY <2>1, <2>2, <3>1, <3>3, <3>4, StartedOK
  <2>3. CASE t.entries[i].state = "Converting"
    <3>1. PICK es : es = InNewState(t.entries, i, "Completed")
      OBVIOUS
    <3>2. PICK ws : ws = Append(t.workflows, ConvertPipeline(PipelineOf(spec, t.entries[i])))
      OBVIOUS
    <3>3. n = [t EXCEPT !.entries = es, !.workflows = ws, !.processing = @ - 1,
                        !.completed = @ + 1]
      BY <1>1, <1>4, <2>3, <3>1, <3>2 DEF ConvertNext, Finish, InNewState
    <3>4. n = [observed |-> t.observed, phase |-> t.phase, total |-> t.total,
               completed |-> t.completed + 1, processing |-> t.processing - 1,
               setUp |-> t.setUp, entries |-> es, workflows |-> ws]
      BY <1>3, <3>3
    <3>5. n.entries = es /\ n.workflows = ws /\ n.phase = t.phase
      BY <3>4
    <3> QED
      BY <2>1, <2>3, <3>1, <3>2, <3>4, <3>5, FinishedOK
  <2> QED
    BY <2>1, <2>2, <2>3
<1> QED
  BY <1>2, <1>4

\* The phase ends when as many are converted as there are: then all of them are.
LEMMA EndOK ==
    ASSUME NEW spec, NEW gen, NEW t, StatusOK(spec, gen, t), t.phase = "Converting",
           NEW n, n = EndOfConverting(t)
    PROVE  StatusOK(spec, gen, n)
<1>1. CASE ~AllConverted(t)
  BY <1>1 DEF EndOfConverting
<1>2. CASE AllConverted(t)
  <2>1. n = [t EXCEPT !.phase = "Validating", !.setUp = FALSE]
    BY <1>2 DEF EndOfConverting
  <2>2. t = [observed |-> t.observed, phase |-> t.phase, total |-> t.total,
             completed |-> t.completed, processing |-> t.processing, setUp |-> t.setUp,
             entries |-> t.entries, workflows |-> t.workflows]
        /\ IsList(t.entries) /\ (gen = 1 => t.observed \in {0, 1})
    BY DEF StatusOK, IsConversion
  <2>3. PICK no : no = FALSE
    OBVIOUS
  <2>4. n = [observed |-> t.observed, phase |-> "Validating", total |-> t.total,
             completed |-> t.completed, processing |-> t.processing, setUp |-> no,
             entries |-> t.entries, workflows |-> t.workflows]
    BY <2>1, <2>2, <2>3
  <2>5. n.observed = t.observed /\ n.phase = "Validating" /\ n.total = t.total /\ n.setUp = no
    BY <2>4
  <2>6. "Validating" \in ConversionPhases
    BY DEF ConversionPhases
  <2>7. t.total = Len(t.entries) => Converted(t) = DOMAIN t.entries
    <3>1. DOMAIN t.entries = 1 .. Len(t.entries) /\ Len(t.entries) \in Nat
      BY <2>2, Lists
    <3>2. /\ IsFiniteSet(1 .. Len(t.entries))
          /\ Cardinality(1 .. Len(t.entries)) = Len(t.entries)
      BY <3>1, FS_Interval
    <3>3. Converted(t) \in SUBSET (1 .. Len(t.entries))
      BY <3>1 DEF Converted, InState
    <3>4. t.total = Len(t.entries) => Cardinality(Converted(t)) = Len(t.entries)
      BY <1>2 DEF AllConverted, StatusOK, Counted
    <3> QED
      BY <3>1, <3>2, <3>3, <3>4, FS_Subset
  <2> QED
    BY <2>2, <2>4, <2>5, <2>6, <2>7, OtherPhase
<1> QED
  BY <1>1, <1>2

-----------------------------------------------------------------------------
(* What a reconcile does to the object.                                    *)

\* The statuses that a reconcile of o may store.
NextStatus(o, n) ==
    LET s == o.status
        t == Observing(o) IN
    \/ SpecChanged(o) /\ Ended(s) /\ n = Restarted(o)
    \/ s.phase = "" /\ n = [t EXCEPT !.phase = "Pending", !.total = Len(o.spec.pipelines)]
    \/ s.phase = "Pending" /\ \E p \in {"Analyzing", "Failed"} : n = [t EXCEPT !.phase = p]
    \/ /\ s.phase = "Analyzing" /\ s.entries = <<>>
       /\ \E found : IsList(found) /\ n = ListEntries(o, found)
    \/ n = Fail(t)
    \/ /\ s.phase = "Analyzing"
       /\ \E p \in {"Analyzing", "Converting"} :
             n = [t EXCEPT !.entries = Analyzed(s.entries), !.phase = p]
    \/ /\ s.phase = "Converting"
       /\ \E b : n = EndOfConverting(ConvertNext(o.spec, [t EXCEPT !.setUp = b]))
    \/ /\ s.phase = "Validating"
       /\ \E p \in {"Completed", "Failed"} : n = [t EXCEPT !.phase = p]

\* Each of them keeps the invariant.
LEMMA NextStatusOK ==
    ASSUME NEW o, ObjectOK(o), NEW n, NextStatus(o, n)
    PROVE  StatusOK(o.spec, o.gen, n)
<1> DEFINE s == o.status
<1>1. PICK t : t = Observing(o)
  OBVIOUS
<1>2. t = [observed |-> o.gen, phase |-> s.phase, total |-> s.total,
           completed |-> s.completed, processing |-> s.processing, setUp |-> s.setUp,
           entries |-> s.entries, workflows |-> s.workflows]
      /\ StatusOK(o.spec, o.gen, t)
  BY <1>1, ObservingOK
<1>3. t.observed = o.gen /\ t.phase = s.phase /\ t.entries = s.entries /\ t.total = s.total
  BY <1>2
<1>4. t = [observed |-> t.observed, phase |-> t.phase, total |-> t.total,
           completed |-> t.completed, processing |-> t.processing, setUp |-> t.setUp,
           entries |-> t.entries, workflows |-> t.workflows]
      /\ (o.gen = 1 => t.observed \in {0, 1})
  BY <1>2 DEF StatusOK, IsConversion
<1> HIDE DEF s
\* Any phase but the two that say that all is converted.
<1>5. ASSUME NEW p \in {"Pending", "Analyzing", "Failed"}, NEW total, NEW b, NEW m,
             m = [observed |-> t.observed, phase |-> p, total |-> total,
                  completed |-> t.completed, processing |-> t.processing, setUp |-> b,
                  entries |-> t.entries, workflows |-> t.workflows]
      PROVE  StatusOK(o.spec, o.gen, m)
  <2>1. m.observed = t.observed /\ m.phase = p /\ m.total = total /\ m.setUp = b
    BY <1>5
  <2>2. m.phase \in ConversionPhases /\ m.phase \notin {"Validating", "Completed"}
    BY <2>1 DEF ConversionPhases
  <2> QED
    BY <1>2, <1>4, <1>5, <2>1, <2>2, OtherPhase
<1>6. CASE SpecChanged(o) /\ Ended(o.status) /\ n = Restarted(o)
  <2>1. o.gen \in Nat \ {0} /\ o.gen # 1
    BY <1>6 DEF SpecChanged, ObjectOK
  <2>2. CASE o.spec.auto.enabled
    <3>1. n = [NoConversion EXCEPT !.phase = "Pending", !.observed = o.gen]
      BY <1>6, <2>2 DEF Restarted
    <3> QED
      BY <2>1, <3>1, EmptyOK
  <2>3. CASE ~o.spec.auto.enabled /\ New(o) = {}
    BY <1>1, <1>2, <1>6, <2>3 DEF Restarted
  <2>4. CASE ~o.spec.auto.enabled /\ New(o) # {}
    <3>1. PICK no : no = FALSE
      OBVIOUS
    <3>2. n = [t EXCEPT !.phase = "Analyzing", !.setUp = no, !.total = Len(o.spec.pipelines)]
      BY <1>1, <1>6, <2>4, <3>1 DEF Restarted
    <3>3. n = [observed |-> t.observed, phase |-> "Analyzing", total |-> Len(o.spec.pipelines),
               completed |-> t.completed, processing |-> t.processing, setUp |-> no,
               entries |-> t.entries, workflows |-> t.workflows]
      BY <1>4, <3>2
    <3> QED
      BY <1>5, <3>3
  <2> QED
    BY <2>2, <2>3, <2>4
<1>7. CASE n = [t EXCEPT !.phase = "Pending", !.total = Len(o.spec.pipelines)]
  <2>1. n = [observed |-> t.observed, phase |-> "Pending", total |-> Len(o.spec.pipelines),
             completed |-> t.completed, processing |-> t.processing, setUp |-> t.setUp,
             entries |-> t.entries, workflows |-> t.workflows]
    BY <1>4, <1>7
  <2> QED
    BY <1>5, <2>1
<1>8. ASSUME NEW p \in {"Analyzing", "Failed"}, n = [t EXCEPT !.phase = p]
      PROVE  StatusOK(o.spec, o.gen, n)
  <2>1. n = [observed |-> t.observed, phase |-> p, total |-> t.total,
             completed |-> t.completed, processing |-> t.processing, setUp |-> t.setUp,
             entries |-> t.entries, workflows |-> t.workflows]
    BY <1>4, <1>8
  <2> QED
    BY <1>5, <2>1
<1>9. ASSUME s.phase = "Analyzing", s.entries = <<>>,
             NEW found, IsList(found), n = ListEntries(o, found)
      PROVE  StatusOK(o.spec, o.gen, n)
  BY <1>9, ListedOK DEF s
<1>10. ASSUME NEW p \in {"Analyzing", "Converting"},
              n = [t EXCEPT !.entries = Analyzed(s.entries), !.phase = p]
       PROVE  StatusOK(o.spec, o.gen, n)
  <2>1. PICK es : es = Analyzed(t.entries)
    OBVIOUS
  <2>2. n = [t EXCEPT !.entries = es, !.phase = p]
    BY <1>3, <1>10, <2>1
  <2>3. n = [observed |-> t.observed, phase |-> p, total |-> t.total,
             completed |-> t.completed, processing |-> t.processing, setUp |-> t.setUp,
             entries |-> es, workflows |-> t.workflows]
    BY <1>4, <2>2
  <2>4. n.entries = es /\ n.phase = p
    BY <2>3
  <2> QED
    BY <1>2, <2>1, <2>3, <2>4, AnalyzedOK
<1>11. ASSUME s.phase = "Converting",
              NEW b, n = EndOfConverting(ConvertNext(o.spec, [t EXCEPT !.setUp = b]))
       PROVE  StatusOK(o.spec, o.gen, n)
  <2>1. PICK u : u = [t EXCEPT !.setUp = b]
    OBVIOUS
  <2>2. u = [observed |-> t.observed, phase |-> t.phase, total |-> t.total,
             completed |-> t.completed, processing |-> t.processing, setUp |-> b,
             entries |-> t.entries, workflows |-> t.workflows]
    BY <1>4, <2>1
  <2>3. u.observed = t.observed /\ u.phase = t.phase /\ u.total = t.total /\ u.setUp = b
    BY <2>2
  <2>4. u.phase \in ConversionPhases /\ u.phase \notin {"Validating", "Completed"}
    BY <1>3, <1>11, <2>3 DEF ConversionPhases
  <2>5. StatusOK(o.spec, o.gen, u)
    BY <1>2, <1>4, <2>2, <2>3, <2>4, OtherPhase
  <2>6. PICK w : w = ConvertNext(o.spec, u)
    OBVIOUS
  <2>7. StatusOK(o.spec, o.gen, w) /\ w.phase = "Converting"
    BY <1>3, <1>11, <2>3, <2>5, <2>6, ConvertedOK
  <2>8. n = EndOfConverting(w)
    BY <1>11, <2>1, <2>6
  <2> QED
    BY <2>7, <2>8, EndOK
<1>12. ASSUME s.phase = "Validating", NEW p \in {"Completed", "Failed"},
              n = [t EXCEPT !.phase = p]
       PROVE  StatusOK(o.spec, o.gen, n)
  <2>1. n = [observed |-> t.observed, phase |-> p, total |-> t.total,
             completed |-> t.completed, processing |-> t.processing, setUp |-> t.setUp,
             entries |-> t.entries, workflows |-> t.workflows]
    BY <1>4, <1>12
  <2>2. n.observed = t.observed /\ n.phase = p /\ n.total = t.total /\ n.setUp = t.setUp
    BY <2>1
  <2>3. n.phase \in ConversionPhases
    BY <2>2 DEF ConversionPhases
  <2>4. n.total = Len(t.entries) => Converted(t) = DOMAIN t.entries
    BY <1>2, <1>3, <1>12, <2>2 DEF StatusOK, Counted
  <2> QED
    BY <1>2, <1>4, <2>1, <2>2, <2>3, <2>4, OtherPhase
<1>13. CASE n = Fail(t)
  BY <1>8, <1>13 DEF Fail
<1> QED
  BY <1>1, <1>6, <1>7, <1>8, <1>9, <1>10, <1>11, <1>12, <1>13 DEF NextStatus, s

\* A reconcile leaves the object alone, or it read the latest version and stores one with
\* the finalizer set or gone, or with one of the next statuses.
LEMMA ReconcileStores ==
    ASSUME CopiesCurrent, ObjectOK(object), NEW r \in Replicas, ReconcileConversion(r)
    PROVE  /\ cache' = cache
           /\ \/ object' = object /\ synced' = synced
              \/ /\ synced' = [q \in Replicas |-> synced[q] /\ object' = object]
                 /\ \/ object' = [object EXCEPT !.fin = TRUE]
                    \/ object' = Released(object)
                    \/ \E n : NextStatus(object, n) /\ object' = With(object, n)
<1>1. PICK k : k = cache[r]
  OBVIOUS
<1> DEFINE Same == UNCHANGED <<object, cache, synced>>
           Stores(o) == /\ synced[r] /\ cache' = cache /\ object' = o
                        /\ synced' = [q \in Replicas |-> synced[q] /\ o = object]
           Writes(o) == Same \/ Stores(o)
           Goes == Same \/ \E n : NextStatus(k, n) /\ Stores(With(k, n))
<1>2. synced[r] => k = object
  BY <1>1 DEF CopiesCurrent
<1>3. ASSUME RestartConversion(r) PROVE Goes
  <2>1. Writes(With(k, Restarted(k)))
    BY <1>1, <1>3 DEF RestartConversion, Handle, Stored
  <2>2. NextStatus(k, Restarted(k))
    BY <1>1, <1>3 DEF RestartConversion, NextStatus
  <2> QED
    BY <2>1, <2>2
<1>4. ASSUME InitializeConversion(r) PROVE Goes
  <2> DEFINE n == [Observing(k) EXCEPT !.phase = "Pending", !.total = Len(k.spec.pipelines)]
  <2>1. Writes(With(k, n))
    BY <1>1, <1>4 DEF InitializeConversion, Handle, Stored
  <2>2. NextStatus(k, n)
    BY <1>1, <1>4 DEF InitializeConversion, NextStatus
  <2> QED
    BY <2>1, <2>2
<1>5. ASSUME ProcessPendingConversion(r) PROVE Goes
  <2>1. PICK p : p = IF ValidConfiguration(k.spec) THEN "Analyzing" ELSE "Failed"
    OBVIOUS
  <2> DEFINE n == [Observing(k) EXCEPT !.phase = p]
  <2>2. Writes(With(k, n))
    BY <1>1, <1>5, <2>1 DEF ProcessPendingConversion, Handle, Stored
  <2>3. k.status.phase = "Pending" /\ p \in {"Analyzing", "Failed"}
    BY <1>1, <1>5, <2>1 DEF ProcessPendingConversion
  <2>4. NextStatus(k, n)
    BY <2>3 DEF NextStatus
  <2> QED
    BY <2>2, <2>4
<1>6. ASSUME ListPipelines(r), k = object PROVE Goes
  <2>1. k.status.phase = "Analyzing" /\ k.status.entries = <<>>
    BY <1>1, <1>6 DEF ListPipelines
  <2>2. IsList(k.spec.pipelines) /\ k.spec.auto.max \in Nat
    BY <1>6, SpecOfConversion DEF ObjectOK
  <2>3. \A found : IsList(found) => NextStatus(k, ListEntries(k, found))
    BY <2>1 DEF NextStatus
  <2>4. NextStatus(k, Fail(Observing(k)))
    BY DEF NextStatus
  <2>5. \/ \E found \in DiscoverPipelines(k.spec.auto) : Writes(With(k, ListEntries(k, found)))
        \/ Writes(With(k, Fail(Observing(k))))
        \/ Writes(With(k, ListEntries(k, k.spec.pipelines)))
    BY <1>1, <1>6 DEF ListPipelines, Handle, Stored
  <2>6. CASE \E found \in DiscoverPipelines(k.spec.auto) : Writes(With(k, ListEntries(k, found)))
    <3>1. PICK found \in DiscoverPipelines(k.spec.auto) : Writes(With(k, ListEntries(k, found)))
      BY <2>6
    <3>2. IsList(found)
      BY <2>2, <3>1, Discovered
    <3> QED
      BY <2>3, <3>1, <3>2
  <2> QED
    BY <2>2, <2>3, <2>4, <2>5, <2>6
<1>7. ASSUME AnalyzePipeline(r) PROVE Goes
  <2>1. PICK es : es = Analyzed(k.status.entries)
    OBVIOUS
  <2>2. PICK p : p = IF AllAnalyzed(es) THEN "Converting" ELSE Observing(k).phase
    OBVIOUS
  <2> DEFINE n == [Observing(k) EXCEPT !.entries = es, !.phase = p]
  <2>3. Writes(With(k, n))
    BY <1>1, <1>7, <2>1, <2>2 DEF AnalyzePipeline, Handle, Stored
  <2>4. k.status.phase = "Analyzing"
    BY <1>1, <1>7 DEF AnalyzePipeline
  <2>5. synced[r] => p \in {"Analyzing", "Converting"}
    <3>1. synced[r] => Observing(k).phase = k.status.phase
      BY <1>2, ObservingOK
    <3> QED
      BY <2>2, <2>4, <3>1
  <2>6. synced[r] => NextStatus(k, n)
    BY <2>1, <2>4, <2>5 DEF NextStatus
  <2> QED
    BY <2>3, <2>6
<1>8. k = object => Observing(k) = [Observing(k) EXCEPT !.setUp = Observing(k).setUp]
  <2> SUFFICES ASSUME k = object
               PROVE  Observing(k) = [Observing(k) EXCEPT !.setUp = Observing(k).setUp]
    OBVIOUS
  <2>1. PICK t : t = Observing(k)
    OBVIOUS
  <2>2. IsConversion(t)
    BY <2>1, ObservingOK DEF StatusOK
  <2>3. t = [t EXCEPT !.setUp = t.setUp]
    BY <2>2 DEF IsConversion
  <2> QED
    BY <2>1, <2>3
<1>9. ASSUME SetupWorkflowsRepository(r), k = object PROVE Goes
  <2>1. k.status.phase = "Converting"
    BY <1>1, <1>9 DEF SetupWorkflowsRepository
  <2>2. PICK t : t = Observing(k)
    OBVIOUS
  <2> DEFINE u(b) == [t EXCEPT !.setUp = b]
             n(b) == EndOfConverting(ConvertNext(k.spec, u(b)))
  <2>3. u(t.setUp) = t
    BY <1>8, <1>9, <2>2
  <2>4. \A b : NextStatus(k, n(b))
    BY <2>1, <2>2 DEF NextStatus
  <2>5. NextStatus(k, Fail(t))
    BY <2>2 DEF NextStatus
  <2>6. \/ WithoutToken(r, k)
        \/ ConvertWith(r, k, t)
        \/ ConvertWith(r, k, [t EXCEPT !.setUp = TRUE])
    BY <1>1, <1>9, <2>2 DEF SetupWorkflowsRepository, WithoutToken, ConvertWith, Handle, Stored,
                             Ignore
  <2>7. ASSUME WithoutToken(r, k) PROVE Goes
    BY <2>2, <2>5, <2>7 DEF WithoutToken, Handle, Stored
  <2>8. ASSUME NEW b, ConvertWith(r, k, u(b)) PROVE Goes
    <3>1. PICK m : m = n(b)
      OBVIOUS
    <3>2. Writes(With(k, m))
      BY <2>8, <3>1 DEF ConvertWith, Handle, Stored, Ignore
    <3> QED
      BY <2>4, <3>1, <3>2
  <2> QED
    BY <2>3, <2>6, <2>7, <2>8
<1>10. ASSUME ProcessConverting(r), k = object PROVE Goes
  <2>1. k.status.phase = "Converting"
    BY <1>1, <1>10 DEF ProcessConverting
  <2>2. PICK t : t = Observing(k)
    OBVIOUS
  <2>3. [t EXCEPT !.setUp = t.setUp] = t
    BY <1>8, <1>10, <2>2
  <2>4. PICK m : m = EndOfConverting(ConvertNext(k.spec, t))
    OBVIOUS
  <2>5. NextStatus(k, m)
    BY <2>1, <2>2, <2>3, <2>4 DEF NextStatus
  <2>6. Writes(With(k, m))
    BY <1>1, <1>10, <2>2, <2>4 DEF ProcessConverting, ConvertWith, Handle, Stored, Ignore
  <2> QED
    BY <2>5, <2>6
<1>11. ASSUME ProcessValidatingConversion(r) PROVE Goes
  <2>1. PICK p : p = IF ValidateConversion(k.spec) THEN "Completed" ELSE "Failed"
    OBVIOUS
  <2> DEFINE n == [Observing(k) EXCEPT !.phase = p]
  <2>2. Writes(With(k, n))
    BY <1>1, <1>11, <2>1 DEF ProcessValidatingConversion, Handle, Stored
  <2>3. k.status.phase = "Validating" /\ p \in {"Completed", "Failed"}
    BY <1>1, <1>11, <2>1 DEF ProcessValidatingConversion
  <2>4. NextStatus(k, n)
    BY <2>3 DEF NextStatus
  <2> QED
    BY <2>2, <2>4
<1>12. ASSUME KeepFinalizer(r)
       PROVE  Same \/ Stores([k EXCEPT !.fin = TRUE]) \/ Stores(Released(k))
  BY <1>1, <1>12 DEF KeepFinalizer, Handle, Stored, Ignore
<1>13. ASSUME NEW again, Ignore(r, again) PROVE Same
  BY <1>13 DEF Ignore
<1>14. ASSUME ~synced[r] PROVE Same
  <2>1. ASSUME ListPipelines(r) PROVE Same
    BY <1>14, <2>1 DEF ListPipelines, Handle
  <2>2. ASSUME SetupWorkflowsRepository(r) PROVE Same
    BY <1>14, <2>2 DEF SetupWorkflowsRepository, WithoutToken, ConvertWith, Handle, Ignore
  <2>3. ASSUME ProcessConverting(r) PROVE Same
    BY <1>14, <2>3 DEF ProcessConverting, ConvertWith, Handle, Ignore
  <2>4. Goes => Same
    BY <1>14
  <2>5. Stores([k EXCEPT !.fin = TRUE]) \/ Stores(Released(k)) => Same
    BY <1>14
  <2> HIDE DEF Goes, Stores, Same
  <2> QED
    BY <1>3, <1>4, <1>5, <1>7, <1>11, <1>12, <1>13, <2>1, <2>2, <2>3, <2>4, <2>5
    DEF ReconcileConversion
<1>15. ASSUME synced[r]
       PROVE  Goes \/ Stores([k EXCEPT !.fin = TRUE]) \/ Stores(Released(k))
  <2>1. k = object
    BY <1>2, <1>15
  <2>2. Same => Goes
    OBVIOUS
  <2> HIDE DEF Goes, Stores, Same
  <2> QED
    BY <1>3, <1>4, <1>5, <1>6, <1>7, <1>9, <1>10, <1>11, <1>12, <1>13, <2>1, <2>2
    DEF ReconcileConversion
<1>16. Same \/ \E o : /\ Stores(o) /\ synced[r]
                      /\ \/ o = [k EXCEPT !.fin = TRUE] \/ o = Released(k)
                         \/ \E n : NextStatus(k, n) /\ o = With(k, n)
  BY <1>14, <1>15
<1>17. CASE Same
  BY <1>17
<1>18. CASE ~Same
  <2>1. PICK o : /\ Stores(o) /\ synced[r]
                 /\ \/ o = [k EXCEPT !.fin = TRUE] \/ o = Released(k)
                    \/ \E n : NextStatus(k, n) /\ o = With(k, n)
    BY <1>16, <1>18
  <2>2. k = object
    BY <1>2, <2>1
  <2>3. /\ cache' = cache /\ object' = o
        /\ synced' = [q \in Replicas |-> synced[q] /\ object' = object]
    BY <2>1
  <2> QED
    BY <2>1, <2>2, <2>3
<1> QED
  BY <1>17, <1>18

-----------------------------------------------------------------------------
(* The invariant, and the theorems.                                        *)

\* Other flags, or a later generation with any spec, leave the invariant alone.
LEMMA OtherObjectOK ==
    ASSUME NEW o, ObjectOK(o),
           NEW p,
           p = [exists |-> p.exists, deleting |-> p.deleting, fin |-> p.fin, gen |-> p.gen,
                spec |-> p.spec, status |-> o.status],
           \/ p.gen = o.gen /\ p.spec = o.spec
           \/ p.gen = o.gen + 1 /\ p.spec \in ConversionSpecs
    PROVE  ObjectOK(p)
<1>1. p.status = o.status
  OBVIOUS
<1>2. p.gen \in Nat \ {0} /\ (p.gen = 1 => p.gen = o.gen /\ p.spec = o.spec)
  BY DEF ObjectOK
<1>3. p.spec \in ConversionSpecs
  BY DEF ObjectOK
<1> QED
  BY <1>1, <1>2, <1>3 DEF ObjectOK

LEMMA WithOK ==
    ASSUME NEW o, ObjectOK(o), NEW n, StatusOK(o.spec, o.gen, n)
    PROVE  ObjectOK(With(o, n))
<1>1. PICK p : p = With(o, n)
  OBVIOUS
<1>2. o = [exists |-> o.exists, deleting |-> o.deleting, fin |-> o.fin, gen |-> o.gen,
           spec |-> o.spec, status |-> o.status]
  BY DEF ObjectOK
<1>3. p = [exists |-> o.exists, deleting |-> o.deleting, fin |-> o.fin, gen |-> o.gen,
           spec |-> o.spec, status |-> n]
  BY <1>1, <1>2 DEF With
<1>4. p.status = n /\ p.gen = o.gen /\ p.spec = o.spec
      /\ p = [exists |-> p.exists, deleting |-> p.deleting, fin |-> p.fin, gen |-> p.gen,
              spec |-> p.spec, status |-> p.status]
  BY <1>3
<1>5. ObjectOK(p)
  BY <1>4 DEF ObjectOK, StatusOK
<1> QED
  BY <1>1, <1>5

\* What the finalizer, a deletion and an edit make of an object.
LEMMA FlagsOK ==
    ASSUME NEW o, ObjectOK(o)
    PROVE  /\ ObjectOK([o EXCEPT !.fin = TRUE])
           /\ ObjectOK(Released(o))
           /\ ObjectOK([o EXCEPT !.deleting = TRUE, !.gen = @ + 1])
           /\ \A s \in ConversionSpecs : ObjectOK([o EXCEPT !.spec = s, !.gen = @ + 1])
<1>1. o = [exists |-> o.exists, deleting |-> o.deleting, fin |-> o.fin, gen |-> o.gen,
           spec |-> o.spec, status |-> o.status] /\ o.spec \in ConversionSpecs
  BY DEF ObjectOK
<1>2. PICK yes, no : yes = TRUE /\ no = FALSE
  OBVIOUS
<1>3. ObjectOK([o EXCEPT !.fin = TRUE])
  <2>1. PICK p : p = [o EXCEPT !.fin = yes]
    OBVIOUS
  <2>2. p = [exists |-> o.exists, deleting |-> o.deleting, fin |-> yes, gen |-> o.gen,
             spec |-> o.spec, status |-> o.status]
    BY <1>1, <2>1
  <2>3. p.exists = o.exists /\ p.deleting = o.deleting /\ p.fin = yes /\ p.gen = o.gen
        /\ p.spec = o.spec
    BY <2>2
  <2>4. ObjectOK(p)
    BY <2>2, <2>3, OtherObjectOK
  <2> QED
    BY <1>2, <2>1, <2>4
<1>4. ObjectOK(Released(o))
  <2>1. PICK p : p = [o EXCEPT !.exists = no, !.fin = no]
    OBVIOUS
  <2>2. p = [exists |-> no, deleting |-> o.deleting, fin |-> no, gen |-> o.gen,
             spec |-> o.spec, status |-> o.status]
    BY <1>1, <2>1
  <2>3. p.exists = no /\ p.deleting = o.deleting /\ p.fin = no /\ p.gen = o.gen
        /\ p.spec = o.spec
    BY <2>2
  <2>4. ObjectOK(p)
    BY <2>2, <2>3, OtherObjectOK
  <2> QED
    BY <1>2, <2>1, <2>4 DEF Released
<1>5. ObjectOK([o EXCEPT !.deleting = TRUE, !.gen = @ + 1])
  <2>1. PICK p : p = [o EXCEPT !.deleting = yes, !.gen = @ + 1]
    OBVIOUS
  <2>2. p = [exists |-> o.exists, deleting |-> yes, fin |-> o.fin, gen |-> o.gen + 1,
             spec |-> o.spec, status |-> o.status]
    BY <1>1, <2>1
  <2>3. p.exists = o.exists /\ p.deleting = yes /\ p.fin = o.fin /\ p.gen = o.gen + 1
        /\ p.spec = o.spec
    BY <2>2
  <2>4. ObjectOK(p)
    BY <1>1, <2>2, <2>3, OtherObjectOK
  <2> QED
    BY <1>2, <2>1, <2>4
<1>6. ASSUME NEW s \in ConversionSpecs
      PROVE  ObjectOK([o EXCEPT !.spec = s, !.gen = @ + 1])
  <2>1. PICK p : p = [o EXCEPT !.spec = s, !.gen = @ + 1]
    OBVIOUS
  <2>2. p = [exists |-> o.exists, deleting |-> o.deleting, fin |-> o.fin, gen |-> o.gen + 1,
             spec |-> s, status |-> o.status]
    BY <1>1, <2>1
  <2>3. p.exists = o.exists /\ p.deleting = o.deleting /\ p.fin = o.fin /\ p.gen = o.gen + 1
        /\ p.spec = s
    BY <2>2
  <2>4. ObjectOK(p)
    BY <2>2, <2>3, OtherObjectOK
  <2> QED
    BY <2>1, <2>4
<1> QED
  BY <1>3, <1>4, <1>5, <1>6

\* A conversion as a user creates it.
LEMMA ConversionStarts ==
    ASSUME Init
    PROVE  ConversionInv
<1> SUFFICES ASSUME kind = "conversion" PROVE CopiesCurrent /\ ObjectOK(object)
  BY DEF ConversionInv
<1>1. PICK s \in ConversionSpecs : InitObject(Fresh(s, NoConversion))
  BY DEF Init
<1>2. PICK t : t = NoConversion
  OBVIOUS
<1>3. PICK p : p = Fresh(s, t)
  OBVIOUS
<1>4. StatusOK(s, 1, t)
  BY <1>2, EmptyOK
<1>5. p.gen = 1 /\ p.spec = s /\ p.status = t
      /\ p = [exists |-> p.exists, deleting |-> p.deleting, fin |-> p.fin, gen |-> p.gen,
              spec |-> p.spec, status |-> p.status]
  BY <1>3 DEF Fresh
<1>6. ObjectOK(p)
  BY <1>4, <1>5 DEF ObjectOK, StatusOK
<1>7. CopiesCurrent /\ object = p
  BY <1>1, <1>2, <1>3 DEF InitObject, CopiesCurrent
<1> QED
  BY <1>6, <1>7

LEMMA ConversionStep ==
    ASSUME ConversionInv, [Next]_vars
    PROVE  ConversionInv'
<1>1. kind' = kind
  BY DEF Next, vars, Reconcile, Update, Delete
<1> SUFFICES ASSUME kind = "conversion" PROVE CopiesCurrent' /\ ObjectOK(object)'
  BY <1>1 DEF ConversionInv
<1>2. CopiesCurrent /\ ObjectOK(object)
  BY DEF ConversionInv
\* A write outdates the copies of all replicas.
<1>3. ASSUME NEW o, ObjectOK(o), object' = o, cache' = cache,
             synced' = [q \in Replicas |-> synced[q] /\ o = object]
      PROVE  CopiesCurrent' /\ ObjectOK(object)'
  BY <1>2, <1>3 DEF CopiesCurrent
<1>4. ASSUME UNCHANGED <<object, cache, synced>> PROVE CopiesCurrent' /\ ObjectOK(object)'
  BY <1>2, <1>4 DEF CopiesCurrent
<1>5. ASSUME NEW r \in Replicas, object' = object,
             cache' = [cache EXCEPT ![r] = object], synced' = [synced EXCEPT ![r] = TRUE]
      PROVE  CopiesCurrent' /\ ObjectOK(object)'
  BY <1>2, <1>5 DEF CopiesCurrent
<1>6. ASSUME NEW r \in Replicas, Reconcile(r) PROVE CopiesCurrent' /\ ObjectOK(object)'
  <2>1. ReconcileConversion(r)
    BY <1>6 DEF Reconcile
  <2>2. PICK k : k = object
    OBVIOUS
  <2>3. PICK o : o = object'
    OBVIOUS
  <2>4. /\ cache' = cache
        /\ \/ o = k /\ synced' = synced
           \/ /\ synced' = [q \in Replicas |-> synced[q] /\ o = object]
              /\ \/ o = [k EXCEPT !.fin = TRUE]
                 \/ o = Released(k)
                 \/ \E n : NextStatus(k, n) /\ o = With(k, n)
    BY <1>2, <2>1, <2>2, <2>3, ReconcileStores
  <2>5. ObjectOK(k)
    BY <1>2, <2>2
  <2>6. ASSUME NEW n, NextStatus(k, n), o = With(k, n) PROVE ObjectOK(o)
    <3>1. StatusOK(k.spec, k.gen, n)
      BY <2>5, <2>6, NextStatusOK
    <3> QED
      BY <2>5, <2>6, <3>1, WithOK
  <2>7. ObjectOK([k EXCEPT !.fin = TRUE]) /\ ObjectOK(Released(k))
    BY <2>5, FlagsOK
  <2>8. ObjectOK(o)
    BY <2>4, <2>5, <2>6, <2>7
  <2> QED
    BY <1>3, <1>4, <2>2, <2>3, <2>4, <2>8
<1>7. ASSUME NEW r \in Replicas, Update(r) PROVE CopiesCurrent' /\ ObjectOK(object)'
  <2>1. PICK s \in ConversionSpecs : UpdateSpec(r, s)
    BY <1>7 DEF Update, UpdateConversion
  <2>2. PICK k : k = object
    OBVIOUS
  <2>3. PICK o : o = [k EXCEPT !.spec = s, !.gen = @ + 1]
    OBVIOUS
  <2>4. object' = o /\ cache' = cache /\ synced' = [q \in Replicas |-> synced[q] /\ o = object]
    BY <2>1, <2>2, <2>3 DEF UpdateSpec, Stored
  <2>5. ObjectOK(o)
    BY <1>2, <2>2, <2>3, FlagsOK
  <2> QED
    BY <1>3, <2>4, <2>5
<1>8. ASSUME NEW r \in Replicas, Delete(r) PROVE CopiesCurrent' /\ ObjectOK(object)'
  <2>1. DeleteObject(r)
    BY <1>8 DEF Delete, DeleteConversion
  <2>2. PICK k : k = object
    OBVIOUS
  <2>3. PICK o : o = IF k.fin THEN [k EXCEPT !.deleting = TRUE, !.gen = @ + 1] ELSE Released(k)
    OBVIOUS
  <2>4. object' = o /\ cache' = cache /\ synced' = [q \in Replicas |-> synced[q] /\ o = object]
    BY <2>1, <2>2, <2>3 DEF DeleteObject, Stored
  <2>5. ObjectOK(o)
    BY <1>2, <2>2, <2>3, FlagsOK
  <2> QED
    BY <1>3, <2>4, <2>5
<1>9. ASSUME NEW r \in Replicas, CacheSync(r) PROVE CopiesCurrent' /\ ObjectOK(object)'
  BY <1>5, <1>9 DEF CacheSync
<1>10. ASSUME NEW r \in Replicas, Crash(r) PROVE CopiesCurrent' /\ ObjectOK(object)'
  BY <1>5, <1>10 DEF Crash
<1>11. ASSUME NEW r \in Replicas, TokenExpires(r) PROVE CopiesCurrent' /\ ObjectOK(object)'
  BY <1>4, <1>11 DEF TokenExpires, objectVars
<1>12. ASSUME UNCHANGED vars PROVE CopiesCurrent' /\ ObjectOK(object)'
  BY <1>4, <1>12 DEF vars, objectVars
<1> QED
  BY <1>6, <1>7, <1>8, <1>9, <1>10, <1>11, <1>12 DEF Next

\* A conversion keeps its invariant: an accepted write comes from a copy that is the object,
\* so every stored status is one reconcile away from the stored one.
THEOREM ConversionCorrect == Spec => []ConversionInv
<1>1. Init => ConversionInv
  BY ConversionStarts
<1>2. ConversionInv /\ [Next]_vars => ConversionInv'
  BY ConversionStep
<1> QED
  BY <1>1, <1>2, PTL DEF Spec

\* The counters of a conversion and its workflows agree with its entries, for any specs,
\* projects and replicas and any number of troubles.  That it is validated with every entry
\* converted is said only while the total is the number of entries: a restart sets the total
\* to the number of pipelines in the spec and adds no entries, and processConverting ends by
\* the counters alone.
THEOREM CountersAgree == Spec => []EntriesCounted
<1>1. ConversionInv => EntriesCounted
  BY DEF ConversionInv, ObjectOK, Counted, EntriesCounted
<1> QED
  BY <1>1, ConversionCorrect, PTL

\* The pipeline that an entry stands for has the entry's id, and as long as an id stands
\* for one type the entry's type.
LEMMA PipelineOfEntry ==
    ASSUME NEW o, o.spec \in ConversionSpecs, IdsTellTypes(o),
           NEW i \in DOMAIN o.status.entries
    PROVE  LET e == o.status.entries[i]
               p == PipelineOf(o.spec, e)
           IN  p.id = e.id /\ p.type = e.type
<1>1. PICK e : e = o.status.entries[i]
  OBVIOUS
<1>2. PICK ps : ps = o.spec.pipelines
  OBVIOUS
<1>3. e \in ToSet(o.status.entries)
  BY <1>1 DEF ToSet
<1> DEFINE I == {j \in 1 .. Len(ps) : ps[j].id = e.id}
<1>4. DOMAIN ps = 1 .. Len(ps) /\ Len(ps) \in Nat
  BY <1>2, SpecOfConversion, Lists
<1>5. I \in SUBSET Nat
  BY <1>4
<1>6. PICK p : p = PipelineOf(o.spec, e)
  OBVIOUS
<1>7. CASE I = {}
  <2>1. SelectInSeq(ps, LAMBDA q : q.id = e.id) = 0
    BY <1>7 DEF SelectInSeq
  <2>2. p = [id |-> e.id, type |-> e.type]
    BY <1>2, <1>6, <2>1 DEF PipelineOf
  <2> QED
    BY <1>1, <1>6, <2>2
<1>8. CASE I # {}
  <2>1. PICK j : j = Min(I)
    OBVIOUS
  <2>2. j \in I
    BY <1>5, <1>8, <2>1, LeastPlace
  <2>3. SelectInSeq(ps, LAMBDA q : q.id = e.id) = j /\ j # 0
    BY <1>4, <1>8, <2>1, <2>2 DEF SelectInSeq
  <2>4. p = ps[j]
    BY <1>2, <1>6, <2>3 DEF PipelineOf
  <2>5. p.id = e.id /\ p \in ToSet(ps)
    BY <1>4, <2>2, <2>4 DEF ToSet
  <2>6. p.type = e.type
    BY <1>2, <1>3, <2>5 DEF IdsTellTypes
  <2> QED
    BY <1>1, <1>6, <2>5, <2>6
<1> QED
  BY <1>7, <1>8

\* A converted pipeline has a workflow of its own type, as long as an id stands for one
\* type and the spec is the one that was converted.
THEOREM WorkflowsOwned == Spec => []OwnWorkflow
<1>1. ASSUME ConversionInv PROVE OwnWorkflow
  <2> SUFFICES ASSUME kind = "conversion", IdsTellTypes(object), object.gen = 1,
                      NEW i \in Converted(object.status)
               PROVE  [id |-> object.status.entries[i].id,
                       type |-> object.status.entries[i].type] \in ToSet(object.status.workflows)
    BY DEF OwnWorkflow
  <2>1. ObjectOK(object)
    BY <1>1 DEF ConversionInv
  <2>2. PICK o : o = object
    OBVIOUS
  <2>3. PICK e : e = o.status.entries[i]
    OBVIOUS
  <2>4. PICK p : p = PipelineOf(o.spec, e)
    OBVIOUS
  <2>5. i \in DOMAIN o.status.entries /\ i \in Converted(o.status)
    BY <2>2 DEF Converted, InState
  <2>6. ConvertPipeline(p) \in ToSet(o.status.workflows)
    BY <2>1, <2>2, <2>3, <2>4, <2>5 DEF ObjectOK, Found
  <2>7. p.id = e.id /\ p.type = e.type
    BY <2>1, <2>2, <2>3, <2>4, <2>5, PipelineOfEntry DEF ObjectOK
  <2> QED
    BY <2>2, <2>3, <2>6, <2>7 DEF ConvertPipeline
<1> QED
  BY <1>1, ConversionCorrect, PTL
=============================================================================
