------------------------------ MODULE StatusObject ------------------------------
(***************************************************************************)
(* A custom resource with a status, and the replicas that reconcile it.    *)
(* Every replica has a cached copy and a work queue; a reconcile reads the *)
(* cached copy, decides, and stores at most one new version, which the API *)
(* server refuses when the copy was outdated.  The controllers that follow *)
(* this pattern have no event filter: every delivery queues the object.    *)
(***************************************************************************)
EXTENDS Integers, Sequences, FiniteSets

CONSTANTS
    Replicas,       \* operator processes
    MaxTroubles     \* bound on user actions, failed calls and crashes together

ASSUME TroublesAssumption == MaxTroubles \in Nat

VARIABLES
    object,     \* the object in the API server
    cache,      \* cache[r]: replica r's cached copy of it
    synced,     \* synced[r]: cache[r] is the latest version
    queued,     \* queued[r]: the object's key is in r's work queue
    troubles    \* what users did, calls that failed and crashes

objectVars == <<object, cache, synced, queued, troubles>>

\* A new object with the spec s and the empty status t.
Fresh(s, t) ==
    [exists |-> TRUE, deleting |-> FALSE, fin |-> FALSE, gen |-> 1, spec |-> s, status |-> t]

\* o as the first event about it finds the replicas.
InitObject(o) ==
    /\ object = o
    /\ cache = [r \in Replicas |-> o]
    /\ synced = [r \in Replicas |-> TRUE]
    /\ queued = [r \in Replicas |-> TRUE]
    /\ troubles = 0

Trouble == troubles < MaxTroubles /\ troubles' = troubles + 1

\* An update that changes nothing stores no new version.
Stored(o) ==
    /\ object' = o
    /\ synced' = [r \in Replicas |-> synced[r] /\ o = object]
    /\ UNCHANGED cache

\* One reconcile of r that stores o and, if again, asks for another.
Handle(r, o, again) ==
    \/ /\ synced[r]
       /\ Stored(o)
       /\ queued' = [queued EXCEPT ![r] = again]
       /\ UNCHANGED troubles
    \/ /\ IF synced[r] THEN Trouble ELSE UNCHANGED troubles
       /\ UNCHANGED <<object, cache, synced, queued>>

\* One reconcile of r that writes nothing.
Ignore(r, again) ==
    /\ queued' = [queued EXCEPT ![r] = again]
    /\ UNCHANGED <<object, cache, synced, troubles>>

\* The object that remains when its finalizer goes.
Released(o) == [o EXCEPT !.exists = FALSE, !.fin = FALSE]

\* What a reconcile does before it looks at the status.
KeepFinalizer(r) ==
    LET o == cache[r] IN
    \/ ~o.exists /\ Ignore(r, FALSE)
    \/ o.exists /\ ~o.deleting /\ ~o.fin /\ Handle(r, [o EXCEPT !.fin = TRUE], FALSE)
    \/ o.exists /\ o.deleting /\ o.fin /\ Handle(r, Released(o), FALSE)

Live(o) == o.exists /\ ~o.deleting /\ o.fin

Ended(t) == t.phase \in {"Completed", "Failed"}

With(o, t) == [o EXCEPT !.status = t]

Fail(t) == [t EXCEPT !.phase = "Failed"]

CacheSync(r) ==
    /\ ~synced[r]
    /\ cache' = [cache EXCEPT ![r] = object]
    /\ synced' = [synced EXCEPT ![r] = TRUE]
    /\ queued' = [queued EXCEPT ![r] = TRUE]
    /\ UNCHANGED <<object, troubles>>

Crash(r) ==
    /\ Trouble
    /\ cache' = [cache EXCEPT ![r] = object]
    /\ synced' = [synced EXCEPT ![r] = TRUE]
    /\ queued' = [queued EXCEPT ![r] = object.exists]
    /\ UNCHANGED object

\* The API handlers look the object up in the cache of the replica that serves them.
DeleteObject(r) ==
    /\ Trouble
    /\ cache[r].exists /\ object.exists /\ ~object.deleting
    /\ Stored(IF object.fin THEN [object EXCEPT !.deleting = TRUE, !.gen = @ + 1]
                            ELSE Released(object))
    /\ UNCHANGED queued

UpdateSpec(r, s) ==
    /\ Trouble
    /\ synced[r] /\ object.exists /\ s # object.spec
    /\ Stored([object EXCEPT !.spec = s, !.gen = @ + 1])
    /\ UNCHANGED queued
=============================================================================
