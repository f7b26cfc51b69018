---------------------------- MODULE MigrationCache ----------------------------
(***************************************************************************)
(* The cache that tracks the workspaces of migrations: bounded, with the   *)
(* oldest completed entry evicted first, and completed entries forgotten   *)
(* when their time is over.  Every operation holds the lock.  The times    *)
(* that the cache stores are readings of one clock, all different.         *)
(***************************************************************************)
EXTENDS Integers, FiniteSets

CONSTANTS
    Migrations,
    MaxEntries,     \* the capacity
    Retention,      \* clock ticks that a completed entry is kept
    MaxTime         \* bound on the clock

ASSUME CacheAssumption == {MaxEntries, Retention, MaxTime} \subseteq Nat

VARIABLES
    entries,        \* entries[m]: when m started and completed, 0 for not yet
    clock

cacheVars == <<entries, clock>>

NoEntry == [start |-> 0, completed |-> 0, cleanedUp |-> FALSE]

Held == {m \in Migrations : entries[m].start > 0}

Completed == {m \in Held : entries[m].completed > 0}

CacheInit == entries = [m \in Migrations |-> NoEntry] /\ clock = 1

Tick == clock < MaxTime /\ clock' = clock + 1

\* Mutant: the entry that started first, completed or not.
EvictFirstStarted == {m \in Held : \A n \in Held : entries[m].start \leq entries[n].start}

\* The completed entry that completed first, or else the entry that started first.
EvictOldest ==
    {m \in Held :
        IF Completed # {}
        THEN m \in Completed /\ \A n \in Completed : entries[m].completed \leq entries[n].completed
        ELSE \A n \in Held : entries[m].start \leq entries[n].start}

\* The new entry of a migration that is tracked already takes the place of the old one.
Set(m) ==
    LET evicted == IF Cardinality(Held) >= MaxEntries /\ m \notin Held THEN EvictOldest ELSE {} IN
    /\ Tick
    /\ entries' = [n \in Migrations |-> CASE n = m       -> [NoEntry EXCEPT !.start = clock]
                                          [] n \in evicted \ {m} -> NoEntry
                                          [] OTHER       -> entries[n]]

Delete(m) ==
    /\ m \in Held
    /\ entries' = [entries EXCEPT ![m] = NoEntry]
    /\ Tick

MarkCompleted(m) ==
    /\ m \in Held
    /\ entries' = [entries EXCEPT ![m].completed = clock]
    /\ Tick

MarkCleanedUp(m) ==
    /\ m \in Held
    /\ entries' = [entries EXCEPT ![m].cleanedUp = TRUE]
    /\ Tick

Expired == {m \in Completed : clock > entries[m].completed + Retention}

CacheCleanup ==
    /\ Expired # {}
    /\ entries' = [m \in Migrations |-> IF m \in Expired THEN NoEntry ELSE entries[m]]
    /\ UNCHANGED clock

CacheNext ==
    \/ \E m \in Migrations : Set(m) \/ Delete(m) \/ MarkCompleted(m) \/ MarkCleanedUp(m)
    \/ CacheCleanup

-----------------------------------------------------------------------------

\* A step of the cache forgets a migration that runs only on request, or when every entry
\* is of a running migration and there is no room for another; and a completed one whose
\* workspace awaits its cleanup only to make room, when its time is over or on request.
ForgetsWithReason ==
    \A m \in Held :
       entries'[m].start = 0 /\ ~Delete(m) =>
          \/ m \in Completed /\ (m \in Expired \/ Cardinality(Held) = MaxEntries)
          \/ Completed = {} /\ Cardinality(Held) = MaxEntries

RunningKept == [][ForgetsWithReason]_cacheVars
=============================================================================
