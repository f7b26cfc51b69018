--------------------------- MODULE MCAdoMigration ---------------------------
(* Instances of AdoMigration for TLC: two resources, one of which may be    *)
(* given another target, with and without continuous sync.                  *)
EXTENDS AdoMigration

repoA == [id |-> "a", name |-> "alpha", target |-> "t1", kind |-> "repository"]
movedA == [repoA EXCEPT !.target = "t2"]
renamedA == [repoA EXCEPT !.name = "gamma"]
repoB == [id |-> "b", name |-> "beta", target |-> "t2", kind |-> "repository"]

Plain(rs) == [resources |-> rs, sync |-> FALSE]
Synced(rs) == [resources |-> rs, sync |-> TRUE]

\* Grow, shrink and retarget; the retargeted one is kept in sync.
MCSpecs == {Plain(<<repoA>>), Plain(<<repoA, repoB>>), Synced(<<movedA, repoB>>)}
\* One resource for two replicas, retargeted, or renamed while its id stays.
MCReplicaSpecs == {Plain(<<repoA>>), Plain(<<movedA>>), Plain(<<renamedA>>)}
=============================================================================
