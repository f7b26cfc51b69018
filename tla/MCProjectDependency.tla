-------------------------- MODULE MCProjectDependency --------------------------
(* A small instance of ProjectDependency: two migrations that find their   *)
(* repository, one that must wait for it or create it, and one that finds  *)
(* the project of a user.                                                  *)
EXTENDS ProjectDependency

CONSTANT OtherMigration

MCItems ==
    <<[type |-> "Bug", state |-> "Done", area |-> "project"],
      [type |-> "Task", state |-> "Removed", area |-> "project"],
      [type |-> "Bug", state |-> "Blocked", area |-> "below"]>>

MCColumns == {"New", "Approved", "Active", "Test", "Resolved", "Closed"}

ByToken == [filter |-> NoFilter, pat |-> TRUE, app |-> FALSE]

MCInit ==
    /\ Init
    /\ \A m \in Migrations \ {OtherMigration} : wi[m].phase = "Validating"
    /\ IF wi[OtherMigration].phase = "Validating"
       THEN project = Absent /\ repo = "there"
       ELSE repo = "there" <=> project.exists
    /\ settings[OtherMigration] = [ByToken EXCEPT !.filter.types = {"Bug"}, !.filter.team = TRUE]
    /\ \A m \in Migrations \ {OtherMigration} :
          settings[m] \in IF project.exists
                          THEN {[ByToken EXCEPT !.app = TRUE], [ByToken EXCEPT !.pat = FALSE]}
                          ELSE {ByToken}

MCSpec == MCInit /\ [][Next]_vars

MCFairSpec == MCSpec /\ Fairness
=============================================================================
