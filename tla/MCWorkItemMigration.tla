------------------------ MODULE MCWorkItemMigration ------------------------
(* Instances of WorkItemMigration for TLC: filters over two work items, and *)
(* one filter that is written again without a change of what it selects.   *)
EXTENDS WorkItemMigration, TLC

\* Filters that widen and narrow.
MCFilters == {{"bug"}, {"bug", "story"}}
MCOneFilter == {{"bug"}}
\* Goroutines have no identity.
SameWorkers == Permutations(Workers)
=============================================================================
