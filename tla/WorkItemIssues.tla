---------------------------- MODULE WorkItemIssues ----------------------------
(***************************************************************************)
(* Which work items of an Azure DevOps project a migration takes, how they *)
(* are read, whether their issues are closed, and in which column of a     *)
(* GitHub project they are put.  A work item is [type, state, area] and is *)
(* known by its place in Items; states are written in one way only.        *)
(***************************************************************************)
EXTENDS Integers, FiniteSets, SequencesExt

CONSTANTS
    Items,          \* the work items of the project, in the order of their ids
    ProjectArea,    \* the area path that has the project's name
    FetchSize       \* work items read by one request

ASSUME WorkItemIssuesAssumption ==
    /\ FetchSize \in Nat \ {0}
    /\ Items \in Seq(ToSet(Items))
    /\ \A w \in ToSet(Items) : DOMAIN w = {"type", "state", "area"}

\* Of a migration for one team only the items of the project's own area are read: not
\* those of the team's area, and none of the areas below.
AreaPaths(f) == IF f.team /\ f.areas = {} THEN {ProjectArea} ELSE f.areas

\* Filters by iteration, tag and assignee are accepted and not applied.
WIQLQuery(f, w) ==
    /\ f.types = {} \/ w.type \in f.types
    /\ f.states = {} \/ w.state \in f.states
    /\ AreaPaths(f) = {} \/ w.area \in AreaPaths(f)

\* The members of a finite set of positions, from the least on.
InOrder(S) ==
    LET place == [i \in S |-> Cardinality({j \in S : j <= i})]
    IN [n \in 1 .. Cardinality(S) |-> CHOOSE i \in S : place[i] = n]

\* Which of n ids one request reads when i of them are read.
Batch(n, i) == i + 1 .. (IF i + FetchSize > n THEN n ELSE i + FetchSize)

\* The ids that match, and then their details request by request.
QueryWorkItems(f) ==
    LET ids == InOrder({i \in DOMAIN Items : WIQLQuery(f, Items[i])})
        begins == {i \in 0 .. Len(ids) - 1 : i % FetchSize = 0}
    IN [n \in UNION {Batch(Len(ids), i) : i \in begins} |-> ids[n]]

DefaultStateMapping ==
    [s \in {"New", "Active", "Resolved", "Closed", "Removed"} |->
        IF s \in {"New", "Active"} THEN "open" ELSE "closed"]

\* A mapping that is given replaces the default one, an empty one does not.
ApplyDefaults(mapping) == IF DOMAIN mapping = {} THEN DefaultStateMapping ELSE mapping

MapState(state, mapping) ==
    IF state \in DOMAIN mapping THEN mapping[state]
    ELSE IF state \in {"Closed", "Resolved", "Removed"} THEN "closed" ELSE "open"

\* The column for a state; a state that it does not know names a column of its own.
MapAdoStateToProjectStatus(state) ==
    IF state \in {"In Progress", "Committed"} THEN "Active"
    ELSE IF state \in {"Testing", "In Testing", "Ready For Test"} THEN "Test"
    ELSE IF state \in {"Done", "Completed"} THEN "Resolved"
    ELSE IF state = "Removed" THEN "Closed" ELSE state
=============================================================================
