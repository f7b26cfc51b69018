------------------------------ MODULE AdoDiscovery ------------------------------
(* The AdoDiscovery reconciler: one step per reconcile, counted against    *)
(* the scope that the object had when it was first seen.                   *)
EXTENDS StatusObject

CONSTANT DiscoverySpecs     \* specs of a discovery: [config, scope]

NoDiscovery == [phase |-> "", done |-> 0, total |-> 0]

\* A discovery of nothing has one step.
TotalSteps(s) == IF s.scope = {} THEN 1 ELSE Cardinality(s.scope)

InitializeDiscovery(r) ==
    LET o == cache[r] IN
    /\ o.status.phase = ""
    /\ Handle(r, With(o, [o.status EXCEPT !.phase = "Pending", !.total = TotalSteps(o.spec)]), TRUE)

ProcessPendingDiscovery(r) ==
    LET o == cache[r]
        t == [o.status EXCEPT !.phase = IF o.spec.config THEN "Running" ELSE "Failed"] IN
    o.status.phase = "Pending" /\ Handle(r, With(o, t), o.spec.config)

\* The credentials are part of the configuration: an edit may have taken them away.
Stepped(o) ==
    LET done == o.status.done + (IF o.status.done < o.status.total THEN 1 ELSE 0) IN
    IF ~o.spec.config THEN Fail(o.status)
    ELSE [o.status EXCEPT !.done = done,
                          !.phase = IF done >= o.status.total THEN "Completed" ELSE @]

ProcessRunningDiscovery(r) ==
    LET o == cache[r] IN
    /\ o.status.phase = "Running"
    /\ Handle(r, With(o, Stepped(o)), Stepped(o).phase = "Running")

ReconcileDiscovery(r) ==
    \/ KeepFinalizer(r)
    \/ /\ Live(cache[r])
       /\ \/ InitializeDiscovery(r)
          \/ ProcessPendingDiscovery(r)
          \/ ProcessRunningDiscovery(r)
          \/ Ended(cache[r].status) /\ Ignore(r, FALSE)

\* The API checks nothing.
UpdateDiscovery(r) == \E s \in DiscoverySpecs : UpdateSpec(r, s)

DeleteDiscovery(r) == DeleteObject(r)
=============================================================================
