------------------------------ MODULE BatchClaim ------------------------------
(***************************************************************************)
(* What the BatchMigration reconcilers promise: a batch has at most one    *)
(* holder, only a holder records progress, progress is never lost, and a   *)
(* batch completes with everything done that is wanted of it by then.      *)
(***************************************************************************)
CONSTANTS Holders, NoHolder, Names

VARIABLES wanted, holder, done, result

Init == wanted \subseteq Names /\ holder = NoHolder /\ done = {} /\ result = "open"

\* The owner of the batch changes what it asks for, at any time.
Ask ==
    /\ wanted' \subseteq Names
    /\ UNCHANGED <<holder, done, result>>

Acquire(h) ==
    /\ result = "open" /\ holder = NoHolder
    /\ holder' = h
    /\ UNCHANGED <<wanted, done, result>>

\* The holder records progress, gives the batch back, or ends it.
Hold ==
    /\ result = "open" /\ holder # NoHolder
    /\ done \subseteq done' /\ done' \subseteq Names
    /\ holder' \in {holder, NoHolder}
    /\ \/ result' = result
       \/ holder' = holder /\ result' = "failed"
       \/ holder' = holder /\ result' = "completed" /\ wanted \subseteq done'
    /\ UNCHANGED wanted

Next == Ask \/ Hold \/ \E h \in Holders : Acquire(h)

Spec == Init /\ [][Next]_<<wanted, holder, done, result>>
=============================================================================
