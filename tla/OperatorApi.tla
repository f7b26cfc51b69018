------------------------------ MODULE OperatorApi ------------------------------
(***************************************************************************)
(* The operator's HTTP API: migrations of three kinds that share one name, *)
(* created with an inline GitHub token, and the handlers that pause,       *)
(* resume, cancel and retry a repository migration.                        *)
(*                                                                         *)
(* A creation is several calls: the secret <name>-github-token is created, *)
(* or updated when it exists, and then the object.  Whatever the handlers  *)
(* read comes from the cache of the operator.  What the controllers do     *)
(* with an object is the matter of their modules; here they move its phase.*)
(***************************************************************************)
EXTENDS Integers, FiniteSets

CONSTANTS
    Clients,        \* creation requests; each brings a token of its own
    Nobody,
    MaxOrders,      \* bound on orders, edits and deletions together
    MaxFailures     \* bound on calls that fail

ASSUME ApiAssumption == Nobody \notin Clients /\ {MaxOrders, MaxFailures} \subseteq Nat

VARIABLES
    object,     \* object[k]: the migration of kind k
    cache,      \* cache[k]: the operator's cached copy of it
    secret,     \* whose token the secret holds, or Nobody without a secret
    cachedSecret,   \* the cached copy of the secret
    synced,     \* the objects, of Cached, whose cached copy is the latest version
    request,    \* request[c]: the kind that c creates, and how far it is
    cleanups,   \* secrets deleted with a work-item migration
    orders,
    failures

apiVars == <<object, cache, secret, cachedSecret, synced, request, cleanups, orders, failures>>

Kinds == {"AdoToGitMigration", "WorkItemMigration", "MonoRepoMigration"}

Cached == Kinds \union {"secret"}

\* gen: the generation, and seen: the observed one.
None == [exists |-> FALSE, deleting |-> FALSE, owner |-> Nobody, ref |-> FALSE,
         gen |-> 0, seen |-> 0, phase |-> "", notes |-> {}]

ApiInit ==
    /\ object = [k \in Kinds |-> None]
    /\ cache = object
    /\ secret = Nobody
    /\ cachedSecret = Nobody
    /\ synced = Cached
    /\ request = [c \in Clients |-> [kind |-> "", inline |-> FALSE, at |-> "decode"]]
    /\ cleanups = 0
    /\ orders = 0
    /\ failures = 0

-----------------------------------------------------------------------------

Save(k, o) ==
    /\ object' = [object EXCEPT ![k] = o]
    /\ synced' = IF o = object[k] THEN synced ELSE synced \ {k}

SaveSecret(t) ==
    /\ secret' = t
    /\ synced' = IF t = secret THEN synced ELSE synced \ {"secret"}

Goto(c, at) == request' = [request EXCEPT ![c].at = at]

Failure == failures < MaxFailures /\ failures' = failures + 1

Order == orders < MaxOrders /\ orders' = orders + 1

Sync(x) ==
    /\ x \notin synced
    /\ synced' = synced \union {x}
    /\ IF x = "secret"
       THEN cachedSecret' = secret /\ UNCHANGED cache
       ELSE cache' = [cache EXCEPT ![x] = object[x]] /\ UNCHANGED cachedSecret
    /\ UNCHANGED <<object, secret, request, cleanups, orders, failures>>

-----------------------------------------------------------------------------
(* The creation of a migration by the request c.                           *)

Decode(c) ==
    /\ request[c].at = "decode"
    /\ \E k \in Kinds, inline \in BOOLEAN :
          request' = [request EXCEPT ![c] = [kind |-> k, inline |-> inline,
                                             at |-> IF inline THEN "secret" ELSE "object"]]
    /\ UNCHANGED <<object, cache, secret, cachedSecret, synced, cleanups, orders, failures>>

\* Mutant: a secret that cannot be made is only logged.
CreateSecretOrLog(c) ==
    /\ request[c].at = "secret"
    /\ \/ secret = Nobody /\ SaveSecret(c) /\ Goto(c, "object") /\ UNCHANGED failures
       \/ secret # Nobody /\ Goto(c, "update") /\ UNCHANGED <<secret, synced, failures>>
       \/ Failure /\ Goto(c, "object") /\ UNCHANGED <<secret, synced>>
    /\ UNCHANGED <<object, cache, cachedSecret, cleanups, orders>>

CreateSecret(c) ==
    /\ request[c].at = "secret"
    /\ \/ secret = Nobody /\ SaveSecret(c) /\ Goto(c, "object") /\ UNCHANGED failures
       \/ secret # Nobody /\ Goto(c, "update") /\ UNCHANGED <<secret, synced, failures>>
       \/ Failure /\ Goto(c, "refused") /\ UNCHANGED <<secret, synced>>
    /\ UNCHANGED <<object, cache, cachedSecret, cleanups, orders>>

\* A copy that is not in the cache yet is passed over: the secret keeps the other token.
UpdateSecret(c) ==
    /\ request[c].at = "update"
    /\ \/ /\ cachedSecret = Nobody
          /\ Goto(c, "object")
          /\ UNCHANGED <<secret, synced, failures>>
       \/ /\ cachedSecret # Nobody /\ "secret" \in synced
          /\ SaveSecret(c)
          /\ Goto(c, "object")
          /\ UNCHANGED failures
       \/ /\ cachedSecret # Nobody
          /\ IF "secret" \in synced THEN Failure ELSE UNCHANGED failures
          /\ Goto(c, "refused")
          /\ UNCHANGED <<secret, synced>>
    /\ UNCHANGED <<object, cache, cachedSecret, cleanups, orders>>

\* The object refers to the secret when the request had brought a token.
CreateObject(c) ==
    LET k == request[c].kind IN
    /\ request[c].at = "object"
    /\ \/ /\ ~object[k].exists
          /\ Save(k, [None EXCEPT !.exists = TRUE, !.owner = c, !.ref = request[c].inline, !.gen = 1])
          /\ Goto(c, "created")
          /\ UNCHANGED failures
       \/ /\ object[k].exists
          /\ Goto(c, "refused")
          /\ UNCHANGED <<object, synced, failures>>
       \/ Failure /\ Goto(c, "refused") /\ UNCHANGED <<object, synced>>
    /\ UNCHANGED <<cache, secret, cachedSecret, cleanups, orders>>

\* The three creations take these steps.
CreateAdoToGitMigration(c) == request[c].kind = "AdoToGitMigration" /\ (CreateSecret(c) \/ UpdateSecret(c) \/ CreateObject(c))
CreateWorkItemMigration(c) == request[c].kind = "WorkItemMigration" /\ (CreateSecret(c) \/ UpdateSecret(c) \/ CreateObject(c))
CreateMonoRepoMigration(c) == request[c].kind = "MonoRepoMigration" /\ (CreateSecret(c) \/ UpdateSecret(c) \/ CreateObject(c))

-----------------------------------------------------------------------------
(* Orders.  They are for repository migrations; the handlers of the other  *)
(* kinds are in MonoRepoMigration.                                         *)

Ado == "AdoToGitMigration"

Terminal == {"Completed", "Failed", "Cancelled"}

\* Mutant: the update is a patch without a version.
Patched(o) ==
    /\ Order
    /\ object[Ado].exists
    /\ Save(Ado, [object[Ado] EXCEPT !.notes = o.notes, !.gen = o.gen])
    /\ UNCHANGED <<cache, secret, cachedSecret, request, cleanups, failures>>

\* A conflict, or an object that is gone, is answered with an error and changes nothing.
Updated(o) ==
    /\ Order
    /\ Ado \in synced
    /\ Save(Ado, o)
    /\ UNCHANGED <<cache, secret, cachedSecret, request, cleanups, failures>>

Note(note) == [cache[Ado] EXCEPT !.notes = @ \union {note}]

PauseMigration == cache[Ado].exists /\ cache[Ado].phase = "Running" /\ Updated(Note("pause"))

ResumeMigration ==
    /\ cache[Ado].exists /\ cache[Ado].phase = "Paused"
    /\ Updated([cache[Ado] EXCEPT !.notes = @ \ {"pause"}])

CancelMigration == cache[Ado].exists /\ cache[Ado].phase \notin Terminal /\ Updated(Note("cancel"))

RetryMigration == cache[Ado].exists /\ cache[Ado].phase = "Failed" /\ Updated(Note("retry"))

UpdateMigration == cache[Ado].exists /\ Updated([cache[Ado] EXCEPT !.gen = @ + 1])

\* The object stays until the finalizer of its controller is gone; its deletion is a
\* new generation.
DeleteObject(k) ==
    /\ Order
    /\ cache[k].exists /\ object[k].exists /\ ~object[k].deleting
    /\ Save(k, [object[k] EXCEPT !.deleting = TRUE, !.gen = @ + 1])
    /\ UNCHANGED <<cache, secret, cachedSecret, request, cleanups, failures>>

\* The cleanup of a work-item migration deletes the secret that the API has made, when the
\* cache shows it and the deletion does not fail; the other kinds leave it.
Cleanup(k) ==
    /\ k = "WorkItemMigration" /\ object[k].ref
    /\ secret # Nobody /\ cachedSecret # Nobody
    /\ secret' = Nobody
    /\ synced' = synced \ {k, "secret"}
    /\ cleanups' = cleanups + 1

Finalize(k) ==
    /\ object[k].deleting
    /\ object' = [object EXCEPT ![k] = None]
    /\ Cleanup(k) \/ (synced' = synced \ {k} /\ UNCHANGED <<secret, cleanups>>)
    /\ UNCHANGED <<cache, cachedSecret, request, orders, failures>>

\* A user asks the controller for a reconcile; no handler of the API does.
Trigger ==
    /\ Order
    /\ object[Ado].exists
    /\ Save(Ado, [object[Ado] EXCEPT !.notes = @ \union {"reconcile-trigger"}])
    /\ UNCHANGED <<cache, secret, cachedSecret, request, cleanups, failures>>

\* The phases that the controller may give to a migration without a trigger.  The pause
\* and the cancel annotation are obeyed in every phase, and a paused migration stays
\* paused without its annotation.
NextPhases(o) ==
    IF "pause" \in o.notes THEN {"Paused"}
    ELSE IF "cancel" \in o.notes THEN {"Cancelled"}
    ELSE CASE o.phase = ""                      -> {"Pending"}
           [] o.phase = "Pending"               -> {"Validating"}
           [] o.phase = "Validating"            -> {"Running", "Failed"}
           [] o.phase = "Running"               -> {"Syncing", "Completed", "Failed"}
           [] o.phase = "Syncing"               -> {"Completed"}
           [] o.phase \in Terminal \union {"Paused"} -> {}

\* A changed spec starts an ended migration again, and so does a trigger, unless the
\* resources are the same.
Restarts(o) == o.phase \in Terminal /\ o.gen # o.seen

\* The controller of repository migrations, as far as the handlers look at its phase, in
\* the order of its reconcile.  It does not read the retry annotation.
AdoPhase ==
    LET o == object[Ado]
        Move(p) == [o EXCEPT !.phase = p, !.seen = o.gen]
        Untriggered(x) == [x EXCEPT !.notes = @ \ {"reconcile-trigger"}]
        waiting == ~Restarts(o) /\ ~o.deleting
    IN /\ o.exists
       /\ \/ /\ Restarts(o)
             /\ \E p \in {"Running", o.phase} : Save(Ado, Move(p))
          \/ /\ waiting /\ "reconcile-trigger" \in o.notes
             /\ \/ o.phase \notin Terminal /\ Save(Ado, Untriggered(o))
                \/ /\ o.phase \in Terminal
                   /\ \E p \in {"Running", o.phase} : Save(Ado, Untriggered(Move(p)))
          \/ /\ waiting /\ "reconcile-trigger" \notin o.notes
             /\ \E p \in NextPhases(o) \ {o.phase} : Save(Ado, Move(p))
       /\ UNCHANGED <<cache, secret, cachedSecret, request, cleanups, orders, failures>>

ApiNext ==
    \/ \E x \in Cached : Sync(x)
    \/ \E c \in Clients :
          Decode(c) \/ CreateAdoToGitMigration(c) \/ CreateWorkItemMigration(c) \/ CreateMonoRepoMigration(c)
    \/ PauseMigration \/ ResumeMigration \/ CancelMigration \/ RetryMigration \/ UpdateMigration
    \/ Trigger
    \/ \E k \in Kinds : DeleteObject(k) \/ Finalize(k)
    \/ AdoPhase

-----------------------------------------------------------------------------

\* An object that refers to the secret finds it there, whatever creations of the same
\* name do at the same time, unless the cleanup of a work-item migration took it away.
SecretFirst == \A k \in Kinds : object[k].exists /\ object[k].ref => secret # Nobody \/ cleanups > 0

\* An order is written only for a migration that is still in the phase that the handler
\* looked at: the phase may change between the cached read and the update.
FitsPhase ==
    LET old == object[Ado]
        new == object'[Ado] IN
    old.exists /\ new.exists =>
        /\ "pause" \in new.notes \ old.notes => old.phase = "Running"
        /\ "pause" \in old.notes \ new.notes => old.phase = "Paused"
        /\ "cancel" \in new.notes \ old.notes => old.phase \notin Terminal
        /\ "retry" \in new.notes \ old.notes => old.phase = "Failed"

OrdersFitPhase == [][FitsPhase]_apiVars
=============================================================================
