---------------------------- MODULE ServicesProofs ----------------------------
(* Theorems about Services, for any clients, requests, browsers and users of *)
(* the token, any capacities and any bounds.                                 *)
EXTENDS Services, TLAPS, FiniteSetTheorems, WellFoundedInduction

-----------------------------------------------------------------------------
(* The secret of a creation is there before the object refers to it.       *)

AdoPhases == {"", "Pending", "Validating", "Running", "Paused", "Syncing",
              "Completed", "Failed", "Cancelled"}

Annotations == {"pause", "cancel", "retry", "reconcile-trigger"}

Migration == [exists : BOOLEAN, deleting : BOOLEAN, owner : Clients \cup {Nobody},
              ref : BOOLEAN, gen : Nat, seen : Nat, phase : AdoPhases,
              notes : SUBSET Annotations]

ApiTypeOK ==
    /\ object \in [Kinds -> Migration]
    /\ cache \in [Kinds -> Migration]
    /\ request \in [Clients -> [kind : Kinds \cup {""}, inline : BOOLEAN,
                                at : {"decode", "secret", "update", "object",
                                      "created", "refused"}]]
    /\ cleanups \in Nat

\* The secret is there, or a cleanup took it away.
SecretKept == secret # Nobody \/ cleanups > 0

Refers(o) == o.exists /\ o.ref

\* The inductive invariant: it is also there for who is about to refer to it, and
\* for the cached copies that the handlers write back.
SecretInv ==
    /\ ApiTypeOK
    /\ \A k \in Kinds : Refers(object[k]) \/ Refers(cache[k]) => SecretKept
    /\ \A c \in Clients :
          /\ request[c].at = "update" => SecretKept
          /\ request[c].at = "object" /\ request[c].inline => SecretKept

\* No object is one.
LEMMA NoneIsMigration == None \in Migration /\ ~Refers(None)
BY DEF None, Migration, Refers, AdoPhases, Annotations

\* A step that keeps the secret, and in which nothing but perhaps the object k comes
\* to refer to it.
LEMMA ObjectStep ==
    ASSUME SecretInv, NEW k \in Kinds, NEW o \in Migration,
           Refers(o) => SecretKept, object' = [object EXCEPT ![k] = o],
           UNCHANGED <<cache, request>>, SecretKept => SecretKept', cleanups' \in Nat
    PROVE  SecretInv'
<1>1. ApiTypeOK'
  BY DEF SecretInv, ApiTypeOK
<1>2. \A j \in Kinds : object'[j] = IF j = k THEN o ELSE object[j]
  BY DEF SecretInv, ApiTypeOK
<1> QED
  BY <1>1, <1>2 DEF SecretInv, Refers

\* A step of the request c.
LEMMA RequestStep ==
    ASSUME SecretInv, NEW c \in Clients, UNCHANGED <<object, cache>>,
           request' \in [Clients -> [kind : Kinds \cup {""}, inline : BOOLEAN,
                                     at : {"decode", "secret", "update", "object",
                                           "created", "refused"}]],
           \A d \in Clients \ {c} : request'[d] = request[d],
           SecretKept => SecretKept', cleanups' \in Nat,
           \/ request'[c].at \notin {"update", "object"}
           \/ request'[c].at = "object" /\ ~request'[c].inline
           \/ SecretKept'
    PROVE  SecretInv'
<1>1. ApiTypeOK'
  BY DEF SecretInv, ApiTypeOK
<1> QED
  BY <1>1 DEF SecretInv

\* The request c goes on.
LEMMA GotoKeeps ==
    ASSUME ApiTypeOK, NEW c \in Clients,
           NEW at \in {"decode", "secret", "update", "object", "created", "refused"},
           Goto(c, at)
    PROVE  /\ request' \in [Clients -> [kind : Kinds \cup {""}, inline : BOOLEAN,
                                        at : {"decode", "secret", "update", "object",
                                              "created", "refused"}]]
           /\ \A d \in Clients \ {c} : request'[d] = request[d]
           /\ request'[c].at = at /\ request'[c].inline = request[c].inline
BY DEF ApiTypeOK, Goto

\* The calls of a creation.
LEMMA CreationKeeps ==
    ASSUME ApiAssumption, SecretInv, NEW c \in Clients,
           Decode(c) \/ CreateSecret(c) \/ UpdateSecret(c) \/ CreateObject(c)
    PROVE  SecretInv'
<1> USE DEF ApiAssumption
<1>1. CASE Decode(c)
  <2>1. PICK k \in Kinds, inline \in BOOLEAN :
            request' = [request EXCEPT ![c] = [kind |-> k, inline |-> inline,
                                               at |-> IF inline THEN "secret" ELSE "object"]]
    BY <1>1 DEF Decode
  <2>2. /\ request' \in [Clients -> [kind : Kinds \cup {""}, inline : BOOLEAN,
                                     at : {"decode", "secret", "update", "object",
                                           "created", "refused"}]]
        /\ \A d \in Clients \ {c} : request'[d] = request[d]
        /\ request'[c].at \notin {"update", "object"}
             \/ (request'[c].at = "object" /\ ~request'[c].inline)
    BY <2>1 DEF SecretInv, ApiTypeOK
  <2>3. UNCHANGED <<object, cache>> /\ (SecretKept => SecretKept') /\ cleanups' \in Nat
    BY <1>1 DEF Decode, SecretKept, SecretInv, ApiTypeOK
  <2> QED
    BY <2>2, <2>3, RequestStep
<1>2. CASE CreateSecret(c)
  <2>1. UNCHANGED <<object, cache, cleanups>> /\ cleanups' \in Nat /\ ApiTypeOK
    BY <1>2 DEF CreateSecret, SecretInv, ApiTypeOK
  <2>2. CASE SaveSecret(c) /\ Goto(c, "object")
    <3>1. SecretKept'
      BY <2>2 DEF SaveSecret, SecretKept
    <3> QED
      BY <2>1, <2>2, <3>1, GotoKeeps, RequestStep
  <2>3. CASE secret # Nobody /\ Goto(c, "update") /\ UNCHANGED secret
    <3>1. SecretKept'
      BY <2>3 DEF SecretKept
    <3> QED
      BY <2>1, <2>3, <3>1, GotoKeeps, RequestStep
  <2>4. CASE Goto(c, "refused") /\ UNCHANGED secret
    <3>1. SecretKept => SecretKept'
      BY <2>1, <2>4 DEF SecretKept
    <3> QED
      BY <2>1, <2>4, <3>1, GotoKeeps, RequestStep
  <2> QED
    BY <1>2, <2>2, <2>3, <2>4 DEF CreateSecret
<1>3. CASE UpdateSecret(c)
  <2>1. UNCHANGED <<object, cache, cleanups>> /\ cleanups' \in Nat /\ ApiTypeOK /\ SecretKept
    BY <1>3 DEF UpdateSecret, SecretInv, ApiTypeOK
  <2>2. SecretKept'
    BY <1>3, <2>1 DEF UpdateSecret, SaveSecret, SecretKept
  <2>3. Goto(c, "object") \/ Goto(c, "refused")
    BY <1>3 DEF UpdateSecret
  <2> QED
    BY <2>1, <2>2, <2>3, GotoKeeps, RequestStep
<1>4. CASE CreateObject(c)
  <2> DEFINE k == request[c].kind
             o == [None EXCEPT !.exists = TRUE, !.owner = c, !.ref = request[c].inline, !.gen = 1]
  <2>1. /\ UNCHANGED <<cache, cleanups, secret>> /\ cleanups' \in Nat /\ ApiTypeOK
        /\ (SecretKept => SecretKept') /\ request[c].at = "object"
    BY <1>4 DEF CreateObject, SecretInv, ApiTypeOK, SecretKept
  <2>2. CASE object' = object
    <3>1. Goto(c, "created") \/ Goto(c, "refused")
      BY <1>4 DEF CreateObject
    <3> QED
      BY <2>1, <2>2, <3>1, GotoKeeps, RequestStep
  <2>3. CASE Save(k, o) /\ Goto(c, "created")
    <3>1. request[c].inline \in BOOLEAN
      BY DEF SecretInv, ApiTypeOK
    <3>2. o \in Migration /\ (Refers(o) => request[c].inline)
      BY <3>1 DEF None, Migration, Refers, AdoPhases, Annotations
    <3> HIDE DEF o
    <3>3. object' = [object EXCEPT ![k] = o]
      BY <2>3 DEF Save
    <3>4. object' \in [Kinds -> Migration]
      BY <3>2, <3>3 DEF SecretInv, ApiTypeOK
    <3>5. \A j \in Kinds : object'[j] = object[j] \/ object'[j] = o
      BY <3>3 DEF SecretInv, ApiTypeOK
    <3>6. Refers(o) => SecretKept
      BY <2>1, <3>2 DEF SecretInv
    <3>7. \A j \in Kinds : Refers(object'[j]) \/ Refers(cache'[j]) => SecretKept'
      BY <2>1, <3>5, <3>6 DEF SecretInv, Refers
    <3>8. /\ request' \in [Clients -> [kind : Kinds \cup {""}, inline : BOOLEAN,
                                       at : {"decode", "secret", "update", "object",
                                             "created", "refused"}]]
          /\ \A d \in Clients \ {c} : request'[d] = request[d]
          /\ request'[c].at = "created"
      BY <2>1, <2>3, GotoKeeps
    <3>9. ApiTypeOK'
      BY <2>1, <3>4, <3>8 DEF ApiTypeOK
    <3> QED
      BY <2>1, <3>7, <3>8, <3>9 DEF SecretInv, Refers
  <2> QED
    BY <1>4, <2>2, <2>3 DEF CreateObject
<1> QED
  BY <1>1, <1>2, <1>3, <1>4

\* An order writes the cached copy back, which refers to the secret only if it is kept.
LEMMA UpdatedKeeps ==
    ASSUME SecretInv, NEW o \in Migration, Refers(o) => Refers(cache[Ado]), Updated(o)
    PROVE  SecretInv'
<1>1. Ado \in Kinds
  BY DEF Ado, Kinds
<1>2. /\ object' = [object EXCEPT ![Ado] = o] /\ UNCHANGED <<cache, request>>
      /\ (SecretKept => SecretKept') /\ cleanups' \in Nat
  BY DEF Updated, Save, SecretKept, SecretInv, ApiTypeOK
<1>3. Refers(o) => SecretKept
  BY <1>1 DEF SecretInv
<1> QED
  BY <1>1, <1>2, <1>3, ObjectStep

\* The orders.
LEMMA OrdersKeep ==
    ASSUME SecretInv,
           \/ PauseMigration \/ ResumeMigration \/ CancelMigration \/ RetryMigration
           \/ UpdateMigration
    PROVE  SecretInv'
<1>1. cache[Ado] \in Migration
  BY DEF SecretInv, ApiTypeOK, Ado, Kinds
<1>2. ASSUME NEW note \in {"pause", "cancel", "retry"}
      PROVE  Note(note) \in Migration /\ (Refers(Note(note)) => Refers(cache[Ado]))
  BY <1>1 DEF Note, Migration, Refers, Annotations
<1>3. /\ [cache[Ado] EXCEPT !.notes = @ \ {"pause"}] \in Migration
      /\ Refers([cache[Ado] EXCEPT !.notes = @ \ {"pause"}]) => Refers(cache[Ado])
  <2> DEFINE n == cache[Ado].notes \ {"pause"}
             o == [cache[Ado] EXCEPT !.notes = n]
  <2>1. n \in SUBSET Annotations
    BY <1>1 DEF Migration
  <2> HIDE DEF n
  <2>2. o \in Migration /\ o.exists = cache[Ado].exists /\ o.ref = cache[Ado].ref
    BY <1>1, <2>1 DEF Migration
  <2> QED
    BY <2>2 DEF n, Refers
<1>4. /\ [cache[Ado] EXCEPT !.gen = @ + 1] \in Migration
      /\ Refers([cache[Ado] EXCEPT !.gen = @ + 1]) => Refers(cache[Ado])
  <2> DEFINE n == cache[Ado].gen + 1
             o == [cache[Ado] EXCEPT !.gen = n]
  <2>1. n \in Nat
    <3>1. cache[Ado].gen \in Nat
      BY <1>1 DEF Migration
    <3> QED
      BY <3>1
  <2> HIDE DEF n
  <2>2. o \in Migration /\ o.exists = cache[Ado].exists /\ o.ref = cache[Ado].ref
    BY <1>1, <2>1 DEF Migration
  <2> QED
    BY <2>2 DEF n, Refers
<1>5. CASE PauseMigration \/ CancelMigration \/ RetryMigration
  BY <1>2, <1>5, UpdatedKeeps DEF PauseMigration, CancelMigration, RetryMigration
<1>6. CASE ResumeMigration
  BY <1>3, <1>6, UpdatedKeeps DEF ResumeMigration
<1>7. CASE UpdateMigration
  BY <1>4, <1>7, UpdatedKeeps DEF UpdateMigration
<1> QED
  BY <1>5, <1>6, <1>7

\* Deletions, and what becomes of the secret then.
LEMMA DeletionKeeps ==
    ASSUME SecretInv, NEW k \in Kinds, DeleteObject(k) \/ Finalize(k)
    PROVE  SecretInv'
<1>1. CASE DeleteObject(k)
  <2> DEFINE n == object[k].gen + 1
             o == [object[k] EXCEPT !.deleting = TRUE, !.gen = n]
  <2>1. object[k] \in Migration
    BY DEF SecretInv, ApiTypeOK
  <2>5. n \in Nat
    <3>1. object[k].gen \in Nat
      BY <2>1 DEF Migration
    <3> QED
      BY <3>1
  <2>2. o \in Migration /\ (Refers(o) => Refers(object[k]))
    <3> HIDE DEF n
    <3> QED
      BY <2>1, <2>5 DEF Migration, Refers
  <2>3. /\ object' = [object EXCEPT ![k] = o] /\ UNCHANGED <<cache, request>>
        /\ (SecretKept => SecretKept') /\ cleanups' \in Nat
    BY <1>1 DEF DeleteObject, Save, SecretKept, SecretInv, ApiTypeOK
  <2> HIDE DEF o
  <2>4. Refers(o) => SecretKept
    BY <2>2 DEF SecretInv
  <2> QED
    BY <2>2, <2>3, <2>4, ObjectStep
<1>2. CASE Finalize(k)
  <2>1. object' = [object EXCEPT ![k] = None] /\ UNCHANGED <<cache, request>>
    BY <1>2 DEF Finalize
  <2>2. cleanups \in Nat
    BY DEF SecretInv, ApiTypeOK
  <2>3. (SecretKept => SecretKept') /\ cleanups' \in Nat
    BY <1>2, <2>2 DEF Finalize, Cleanup, SecretKept
  <2> QED
    BY <2>1, <2>3, NoneIsMigration, ObjectStep
<1> QED
  BY <1>1, <1>2

\* A migration of another phase, or without its trigger.
LEMMA MovedMigration ==
    ASSUME NEW o \in Migration, NEW p \in AdoPhases, NEW n \in SUBSET Annotations
    PROVE  /\ [o EXCEPT !.phase = p, !.seen = o.gen] \in Migration
           /\ Refers([o EXCEPT !.phase = p, !.seen = o.gen]) = Refers(o)
           /\ [o EXCEPT !.phase = p, !.seen = o.gen].notes = o.notes
           /\ [o EXCEPT !.notes = n] \in Migration
           /\ Refers([o EXCEPT !.notes = n]) = Refers(o)
           /\ [o EXCEPT !.notes = n].notes = n
BY DEF Migration, Refers

\* The phases of a migration.
LEMMA PhasesMove ==
    ASSUME NEW o \in Migration
    PROVE  NextPhases(o) \subseteq AdoPhases /\ {"Running", o.phase} \subseteq AdoPhases
<1>1. o.phase \in AdoPhases
  BY DEF Migration
<1> QED
  BY <1>1 DEF NextPhases, AdoPhases, Terminal

\* The controller of the migration and who triggers it leave the other annotations, and
\* whether it refers to the secret.
Outside(o) ==
    /\ Save(Ado, o)
    /\ Refers(o) = Refers(object[Ado])
    /\ o.notes \ {"reconcile-trigger"} = object[Ado].notes \ {"reconcile-trigger"}
    /\ UNCHANGED <<cache, secret, request, cleanups>>

LEMMA ControllerWrites ==
    ASSUME ApiTypeOK, AdoPhase \/ Trigger
    PROVE  \E o \in Migration : Outside(o)
<1> DEFINE old == object[Ado]
           moved(p) == [old EXCEPT !.phase = p, !.seen = old.gen]
<1>1. old \in Migration /\ old.notes \in SUBSET Annotations
  BY DEF ApiTypeOK, Ado, Kinds, Migration
<1>2. UNCHANGED <<cache, secret, request, cleanups>>
  BY DEF AdoPhase, Trigger
<1>3. CASE Trigger
  <2> DEFINE n == old.notes \cup {"reconcile-trigger"}
  <2>1. Save(Ado, [old EXCEPT !.notes = n])
    BY <1>3 DEF Trigger
  <2>2. n \in SUBSET Annotations /\ n \ {"reconcile-trigger"} = old.notes \ {"reconcile-trigger"}
    BY <1>1 DEF Annotations
  <2>3. "" \in AdoPhases
    BY DEF AdoPhases
  <2> HIDE DEF n, old
  <2> QED
    BY <1>1, <1>2, <2>1, <2>2, <2>3, MovedMigration DEF Outside, old
<1>4. ASSUME NEW p \in AdoPhases, Save(Ado, moved(p))
      PROVE  \E o \in Migration : Outside(o)
  <2>1. /\ moved(p) \in Migration /\ Refers(moved(p)) = Refers(old)
        /\ moved(p).notes = old.notes
    BY <1>1, MovedMigration
  <2> QED
    BY <1>2, <1>4, <2>1 DEF Outside
<1>5. ASSUME NEW m \in Migration, m.notes = old.notes, Refers(m) = Refers(old),
             Save(Ado, [m EXCEPT !.notes = @ \ {"reconcile-trigger"}])
      PROVE  \E o \in Migration : Outside(o)
  <2> DEFINE n == m.notes \ {"reconcile-trigger"}
             x == [m EXCEPT !.notes = n]
  <2>1. n \in SUBSET Annotations /\ n \ {"reconcile-trigger"} = old.notes \ {"reconcile-trigger"}
    BY <1>1, <1>5
  <2>2. "" \in AdoPhases
    BY DEF AdoPhases
  <2>3. Save(Ado, x)
    BY <1>5
  <2> HIDE DEF n
  <2>4. x \in Migration /\ Refers(x) = Refers(old) /\ x.notes = n
    BY <1>5, <2>1, <2>2, MovedMigration
  <2> HIDE DEF x
  <2> QED
    BY <1>2, <2>1, <2>3, <2>4 DEF Outside
<1>6. CASE AdoPhase
  <2>1. \/ \E p \in {"Running", old.phase} : Save(Ado, moved(p))
        \/ \E p \in NextPhases(old) : Save(Ado, moved(p))
        \/ Save(Ado, [old EXCEPT !.notes = @ \ {"reconcile-trigger"}])
        \/ \E p \in {"Running", old.phase} :
              Save(Ado, [moved(p) EXCEPT !.notes = @ \ {"reconcile-trigger"}])
    BY <1>6, Zenon DEF AdoPhase
  <2>2. NextPhases(old) \subseteq AdoPhases /\ {"Running", old.phase} \subseteq AdoPhases
    BY <1>1, PhasesMove
  <2>3. ASSUME NEW p \in AdoPhases,
               Save(Ado, [moved(p) EXCEPT !.notes = @ \ {"reconcile-trigger"}])
        PROVE  \E o \in Migration : Outside(o)
    <3>1. /\ moved(p) \in Migration /\ Refers(moved(p)) = Refers(old)
          /\ moved(p).notes = old.notes
      BY <1>1, MovedMigration
    <3> HIDE DEF moved
    <3> QED
      BY <1>5, <2>3, <3>1
  <2> HIDE DEF moved
  <2> QED
    BY <1>1, <1>4, <1>5, <2>1, <2>2, <2>3
<1> QED
  BY <1>3, <1>6

\* The controller and the trigger keep the secret.
LEMMA AdoPhaseKeeps ==
    ASSUME SecretInv, AdoPhase \/ Trigger
    PROVE  SecretInv'
<1>1. PICK o \in Migration : Outside(o)
  BY ControllerWrites DEF SecretInv
<1>2. Ado \in Kinds
  BY DEF Ado, Kinds
<1>3. /\ object' = [object EXCEPT ![Ado] = o] /\ UNCHANGED <<cache, request>>
      /\ (SecretKept => SecretKept') /\ cleanups' \in Nat
  BY <1>1 DEF Outside, Save, SecretKept, SecretInv, ApiTypeOK
<1>4. Refers(o) => SecretKept
  BY <1>1, <1>2 DEF SecretInv, Outside
<1> QED
  BY <1>2, <1>3, <1>4, ObjectStep

\* The cache catches up.
LEMMA SyncKeeps ==
    ASSUME SecretInv, NEW x \in Cached, Sync(x)
    PROVE  SecretInv'
<1>1. /\ UNCHANGED <<object, request, cleanups, secret>>
      /\ \/ UNCHANGED cache
         \/ x \in Kinds /\ cache' = [cache EXCEPT ![x] = object[x]]
  BY DEF Sync, Cached
<1>2. ApiTypeOK'
  BY <1>1 DEF SecretInv, ApiTypeOK
<1>3. \A k \in Kinds : cache'[k] = cache[k] \/ cache'[k] = object[k]
  BY <1>1 DEF SecretInv, ApiTypeOK
<1> QED
  BY <1>1, <1>2, <1>3 DEF SecretInv, Refers, SecretKept

\* Every step of the operator's API.
LEMMA ApiKeeps ==
    ASSUME ApiAssumption, SecretInv, ApiNext
    PROVE  SecretInv'
<1>1. ASSUME NEW c \in Clients,
             \/ Decode(c) \/ CreateAdoToGitMigration(c) \/ CreateWorkItemMigration(c)
             \/ CreateMonoRepoMigration(c)
      PROVE  SecretInv'
  BY <1>1, CreationKeeps DEF CreateAdoToGitMigration, CreateWorkItemMigration,
                             CreateMonoRepoMigration
<1> QED
  BY <1>1, SyncKeeps, OrdersKeep, DeletionKeeps, AdoPhaseKeeps DEF ApiNext

\* The API starts without objects.
LEMMA ApiStarts ==
    ASSUME ApiInit
    PROVE  SecretInv
<1>1. ApiTypeOK
  BY NoneIsMigration DEF ApiInit, ApiTypeOK
<1>2. \A k \in Kinds : object[k] = None /\ cache[k] = None
  BY DEF ApiInit
<1>3. \A c \in Clients : request[c].at = "decode"
  BY DEF ApiInit
<1> QED
  BY <1>1, <1>2, <1>3, NoneIsMigration DEF SecretInv

-----------------------------------------------------------------------------
(* An order finds the migration in the phase that its handler has seen.    *)

\* What the cache shows of an object is the object, when it is the latest version.
Coherent == \A k \in Kinds : k \in synced => cache[k] = object[k]

\* A step that leaves the cache alone, and after which the cache shows the latest version of an object only
\* if it did before and the object is what it was.
Quiet ==
    /\ UNCHANGED cache
    /\ \A k \in Kinds : k \in synced' => k \in synced /\ object'[k] = object[k]

\* Writing an object makes its cached copy an outdated one.
LEMMA SaveIsQuiet ==
    ASSUME ApiTypeOK, NEW k, NEW o, Save(k, o), UNCHANGED cache
    PROVE  Quiet
<1>1. \A j \in Kinds : object'[j] = IF j = k THEN o ELSE object[j]
  BY DEF Save, ApiTypeOK
<1>2. CASE o = object[k]
  BY <1>1, <1>2 DEF Save, Quiet
<1>3. CASE o # object[k]
  BY <1>1, <1>3 DEF Save, Quiet
<1> QED
  BY <1>2, <1>3

\* Only the synchronisation of the cache is not quiet.
LEMMA StepsAreQuiet ==
    ASSUME ApiTypeOK, ApiNext, \A x \in Cached : ~Sync(x)
    PROVE  Quiet
<1>1. ASSUME NEW c \in Clients, CreateObject(c)
      PROVE  Quiet
  <2>1. CASE UNCHANGED <<object, synced>>
    BY <1>1, <2>1 DEF CreateObject, Quiet
  <2>2. CASE \E k, o : Save(k, o)
    <3>1. UNCHANGED cache
      BY <1>1 DEF CreateObject
    <3> QED
      BY <2>2, <3>1, SaveIsQuiet
  <2> QED
    BY <1>1, <2>1, <2>2 DEF CreateObject
<1>2. ASSUME NEW c \in Clients, Decode(c) \/ CreateSecret(c) \/ UpdateSecret(c)
      PROVE  Quiet
  BY <1>2 DEF Decode, CreateSecret, UpdateSecret, SaveSecret, Quiet
<1>3. ASSUME NEW o, Updated(o)
      PROVE  Quiet
  BY <1>3, SaveIsQuiet DEF Updated
<1>4. ASSUME NEW k \in Kinds, DeleteObject(k)
      PROVE  Quiet
  BY <1>4, SaveIsQuiet DEF DeleteObject
<1>5. ASSUME NEW k \in Kinds, Finalize(k)
      PROVE  Quiet
  <2>1. UNCHANGED cache /\ synced' \subseteq synced \ {k}
    BY <1>5 DEF Finalize, Cleanup
  <2>2. \A j \in Kinds : j # k => object'[j] = object[j]
    BY <1>5 DEF Finalize, ApiTypeOK
  <2> QED
    BY <2>1, <2>2 DEF Quiet
<1>6. CASE AdoPhase \/ Trigger
  <2>1. PICK o \in Migration : Outside(o)
    BY <1>6, ControllerWrites
  <2>2. Save(Ado, o) /\ UNCHANGED cache
    BY <2>1 DEF Outside
  <2> QED
    BY <2>1, <2>2, SaveIsQuiet
<1>7. ASSUME PauseMigration \/ ResumeMigration \/ CancelMigration \/ RetryMigration \/ UpdateMigration
      PROVE  Quiet
  BY <1>3, <1>7 DEF PauseMigration, ResumeMigration, CancelMigration, RetryMigration, UpdateMigration
<1>8. ASSUME NEW c \in Clients,
             \/ CreateAdoToGitMigration(c) \/ CreateWorkItemMigration(c) \/ CreateMonoRepoMigration(c)
      PROVE  Quiet
  BY <1>1, <1>2, <1>8
  DEF CreateAdoToGitMigration, CreateWorkItemMigration, CreateMonoRepoMigration
<1> QED
  BY <1>2, <1>4, <1>5, <1>6, <1>7, <1>8 DEF ApiNext

\* Every step keeps the cache coherent.
LEMMA CoherentKeeps ==
    ASSUME ApiTypeOK, Coherent, ApiNext
    PROVE  Coherent'
<1>1. ASSUME NEW x \in Cached, Sync(x)
      PROVE  Coherent'
  <2>1. UNCHANGED object /\ synced' = synced \cup {x}
    BY <1>1 DEF Sync
  <2>2. CASE x = "secret"
    <3>1. x \notin Kinds
      BY <2>2 DEF Kinds
    <3> QED
      BY <1>1, <2>1, <2>2, <3>1 DEF Sync, Coherent
  <2>3. CASE x # "secret"
    <3>1. \A j \in Kinds : cache'[j] = IF j = x THEN object[j] ELSE cache[j]
      BY <1>1, <2>3 DEF Sync, ApiTypeOK
    <3> QED
      BY <2>1, <3>1 DEF Coherent
  <2> QED
    BY <2>2, <2>3
<1>2. CASE \A x \in Cached : ~Sync(x)
  <2>1. Quiet
    BY <1>2, StepsAreQuiet
  <2> QED
    BY <2>1 DEF Quiet, Coherent
<1> QED
  BY <1>1, <1>2

\* An order that is accepted finds the object as the handler has seen it.
LEMMA UpdatedFits ==
    ASSUME ApiTypeOK, Coherent, NEW o, Updated(o)
    PROVE  cache[Ado] = object[Ado] /\ object'[Ado] = o
BY DEF Updated, Save, Coherent, ApiTypeOK, Ado, Kinds

\* A step that leaves the annotations of the object alone fits its phase.
LEMMA SameNotesFit ==
    ASSUME object[Ado].exists /\ object'[Ado].exists => object'[Ado].notes = object[Ado].notes
    PROVE  FitsPhase
BY DEF FitsPhase

\* Every step fits the phase.
LEMMA StepsFit ==
    ASSUME ApiTypeOK, Coherent, ApiNext
    PROVE  FitsPhase
<1>0. Ado \in Kinds /\ object[Ado] \in Migration /\ cache[Ado] \in Migration
  BY DEF ApiTypeOK, Ado, Kinds
<1>1. CASE PauseMigration
  <2>1. Updated(Note("pause")) /\ cache[Ado].phase = "Running"
    BY <1>1 DEF PauseMigration
  <2>2. cache[Ado] = object[Ado] /\ object'[Ado] = Note("pause")
    BY <2>1, UpdatedFits
  <2>3. object'[Ado].notes = object[Ado].notes \cup {"pause"}
    BY <1>0, <2>2 DEF Note, Migration
  <2> QED
    BY <2>1, <2>2, <2>3 DEF FitsPhase
<1>2. CASE ResumeMigration
  <2> DEFINE n == cache[Ado].notes \ {"pause"}
  <2>1. Updated([cache[Ado] EXCEPT !.notes = n]) /\ cache[Ado].phase = "Paused"
    BY <1>2 DEF ResumeMigration
  <2> HIDE DEF n
  <2>2. cache[Ado] = object[Ado] /\ object'[Ado] = [cache[Ado] EXCEPT !.notes = n]
    BY <2>1, UpdatedFits
  <2>3. object'[Ado].notes = n
    BY <1>0, <2>2 DEF Migration
  <2>4. object'[Ado].notes = object[Ado].notes \ {"pause"}
    BY <2>2, <2>3 DEF n
  <2> QED
    BY <2>1, <2>2, <2>4 DEF FitsPhase
<1>3. CASE CancelMigration
  <2>1. Updated(Note("cancel")) /\ cache[Ado].phase \notin Terminal
    BY <1>3 DEF CancelMigration
  <2>2. cache[Ado] = object[Ado] /\ object'[Ado] = Note("cancel")
    BY <2>1, UpdatedFits
  <2>3. object'[Ado].notes = object[Ado].notes \cup {"cancel"}
    BY <1>0, <2>2 DEF Note, Migration
  <2> QED
    BY <2>1, <2>2, <2>3 DEF FitsPhase
<1>4. CASE RetryMigration
  <2>1. Updated(Note("retry")) /\ cache[Ado].phase = "Failed"
    BY <1>4 DEF RetryMigration
  <2>2. cache[Ado] = object[Ado] /\ object'[Ado] = Note("retry")
    BY <2>1, UpdatedFits
  <2>3. object'[Ado].notes = object[Ado].notes \cup {"retry"}
    BY <1>0, <2>2 DEF Note, Migration
  <2> QED
    BY <2>1, <2>2, <2>3 DEF FitsPhase
<1>5. CASE UpdateMigration
  <2> DEFINE n == cache[Ado].gen + 1
  <2>1. Updated([cache[Ado] EXCEPT !.gen = n])
    BY <1>5 DEF UpdateMigration
  <2> HIDE DEF n
  <2>2. cache[Ado] = object[Ado] /\ object'[Ado] = [cache[Ado] EXCEPT !.gen = n]
    BY <2>1, UpdatedFits
  <2>3. object'[Ado].notes = object[Ado].notes
    BY <1>0, <2>2 DEF Migration
  <2> QED
    BY <2>3, SameNotesFit
<1>6. ASSUME NEW c \in Clients, CreateObject(c)
      PROVE  FitsPhase
  <2>1. CASE UNCHANGED object
    BY <2>1, SameNotesFit
  <2>2. CASE ~object[request[c].kind].exists /\ \E o : Save(request[c].kind, o)
    <3>1. object[Ado].exists => object'[Ado] = object[Ado]
      BY <1>0, <2>2 DEF Save, ApiTypeOK
    <3> QED
      BY <3>1, SameNotesFit
  <2> QED
    BY <1>6, <2>1, <2>2 DEF CreateObject
<1>7. ASSUME NEW k \in Kinds, DeleteObject(k)
      PROVE  FitsPhase
  <2> DEFINE n == object[k].gen + 1
  <2>1. object' = [object EXCEPT ![k] = [object[k] EXCEPT !.deleting = TRUE, !.gen = n]]
    BY <1>7 DEF DeleteObject, Save
  <2> HIDE DEF n
  <2>2. object'[Ado].notes = object[Ado].notes
    BY <1>0, <2>1 DEF ApiTypeOK, Migration
  <2> QED
    BY <2>2, SameNotesFit
<1>8. ASSUME NEW k \in Kinds, Finalize(k)
      PROVE  FitsPhase
  <2>1. object' = [object EXCEPT ![k] = None] /\ ~None.exists
    BY <1>8 DEF Finalize, None
  <2>2. object'[Ado] = object[Ado] \/ ~object'[Ado].exists
    BY <1>0, <2>1 DEF ApiTypeOK
  <2> QED
    BY <2>2, SameNotesFit
<1>9. CASE AdoPhase \/ Trigger
  <2>1. PICK o \in Migration : Outside(o)
    BY <1>9, ControllerWrites
  <2>2. object'[Ado] = o
    BY <1>0, <2>1 DEF Outside, Save, ApiTypeOK
  <2>3. \A note \in Annotations \ {"reconcile-trigger"} :
           note \in object'[Ado].notes <=> note \in object[Ado].notes
    BY <2>1, <2>2 DEF Outside
  <2>4. \A note \in {"pause", "cancel", "retry"} : note \in Annotations \ {"reconcile-trigger"}
    BY DEF Annotations
  <2> QED
    BY <2>3, <2>4 DEF FitsPhase
<1>10. ASSUME \/ \E x \in Cached : Sync(x)
              \/ \E c \in Clients : Decode(c) \/ CreateSecret(c) \/ UpdateSecret(c)
       PROVE  FitsPhase
  <2>1. UNCHANGED object
    BY <1>10 DEF Sync, Decode, CreateSecret, UpdateSecret
  <2> QED
    BY <2>1, SameNotesFit
<1>11. ASSUME NEW c \in Clients,
              \/ CreateAdoToGitMigration(c) \/ CreateWorkItemMigration(c) \/ CreateMonoRepoMigration(c)
       PROVE  FitsPhase
  BY <1>6, <1>10, <1>11
  DEF CreateAdoToGitMigration, CreateWorkItemMigration, CreateMonoRepoMigration
<1> QED
  BY <1>1, <1>2, <1>3, <1>4, <1>5, <1>7, <1>8, <1>9, <1>10, <1>11 DEF ApiNext

\* Nothing is created yet, and the cache shows it.
LEMMA CoherentStarts ==
    ASSUME ApiInit
    PROVE  Coherent
BY DEF ApiInit, Coherent

-----------------------------------------------------------------------------
(* The credentials of a migration of the platform.                         *)

Data == [Keys -> Requests \cup {Stored, Absent}]

Secret == [type : {"", "ado_pat", "azure_sp", "github_token", "github_app"},
           writer : Requests \cup {Stored}, data : Data, version : Nat]

Seen == [secret : Secret, more : Data, valid : BOOLEAN]

Places == {"new", "start", "write", "type", "github", "creds", "row", "found", "done", "failed"}

Job == [ask : Jobs \cup {Idle}, at : Places, seen : Seen]

PlatformTypeOK ==
    /\ vault \in [Names -> Secret]
    /\ rows \in [Requests -> {"none", "Pending", "Running", "Paused", "Cancelled"}]
    /\ creds \in [Requests -> [ado : Data, github : Data]]
    /\ job \in [Requests -> Job]
    /\ withdrawn \subseteq Requests
    /\ refusals \in Nat

\* A secret that is there has a key.
Filled(data) == \E k \in Keys : data[k] # Absent

VaultFilled == \A n \in Names : Exists(n) => Filled(vault[n].data)

\* The creation of m has written its row.
Made(m) == Does(m, "create", "done")

Deletes(r, m) == Does(r, "delete", "row") /\ job[r].ask.target = m

\* A creation that goes on has read a key, a deletion that goes on has withdrawn its target.
Prepared(r) ==
    /\ Does(r, "create", "github") \/ Does(r, "create", "creds") => Filled(job[r].seen.secret.data)
    /\ Does(r, "delete", "found") \/ Does(r, "delete", "row") => job[r].ask.target \in withdrawn

\* What is in the table or withdrawn has been made; what has been made keeps its credentials until
\* it is withdrawn; and a call has failed where credentials are left.
Matched(m) ==
    /\ rows[m] # "none" \/ m \in withdrawn => Made(m)
    /\ client /\ (Does(m, "create", "row") \/ Made(m)) /\ m \notin withdrawn => HasCreds(m)
    /\ HasCreds(m) /\ rows[m] = "none" => Does(m, "create", "row") \/ refusals > 0
    /\ \A r \in Requests : Deletes(r, m) => ~HasCreds(m) \/ refusals > 0

\* The inductive invariant of CredentialsMatch.
PlatformInv ==
    /\ PlatformTypeOK /\ VaultFilled
    /\ \A r \in Requests : Prepared(r) /\ Matched(r)

\* What the parts of a job are.
LEMMA JobParts ==
    ASSUME NEW j \in Jobs \cup {Idle}
    PROVE  /\ j.op = "store" => /\ j.name \in Names /\ j.keys \in SUBSET Keys /\ j.keys # {}
                                /\ j.type \in {"ado_pat", "azure_sp", "github_token", "github_app"}
           /\ j.op \in {"drop", "validate"} => j.name \in Names
           /\ j.op \in Actions \cup {"delete"} => j.target \in Requests
<1>1. CASE j = Idle
  BY <1>1 DEF Idle, Actions
<1>2. ASSUME NEW n \in Names,
             j \in [op : {"store"}, name : {n}, type : ValidSecretTypes[n],
                    keys : {{"token"}, {"id"}, {"id", "secret"}}]
      PROVE  /\ j.op = "store" /\ j.name \in Names /\ j.keys \in SUBSET Keys /\ j.keys # {}
             /\ j.type \in {"ado_pat", "azure_sp", "github_token", "github_app"}
  <2>1. ValidSecretTypes[n] \subseteq {"ado_pat", "azure_sp", "github_token", "github_app"}
    BY DEF ValidSecretTypes, Names
  <2>2. \A K \in {{"token"}, {"id"}, {"id", "secret"}} : K \in SUBSET Keys /\ K # {}
    BY DEF Keys
  <2> QED
    BY <1>2, <2>1, <2>2
<1>3. CASE j \in [op : {"drop", "validate"}, name : Names]
  BY <1>3 DEF Actions
<1>4. CASE j \in [op : {"create"}]
  BY <1>4 DEF Actions
<1>5. CASE j \in [op : Actions \cup {"delete"}, target : Requests]
  BY <1>5 DEF Actions
<1>6. CASE \E n \in Names : j \in [op : {"store"}, name : {n}, type : ValidSecretTypes[n],
                                   keys : {{"token"}, {"id"}, {"id", "secret"}}]
  BY <1>2, <1>6 DEF Actions
<1>7. \/ j = Idle \/ j \in [op : {"drop", "validate"}, name : Names] \/ j \in [op : {"create"}]
      \/ j \in [op : Actions \cup {"delete"}, target : Requests]
      \/ \E n \in Names : j \in [op : {"store"}, name : {n}, type : ValidSecretTypes[n],
                                keys : {{"token"}, {"id"}, {"id", "secret"}}]
  <2> DEFINE S(n) == [op : {"store"}, name : {n}, type : ValidSecretTypes[n],
                      keys : {{"token"}, {"id"}, {"id", "secret"}}]
             A == [op : {"drop", "validate"}, name : Names]
             B == [op : {"create"}]
             C == [op : Actions \cup {"delete"}, target : Requests]
             D == UNION {S(n) : n \in Names}
  <2>1. Jobs = D \cup A \cup B \cup C
    BY DEF Jobs
  <2>2. j \in D => \E n \in Names : j \in S(n)
    <3> HIDE DEF S
    <3> QED
      OBVIOUS
  <2>3. j = Idle \/ j \in A \/ j \in B \/ j \in C \/ j \in D
    <3> HIDE DEF A, B, C, D
    <3> QED
      BY <2>1
  <2> QED
    BY <2>2, <2>3, Zenon
<1> QED
  BY <1>1, <1>3, <1>4, <1>5, <1>6, <1>7

\* A request goes on.
LEMMA ToEffect ==
    ASSUME PlatformTypeOK, NEW r \in Requests, NEW at \in Places, To(r, at)
    PROVE  /\ job' \in [Requests -> Job] /\ \A q \in Requests \ {r} : job'[q] = job[q]
           /\ job'[r].ask = job[r].ask /\ job'[r].at = at /\ job'[r].seen = job[r].seen
BY DEF To, PlatformTypeOK, Job

\* A request goes on with what it has read.
LEMMA KeepEffect ==
    ASSUME PlatformTypeOK, NEW r \in Requests, NEW at \in Places, NEW x \in Seen, Keep(r, at, x)
    PROVE  /\ job' \in [Requests -> Job] /\ \A q \in Requests \ {r} : job'[q] = job[q]
           /\ job'[r].ask = job[r].ask /\ job'[r].at = at /\ job'[r].seen = x
<1> DEFINE j == [job[r] EXCEPT !.at = at, !.seen = x]
<1>1. job[r] \in Job
  BY DEF PlatformTypeOK
<1>2. j \in Job /\ j.ask = job[r].ask /\ j.at = at /\ j.seen = x
  BY <1>1 DEF Job
<1>3. job' = [job EXCEPT ![r] = j]
  BY DEF Keep
<1> HIDE DEF j
<1> QED
  BY <1>2, <1>3 DEF PlatformTypeOK

\* Empty data, and a request that has read nothing.
LEMMA BlankType ==
    NoData \in Data /\ NoSecret \in Secret /\ Blank \in Seen /\ NoCreds \in [ado : Data, github : Data]
<1>1. NoData \in Data
  BY DEF NoData, Data
<1>2. NoSecret \in Secret
  BY <1>1 DEF NoSecret, Secret
<1> QED
  BY <1>1, <1>2 DEF Blank, Seen, NoCreds

\* The invariant from the parts that the request r can disturb.
LEMMA JobStep ==
    ASSUME PlatformInv, NEW r \in Requests, PlatformTypeOK', VaultFilled',
           \A q \in Requests \ {r} : job'[q] = job[q], withdrawn \subseteq withdrawn',
           Prepared(r)', \A m \in Requests : Matched(m)'
    PROVE  PlatformInv'
<1>1. ASSUME NEW q \in Requests, q # r PROVE Prepared(q)'
  BY <1>1 DEF PlatformInv, Prepared, Does
<1> QED
  BY <1>1 DEF PlatformInv

\* A request that neither creates nor deletes anything yet leaves every migration as it is.
LEMMA MatchedKept ==
    ASSUME PlatformInv, NEW r \in Requests, UNCHANGED <<client, rows, creds, withdrawn>>,
           refusals' \in Nat, refusals <= refusals',
           \A q \in Requests \ {r} : job'[q] = job[q], job[r].at # "done",
           Does(r, "create", "row") => refusals' > 0,
           ~Does(r, "create", "row")', ~Does(r, "create", "done")', ~Does(r, "delete", "row")',
           NEW m \in Requests
    PROVE  Matched(m)'
<1>1. Matched(m) /\ refusals \in Nat
  BY DEF PlatformInv, PlatformTypeOK
<1>2. refusals > 0 => refusals' > 0
  BY <1>1
<1>3. HasCreds(m)' = HasCreds(m)
  BY DEF HasCreds
<1>4. CASE m # r
  <2>1. job'[m] = job[m]
    BY <1>4
  <2>2. (Does(m, "create", "row")' <=> Does(m, "create", "row")) /\ (Made(m)' <=> Made(m))
    BY <2>1 DEF Does, Made
  <2>3. \A q \in Requests : Deletes(q, m)' => Deletes(q, m)
    BY DEF Deletes, Does
  <2> QED
    BY <1>1, <1>2, <1>3, <2>2, <2>3 DEF Matched
<1>5. CASE m = r
  <2>1. ~Made(r) /\ ~Made(r)'
    BY DEF Made, Does
  <2>2. \A q \in Requests : Deletes(q, m)' => Deletes(q, m)
    BY DEF Deletes, Does
  <2> QED
    BY <1>1, <1>2, <1>3, <1>5, <2>1, <2>2 DEF Matched
<1> QED
  BY <1>4, <1>5

\* A request that leaves the table and the credentials as they are.
LEMMA VaultStep ==
    ASSUME PlatformInv, NEW r \in Requests, UNCHANGED <<client, rows, creds, withdrawn>>,
           vault' \in [Names -> Secret], VaultFilled',
           refusals' \in Nat, refusals <= refusals', job' \in [Requests -> Job],
           \A q \in Requests \ {r} : job'[q] = job[q], job[r].at # "done",
           Does(r, "create", "row") => refusals' > 0,
           job'[r].at \notin {"row", "done", "found"} \/ job'[r].ask.op \notin {"create", "delete"},
           job'[r].ask.op = "create" /\ job'[r].at \in {"github", "creds"}
              => Filled(job'[r].seen.secret.data)
    PROVE  PlatformInv'
<1>1. PlatformTypeOK'
  BY DEF PlatformInv, PlatformTypeOK
<1>2. Prepared(r)'
  BY DEF Prepared, Does
<1>3. ~Does(r, "create", "row")' /\ ~Does(r, "create", "done")' /\ ~Does(r, "delete", "row")'
  BY DEF Does
<1>4. \A m \in Requests : Matched(m)'
  BY <1>3, MatchedKept
<1> QED
  BY <1>1, <1>2, <1>4, JobStep

\* A request that only reads.
LEMMA ReadStep ==
    ASSUME PlatformInv, NEW r \in Requests, UNCHANGED <<client, vault, rows, creds, withdrawn>>,
           refusals' \in Nat, refusals <= refusals', job' \in [Requests -> Job],
           \A q \in Requests \ {r} : job'[q] = job[q], job[r].at # "done",
           Does(r, "create", "row") => refusals' > 0,
           job'[r].at \notin {"row", "done", "found"} \/ job'[r].ask.op \notin {"create", "delete"},
           job'[r].ask.op = "create" /\ job'[r].at \in {"github", "creds"}
              => Filled(job'[r].seen.secret.data)
    PROVE  PlatformInv'
<1>1. vault' \in [Names -> Secret] /\ VaultFilled'
  BY DEF PlatformInv, PlatformTypeOK, VaultFilled, Exists
<1> QED
  BY <1>1, VaultStep

\* The steps that read, and the failures.
LEMMA ReadsKeep ==
    ASSUME PlatformInv, NEW r \in Requests,
           \/ Accept(r) \/ Refuse(r) \/ StoreGet(r) \/ ValidateGet(r) \/ ValidateType(r)
           \/ ResolveAdo(r) \/ ResolveGitHub(r)
    PROVE  PlatformInv'
<1>0. /\ PlatformTypeOK /\ VaultFilled /\ job[r] \in Job /\ refusals \in Nat
      /\ job[r].ask \in Jobs \cup {Idle} /\ job[r].seen \in Seen
  BY DEF PlatformInv, PlatformTypeOK, Job
<1>1. ASSUME NEW s \in Secret PROVE [Blank EXCEPT !.secret = s] \in Seen
  BY BlankType DEF Seen
<1>2. \A n \in Names : vault[n] \in Secret
  BY <1>0 DEF PlatformTypeOK
<1>3. ASSUME NEW at \in {"write", "type", "github", "creds", "failed"}, NEW x \in Seen, Keep(r, at, x),
             UNCHANGED <<client, vault, rows, creds, withdrawn, refusals>>,
             job[r].at \notin {"done", "row"},
             job[r].ask.op = "create" /\ at \in {"github", "creds"} => Filled(x.secret.data)
      PROVE  PlatformInv'
  <2>1. /\ job' \in [Requests -> Job] /\ \A q \in Requests \ {r} : job'[q] = job[q]
        /\ job'[r].ask = job[r].ask /\ job'[r].at = at /\ job'[r].seen = x
    BY <1>0, <1>3, KeepEffect DEF Places
  <2>2. ~Does(r, "create", "row")
    BY <1>3 DEF Does
  <2> QED
    BY <1>0, <1>3, <2>1, <2>2, ReadStep
<1>4. ASSUME To(r, "failed"), UNCHANGED <<client, vault, rows, creds, withdrawn>>,
             refusals' \in Nat, refusals <= refusals', job[r].at # "done",
             job[r].at = "row" => refusals' > 0
      PROVE  PlatformInv'
  <2>1. /\ job' \in [Requests -> Job] /\ \A q \in Requests \ {r} : job'[q] = job[q]
        /\ job'[r].ask = job[r].ask /\ job'[r].at = "failed"
    BY <1>0, <1>4, ToEffect DEF Places
  <2>2. Does(r, "create", "row") => refusals' > 0
    BY <1>4 DEF Does
  <2> QED
    BY <1>4, <2>1, <2>2, ReadStep
<1>5. CASE Accept(r)
  <2>1. PICK j \in Jobs : job' = [job EXCEPT ![r] = [ask |-> j, at |-> "start", seen |-> Blank]]
    BY <1>5 DEF Accept
  <2> DEFINE new == [ask |-> j, at |-> "start", seen |-> Blank]
  <2>2. new \in Job /\ new.at = "start"
    BY BlankType DEF Job, Places
  <2> HIDE DEF new
  <2>3. job' \in [Requests -> Job] /\ job'[r] = new /\ \A q \in Requests \ {r} : job'[q] = job[q]
    BY <1>0, <2>1, <2>2 DEF PlatformTypeOK, new
  <2>4. job[r].at = "new" /\ UNCHANGED <<client, vault, rows, creds, withdrawn, refusals>>
    BY <1>5 DEF Accept
  <2>5. ~Does(r, "create", "row")
    BY <2>4 DEF Does
  <2> QED
    BY <1>0, <2>2, <2>3, <2>4, <2>5, ReadStep
<1>6. CASE Refuse(r)
  <2>1. /\ To(r, "failed") /\ UNCHANGED <<client, vault, rows, creds, withdrawn>>
        /\ refusals' = refusals + 1 /\ job[r].at # "done"
    BY <1>6 DEF Refuse
  <2> QED
    BY <1>0, <1>4, <2>1
<1>7. CASE StoreGet(r)
  <2>1. /\ Keep(r, "write", [Blank EXCEPT !.secret = vault[Ask(r).name]])
        /\ job[r].ask.op = "store" /\ job[r].at = "start"
        /\ UNCHANGED <<client, vault, rows, creds, withdrawn, refusals>>
    BY <1>7 DEF StoreGet, Does
  <2>2. [Blank EXCEPT !.secret = vault[Ask(r).name]] \in Seen
    BY <1>0, <1>1, <1>2, <2>1, JobParts DEF Ask
  <2> QED
    BY <1>3, <2>1, <2>2
<1>8. CASE ValidateGet(r)
  <2>1. /\ \/ Keep(r, "type", [Blank EXCEPT !.secret = vault[Ask(r).name]])
           \/ To(r, "failed")
        /\ job[r].ask.op = "validate" /\ job[r].at = "start"
        /\ UNCHANGED <<client, vault, rows, creds, withdrawn, refusals>>
    BY <1>8 DEF ValidateGet, Does
  <2>2. [Blank EXCEPT !.secret = vault[Ask(r).name]] \in Seen
    BY <1>0, <1>1, <1>2, <2>1, JobParts DEF Ask
  <2> QED
    BY <1>0, <1>3, <1>4, <2>1, <2>2
<1>9. CASE ValidateType(r)
  <2>1. /\ job[r].ask.op = "validate" /\ job[r].at = "type"
        /\ UNCHANGED <<client, vault, rows, creds, withdrawn, refusals>>
    BY <1>9 DEF ValidateType, Does
  <2>2. CASE To(r, "failed")
    BY <1>0, <1>4, <2>1, <2>2
  <2>3. CASE Exists(Ask(r).name)
    <3>1. PICK valid \in Verdicts(vault[Ask(r).name].type, job[r].seen.secret.data) :
              Keep(r, "done", [Blank EXCEPT !.valid = valid])
      BY <1>9, <2>3 DEF ValidateType
    <3>2. Ask(r).name \in Names
      BY <1>0, <2>1, JobParts DEF Ask
    <3>3. vault[Ask(r).name].type \in {"ado_pat", "azure_sp", "github_token", "github_app"}
      BY <1>2, <2>3, <3>2 DEF Exists, Secret
    <3>4. valid \in BOOLEAN
      BY <3>1, <3>3 DEF Verdicts, ValidateADOPAT, ValidateGitHubToken, ValidateGitHubApp, ValidateAzureSP
    <3>5. [Blank EXCEPT !.valid = valid] \in Seen
      BY <3>4, BlankType DEF Seen
    <3>6. /\ job' \in [Requests -> Job] /\ \A q \in Requests \ {r} : job'[q] = job[q]
          /\ job'[r].ask = job[r].ask
      BY <1>0, <3>1, <3>5, KeepEffect DEF Places
    <3>7. ~Does(r, "create", "row")
      BY <2>1 DEF Does
    <3> QED
      BY <1>0, <2>1, <3>6, <3>7, ReadStep
  <2> QED
    BY <1>9, <2>2, <2>3 DEF ValidateType
<1>10. CASE ResolveAdo(r)
  <2>1. /\ \/ Exists("ado") /\ Keep(r, "github", [Blank EXCEPT !.secret = vault["ado"]])
           \/ To(r, "failed")
        /\ job[r].at = "start"
        /\ UNCHANGED <<client, vault, rows, creds, withdrawn, refusals>>
    BY <1>10 DEF ResolveAdo, Does
  <2> DEFINE x == [Blank EXCEPT !.secret = vault["ado"]]
  <2>2. "ado" \in Names
    BY DEF Names
  <2>3. x \in Seen /\ x.secret = vault["ado"]
    BY <1>1, <1>2, <2>2, BlankType DEF Seen
  <2>4. Exists("ado") => Filled(x.secret.data)
    BY <1>0, <2>2, <2>3 DEF VaultFilled
  <2>5. CASE Exists("ado") /\ Keep(r, "github", x)
    <3> HIDE DEF x
    <3> QED
      BY <1>3, <2>1, <2>3, <2>4, <2>5
  <2> QED
    BY <1>0, <1>4, <2>1, <2>5
<1>11. CASE ResolveGitHub(r)
  <2> DEFINE x == [job[r].seen EXCEPT !.more = vault["github"].data]
  <2>1. /\ Keep(r, "creds", x) \/ To(r, "failed")
        /\ Does(r, "create", "github") /\ job[r].at = "github"
        /\ UNCHANGED <<client, vault, rows, creds, withdrawn, refusals>>
    BY <1>11 DEF ResolveGitHub, Does
  <2>2. vault["github"].data \in Data
    BY <1>2 DEF Names, Secret
  <2>3. x \in Seen /\ x.secret = job[r].seen.secret
    BY <1>0, <2>2 DEF Seen
  <2>4. Filled(x.secret.data)
    BY <2>1, <2>3 DEF PlatformInv, Prepared
  <2> HIDE DEF x
  <2> QED
    BY <1>0, <1>3, <1>4, <2>1, <2>3, <2>4
<1> QED
  BY <1>5, <1>6, <1>7, <1>8, <1>9, <1>10, <1>11

\* A secret that is stored has a key of the request, and a deleted one is not there.
LEMMA SecretsKeep ==
    ASSUME PlatformAssumption, PlatformInv, NEW r \in Requests, StoreSecret(r) \/ DeleteSecret(r)
    PROVE  PlatformInv'
<1> DEFINE n == Ask(r).name
<1>0. /\ PlatformTypeOK /\ VaultFilled /\ job[r] \in Job /\ refusals \in Nat
      /\ job[r].ask \in Jobs \cup {Idle} /\ vault \in [Names -> Secret]
  BY DEF PlatformInv, PlatformTypeOK, Job
<1>1. /\ To(r, "done") \/ To(r, "failed")
      /\ job[r].ask.op \in {"store", "drop"} /\ job[r].at # "done"
      /\ UNCHANGED <<client, rows, creds, withdrawn, refusals>>
  BY DEF StoreSecret, DeleteSecret, Does, Ask
<1>2. n \in Names /\ vault[n] \in Secret /\ vault[n].version \in Nat /\ vault[n].data \in Data
  BY <1>0, <1>1, JobParts DEF Ask, Secret
<1>3. vault' \in [Names -> Secret] /\ VaultFilled'
  <2>1. CASE UNCHANGED vault
    BY <1>0, <2>1 DEF VaultFilled, Exists
  <2>2. CASE StoreSecret(r) /\ vault' = [vault EXCEPT ![n] = Merged(r, vault[n])]
    <3> DEFINE data == [k \in Keys |-> IF k \in Ask(r).keys THEN r ELSE vault[n].data[k]]
               version == vault[n].version + 1
               new == [type |-> Ask(r).type, writer |-> r, version |-> version, data |-> data]
    <3>1. /\ Ask(r).keys \in SUBSET Keys /\ Ask(r).keys # {}
          /\ Ask(r).type \in {"ado_pat", "azure_sp", "github_token", "github_app"}
      BY <1>0, <2>2, JobParts DEF StoreSecret, Does, Ask
    <3>2. data \in Data
      BY <1>2, <3>1 DEF Data
    <3>3. r # Absent
      BY DEF PlatformAssumption
    <3>4. Filled(data)
      BY <3>1, <3>3 DEF Filled
    <3>5. version \in Nat
      BY <1>2
    <3> HIDE DEF data, version
    <3>6. new \in Secret /\ new.data = data
      BY <3>1, <3>2, <3>5 DEF Secret
    <3>7. vault' = [vault EXCEPT ![n] = new]
      BY <2>2 DEF Merged, data, version
    <3> HIDE DEF new, n
    <3> QED
      BY <1>0, <1>2, <3>4, <3>6, <3>7 DEF VaultFilled, Exists
  <2>3. CASE vault' = [vault EXCEPT ![n] = [NoSecret EXCEPT !.version = @ + 1]]
    <3> DEFINE version == NoSecret.version + 1
               new == [NoSecret EXCEPT !.version = version]
    <3>1. NoSecret.type = "" /\ NoSecret.version = 0 /\ NoSecret \in Secret
      BY BlankType DEF NoSecret
    <3>2. version \in Nat
      <4>1. 0 + 1 \in Nat
        OBVIOUS
      <4> QED
        BY <3>1, <4>1
    <3>3. vault' = [vault EXCEPT ![n] = new]
      BY <2>3
    <3> HIDE DEF version
    <3>4. new \in Secret /\ new.type = ""
      BY <3>1, <3>2 DEF Secret
    <3> HIDE DEF new, n
    <3> QED
      BY <1>0, <1>2, <3>3, <3>4 DEF VaultFilled, Exists
  <2> QED
    BY <2>1, <2>2, <2>3 DEF StoreSecret, DeleteSecret
<1>4. /\ job' \in [Requests -> Job] /\ \A q \in Requests \ {r} : job'[q] = job[q]
      /\ job'[r].ask = job[r].ask
  BY <1>0, <1>1, ToEffect DEF Places
<1>5. ~Does(r, "create", "row")
  BY <1>1 DEF Does
<1> QED
  BY <1>0, <1>1, <1>3, <1>4, <1>5, VaultStep

\* Copies of secrets that are there are credentials.
LEMMA CopiedIsSomething ==
    ASSUME PlatformTypeOK, NEW r \in Requests, Filled(job[r].seen.secret.data)
    PROVE  Copied(r) \in [ado : Data, github : Data] /\ Copied(r) # NoCreds
<1>1. job[r].seen \in Seen
  BY DEF PlatformTypeOK, Job
<1>2. job[r].seen.secret.data \in Data /\ job[r].seen.more \in Data
  BY <1>1 DEF Seen, Secret
<1>3. job[r].seen.secret.data # NoData
  BY DEF Filled, NoData
<1> QED
  BY <1>2, <1>3 DEF Copied, NoCreds

\* The two writes of a creation: credentials, then the row.
LEMMA CreatesKeep ==
    ASSUME PlatformInv, NEW r \in Requests, EnsureK8sSecret(r) \/ CreateMigration(r)
    PROVE  PlatformInv'
<1>0. /\ PlatformTypeOK /\ VaultFilled /\ Prepared(r) /\ refusals \in Nat
      /\ UNCHANGED <<client, vault, withdrawn, refusals>>
      /\ \A m \in Requests : Matched(m) /\ HasCreds(m) \in BOOLEAN
  BY DEF PlatformInv, PlatformTypeOK, EnsureK8sSecret, CreateMigration, HasCreds
<1>1. VaultFilled'
  BY <1>0 DEF VaultFilled, Exists
<1>2. /\ job' \in [Requests -> Job] /\ \A q \in Requests \ {r} : job'[q] = job[q]
      /\ job'[r].ask = job[r].ask /\ job'[r].at \in {"row", "done"} /\ job[r].ask.op = "create"
  BY <1>0, ToEffect DEF EnsureK8sSecret, CreateMigration, Does, Ask, Places
<1>3. Prepared(r)'
  BY <1>2 DEF Prepared, Does
<1>4. rows[r] = "none" /\ r \notin withdrawn /\ ~Made(r)
  BY <1>0 DEF Matched, Made, Does, EnsureK8sSecret, CreateMigration
<1>5. ASSUME NEW m \in Requests
      PROVE  \A q \in Requests : Deletes(q, m)' => Deletes(q, m)
  BY <1>2 DEF Deletes, Does
<1>6. ASSUME NEW m \in Requests, m # r, creds'[m] = creds[m], rows'[m] = rows[m]
      PROVE  Matched(m)'
  <2>1. job'[m] = job[m]
    BY <1>2, <1>6
  <2>2. /\ Does(m, "create", "row")' <=> Does(m, "create", "row")
        /\ Made(m)' <=> Made(m)
        /\ HasCreds(m)' <=> HasCreds(m)
    BY <1>6, <2>1 DEF Does, Made, HasCreds
  <2> QED
    BY <1>0, <1>5, <1>6, <2>2 DEF Matched
<1>7. ASSUME NEW q \in Requests PROVE ~Deletes(q, r)
  BY <1>0, <1>4 DEF PlatformInv, Prepared, Deletes, Does
<1>8. CASE EnsureK8sSecret(r)
  <2>1. Does(r, "create", "creds") /\ rows' = rows
        /\ creds' = IF client THEN [creds EXCEPT ![r] = Copied(r)] ELSE creds
    BY <1>8 DEF EnsureK8sSecret
  <2>2. Copied(r) \in [ado : Data, github : Data] /\ Copied(r) # NoCreds
    BY <1>0, <2>1, CopiedIsSomething DEF Prepared
  <2>3. /\ creds' \in [Requests -> [ado : Data, github : Data]]
        /\ \A m \in Requests \ {r} : creds'[m] = creds[m]
        /\ client => HasCreds(r)'
    BY <1>0, <2>1, <2>2 DEF PlatformTypeOK, HasCreds, NoCreds, NoData
  <2>4. PlatformTypeOK'
    BY <1>0, <1>2, <2>1, <2>3 DEF PlatformTypeOK
  <2>5. Does(r, "create", "row")'
    <3>1. job'[r].at = "row"
      BY <1>0, <1>8, ToEffect DEF EnsureK8sSecret, Places
    <3> QED
      BY <1>2, <3>1 DEF Does
  <2>6. Matched(r)'
    BY <1>0, <1>4, <1>5, <1>7, <2>1, <2>3, <2>5 DEF Matched
  <2>7. \A m \in Requests : Matched(m)'
    BY <1>6, <2>1, <2>3, <2>6
  <2> QED
    BY <1>0, <1>1, <1>2, <1>3, <2>4, <2>7, JobStep
<1>9. CASE CreateMigration(r)
  <2>1. Does(r, "create", "row") /\ creds' = creds /\ rows' = [rows EXCEPT ![r] = "Pending"]
    BY <1>9 DEF CreateMigration
  <2>2. PlatformTypeOK' /\ rows'[r] = "Pending" /\ \A m \in Requests \ {r} : rows'[m] = rows[m]
    BY <1>0, <1>2, <2>1 DEF PlatformTypeOK
  <2>3. Made(r)'
    <3>1. job'[r].at = "done"
      BY <1>0, <1>9, ToEffect DEF CreateMigration, Places
    <3> QED
      BY <1>2, <3>1 DEF Made, Does
  <2>4. HasCreds(r)' <=> HasCreds(r)
    BY <2>1 DEF HasCreds
  <2>5. Matched(r)'
    BY <1>0, <1>4, <1>5, <1>7, <2>1, <2>2, <2>3, <2>4 DEF Matched
  <2>6. \A m \in Requests : Matched(m)'
    BY <1>6, <2>1, <2>2, <2>5
  <2> QED
    BY <1>0, <1>1, <1>2, <1>3, <2>2, <2>6, JobStep
<1> QED
  BY <1>8, <1>9

\* The orders and the two writes of a deletion are for what has been made.
LEMMA OrdersOfPlatformKeep ==
    ASSUME PlatformInv, NEW r \in Requests,
           GetByID(r) \/ UpdateStatus(r) \/ DeleteCreds(r) \/ RemoveMigration(r)
    PROVE  PlatformInv'
<1> DEFINE t == Ask(r).target
<1>0. /\ PlatformTypeOK /\ VaultFilled /\ Prepared(r) /\ refusals \in Nat
      /\ UNCHANGED <<client, vault>> /\ job[r] \in Job
      /\ \A m \in Requests : Matched(m)
  BY DEF PlatformInv, PlatformTypeOK, GetByID, UpdateStatus, DeleteCreds, RemoveMigration
<1>1. VaultFilled'
  BY <1>0 DEF VaultFilled, Exists
<1>2. job[r].ask.op \in Actions \cup {"delete"} /\ t \in Requests
  <2>1. job[r].ask.op \in Actions \cup {"delete"}
    BY DEF GetByID, UpdateStatus, DeleteCreds, RemoveMigration, Does, Ask
  <2>2. job[r].ask \in Jobs \cup {Idle}
    BY <1>0 DEF Job
  <2> QED
    BY <2>1, <2>2, JobParts DEF Ask
<1>3. ASSUME NEW at \in Places, To(r, at)
      PROVE  /\ job' \in [Requests -> Job] /\ \A q \in Requests \ {r} : job'[q] = job[q]
             /\ job'[r].ask = job[r].ask /\ job'[r].at = at
             /\ \A m \in Requests : /\ Does(m, "create", "row")' <=> Does(m, "create", "row")
                                    /\ Made(m)' <=> Made(m)
  <2>1. /\ job' \in [Requests -> Job] /\ \A q \in Requests \ {r} : job'[q] = job[q]
        /\ job'[r].ask = job[r].ask /\ job'[r].at = at
    BY <1>0, <1>3, ToEffect
  <2>2. job[r].ask.op # "create"
    BY <1>2 DEF Actions
  <2> QED
    BY <2>1, <2>2 DEF Does, Made
<1>4. CASE GetByID(r)
  <2> DEFINE at == IF rows[t] = "none" THEN "failed" ELSE "found"
  <2>1. /\ To(r, at) /\ UNCHANGED <<rows, creds, refusals>>
        /\ withdrawn' = IF Ask(r).op = "delete" /\ rows[t] # "none"
                        THEN withdrawn \cup {t} ELSE withdrawn
    BY <1>4 DEF GetByID
  <2>2. at \in Places /\ at \in {"failed", "found"} /\ (at = "found" => rows[t] # "none")
    BY DEF Places
  <2> HIDE DEF at
  <2>3. /\ job' \in [Requests -> Job] /\ \A q \in Requests \ {r} : job'[q] = job[q]
        /\ job'[r].ask = job[r].ask /\ job'[r].at = at
        /\ \A m \in Requests : /\ Does(m, "create", "row")' <=> Does(m, "create", "row")
                               /\ Made(m)' <=> Made(m)
    BY <1>3, <2>1, <2>2
  <2>4. withdrawn \subseteq withdrawn' /\ withdrawn' \subseteq withdrawn \cup {t}
        /\ (withdrawn' # withdrawn => rows[t] # "none")
    BY <2>1
  <2>5. PlatformTypeOK'
    BY <1>0, <1>2, <2>1, <2>3, <2>4 DEF PlatformTypeOK
  <2>6. Prepared(r)'
    BY <2>1, <2>2, <2>3 DEF Prepared, Does, Ask
  <2>7. ASSUME NEW m \in Requests PROVE Matched(m)'
    <3>1. \A q \in Requests : Deletes(q, m)' => Deletes(q, m)
      BY <2>2, <2>3 DEF Deletes, Does
    <3>2. HasCreds(m)' <=> HasCreds(m)
      BY <2>1 DEF HasCreds
    <3>3. m \in withdrawn' => m \in withdrawn \/ rows[m] # "none"
      BY <2>4
    <3> QED
      BY <1>0, <2>1, <2>3, <2>4, <3>1, <3>2, <3>3 DEF Matched
  <2> QED
    BY <1>1, <2>3, <2>4, <2>5, <2>6, <2>7, JobStep
<1>5. CASE UpdateStatus(r)
  <2>1. /\ To(r, "done") \/ To(r, "failed")
        /\ \/ UNCHANGED rows
           \/ rows[t] # "none" /\ rows' = [rows EXCEPT ![t] = StatusFor(Ask(r).op)]
        /\ UNCHANGED <<creds, withdrawn, refusals>> /\ Ask(r).op \in Actions
    BY <1>5 DEF UpdateStatus
  <2>2. /\ job' \in [Requests -> Job] /\ \A q \in Requests \ {r} : job'[q] = job[q]
        /\ job'[r].ask = job[r].ask /\ job'[r].at \in {"done", "failed"}
        /\ \A m \in Requests : /\ Does(m, "create", "row")' <=> Does(m, "create", "row")
                               /\ Made(m)' <=> Made(m)
    BY <1>3, <2>1 DEF Places
  <2>3. StatusFor(Ask(r).op) \in {"Paused", "Running", "Cancelled", "Pending"}
    BY <2>1 DEF StatusFor, Actions
  <2> DEFINE status == StatusFor(Ask(r).op)
  <2> HIDE DEF status
  <2>4. /\ rows' \in [Requests -> {"none", "Pending", "Running", "Paused", "Cancelled"}]
        /\ \A m \in Requests : rows'[m] = "none" <=> rows[m] = "none"
    BY <1>0, <1>2, <2>1, <2>3 DEF PlatformTypeOK
  <2>5. PlatformTypeOK'
    BY <1>0, <2>1, <2>2, <2>4 DEF PlatformTypeOK
  <2>6. Prepared(r)'
    BY <2>1, <2>2 DEF Prepared, Does, Ask, Actions
  <2>7. ASSUME NEW m \in Requests PROVE Matched(m)'
    <3>1. \A q \in Requests : Deletes(q, m)' => Deletes(q, m)
      BY <2>2 DEF Deletes, Does
    <3>2. HasCreds(m)' <=> HasCreds(m)
      BY <2>1 DEF HasCreds
    <3> QED
      BY <1>0, <2>1, <2>2, <2>4, <3>1, <3>2 DEF Matched
  <2> QED
    BY <1>1, <2>1, <2>2, <2>5, <2>6, <2>7, JobStep
<1>6. CASE DeleteCreds(r)
  <2>1. /\ Does(r, "delete", "found") /\ To(r, "row") /\ UNCHANGED <<rows, withdrawn>>
        /\ \/ creds' = [creds EXCEPT ![t] = NoCreds] /\ UNCHANGED refusals
           \/ refusals' = refusals + 1 /\ UNCHANGED creds
    BY <1>6 DEF DeleteCreds
  <2>2. /\ job' \in [Requests -> Job] /\ \A q \in Requests \ {r} : job'[q] = job[q]
        /\ job'[r].ask = job[r].ask /\ job'[r].at = "row"
        /\ \A m \in Requests : /\ Does(m, "create", "row")' <=> Does(m, "create", "row")
                               /\ Made(m)' <=> Made(m)
    BY <1>3, <2>1 DEF Places
  <2>3. t \in withdrawn
    BY <1>0, <2>1 DEF Prepared, Ask
  <2>4. /\ creds' \in [Requests -> [ado : Data, github : Data]]
        /\ \A m \in Requests \ {t} : creds'[m] = creds[m]
        /\ creds'[t] = NoCreds \/ (creds'[t] = creds[t] /\ refusals' > 0)
        /\ refusals' \in Nat /\ refusals <= refusals'
    BY <1>0, <1>2, <2>1, BlankType DEF PlatformTypeOK
  <2>5. PlatformTypeOK'
    BY <1>0, <2>1, <2>2, <2>4 DEF PlatformTypeOK
  <2>6. Prepared(r)'
    BY <2>1, <2>2, <2>3 DEF Prepared, Does, Ask
  <2>7. ASSUME NEW m \in Requests PROVE Matched(m)'
    <3>1. \A q \in Requests : Deletes(q, m)' => Deletes(q, m) \/ m = t
      BY <2>2 DEF Deletes, Does, Ask
    <3>2. CASE m = t
      <4>1. ~HasCreds(m)' \/ refusals' > 0
        BY <2>4, <3>2 DEF HasCreds
      <4> QED
        BY <1>0, <2>1, <2>2, <2>3, <3>2, <4>1 DEF Matched
    <3>3. CASE m # t
      <4>1. HasCreds(m)' <=> HasCreds(m)
        BY <2>4, <3>3 DEF HasCreds
      <4>2. refusals > 0 => refusals' > 0
        BY <1>0, <2>4
      <4> QED
        BY <1>0, <2>1, <2>2, <3>1, <3>3, <4>1, <4>2 DEF Matched
    <3> QED
      BY <3>2, <3>3
  <2> QED
    BY <1>1, <2>1, <2>2, <2>5, <2>6, <2>7, JobStep
<1>7. CASE RemoveMigration(r)
  <2>1. /\ Does(r, "delete", "row") /\ (To(r, "done") \/ To(r, "failed"))
        /\ UNCHANGED rows \/ rows' = [rows EXCEPT ![t] = "none"]
        /\ UNCHANGED <<creds, withdrawn, refusals>>
    BY <1>7 DEF RemoveMigration
  <2>2. /\ job' \in [Requests -> Job] /\ \A q \in Requests \ {r} : job'[q] = job[q]
        /\ job'[r].ask = job[r].ask /\ job'[r].at \in {"done", "failed"}
        /\ \A m \in Requests : /\ Does(m, "create", "row")' <=> Does(m, "create", "row")
                               /\ Made(m)' <=> Made(m)
    BY <1>3, <2>1 DEF Places
  <2>3. /\ rows' \in [Requests -> {"none", "Pending", "Running", "Paused", "Cancelled"}]
        /\ \A m \in Requests : rows'[m] = rows[m] \/ (m = t /\ rows'[m] = "none")
    BY <1>0, <1>2, <2>1 DEF PlatformTypeOK
  <2>4. ~HasCreds(t) \/ refusals > 0
    BY <1>0, <1>2, <2>1 DEF Matched, Deletes, Ask
  <2>5. PlatformTypeOK'
    BY <1>0, <2>1, <2>2, <2>3 DEF PlatformTypeOK
  <2>6. Prepared(r)'
    BY <2>1, <2>2 DEF Prepared, Does
  <2>7. ASSUME NEW m \in Requests PROVE Matched(m)'
    <3>1. \A q \in Requests : Deletes(q, m)' => Deletes(q, m)
      BY <2>2 DEF Deletes, Does
    <3>2. HasCreds(m)' <=> HasCreds(m)
      BY <2>1 DEF HasCreds
    <3> QED
      BY <1>0, <2>1, <2>2, <2>3, <2>4, <3>1, <3>2 DEF Matched
  <2> QED
    BY <1>1, <2>1, <2>2, <2>5, <2>6, <2>7, JobStep
<1> QED
  BY <1>4, <1>5, <1>6, <1>7

\* Every step of the platform.
LEMMA PlatformKeeps ==
    ASSUME PlatformAssumption, PlatformInv, PlatformNext
    PROVE  PlatformInv'
BY ReadsKeep, SecretsKeep, CreatesKeep, OrdersOfPlatformKeep DEF PlatformNext

\* The platform starts without migrations and with two secrets.
LEMMA PlatformStarts ==
    ASSUME PlatformAssumption, PlatformInit
    PROVE  PlatformInv
<1>1. vault \in [Names -> Secret] /\ VaultFilled
  <2> DEFINE data == [NoData EXCEPT !["token"] = Stored]
  <2>1. data \in Data /\ data["token"] = Stored
    BY DEF NoData, Data, Keys
  <2>2. Filled(data)
    BY <2>1 DEF Filled, Keys, PlatformAssumption
  <2>3. ASSUME NEW n \in Names PROVE vault[n] \in Secret /\ vault[n].data = data
    <3> DEFINE type == IF n = "ado" THEN "ado_pat" ELSE "github_token"
    <3>1. vault[n] = [type |-> type, writer |-> Stored, data |-> data, version |-> 0]
      BY <2>3 DEF PlatformInit, NoSecret
    <3> HIDE DEF data
    <3> QED
      BY <2>1, <3>1 DEF Secret
  <2>4. vault \in [Names -> Secret]
    BY <2>3 DEF PlatformInit
  <2> QED
    BY <2>2, <2>3, <2>4 DEF VaultFilled
<1>2. [ask |-> Idle, at |-> "new", seen |-> Blank] \in Job
  BY BlankType DEF Job, Places
<1>3. PlatformTypeOK
  BY <1>1, <1>2, BlankType DEF PlatformInit, PlatformTypeOK
<1>4. ASSUME NEW r \in Requests PROVE Prepared(r) /\ Matched(r)
  <2>1. \A q \in Requests : job[q].ask.op = "none"
    BY DEF PlatformInit, Idle
  <2>2. rows[r] = "none" /\ withdrawn = {} /\ ~HasCreds(r)
    BY DEF PlatformInit, HasCreds
  <2> QED
    BY <2>1, <2>2 DEF Prepared, Matched, Made, Deletes, Does
<1> QED
  BY <1>1, <1>3, <1>4 DEF PlatformInv

-----------------------------------------------------------------------------
(* The hubs close a channel once.                                          *)

\* The inductive invariant: who is registered, or still to be reached, has an open
\* channel, and only a loop that broadcasts has somebody to reach.
HubInv ==
    /\ hub \in {"manager", "former", "sse"}
    /\ members \subseteq Browsers /\ todo \subseteq members
    /\ closes \in [Browsers -> Nat]
    /\ reader \in [Browsers -> {"new", "registering", "reading", "dropping", "leaving", "gone"}]
    /\ loop \in {"select", "gone"} => todo = {}
    /\ \A c \in Browsers :
          /\ closes[c] <= 1
          /\ c \in members => closes[c] = 0
          /\ reader[c] \in {"new", "registering"} => c \notin members /\ closes[c] = 0

\* Removing a client closes its channel if it was open.
LEMMA DropKeeps ==
    ASSUME HubInv, NEW c \in Browsers, Drop(c)
    PROVE  /\ members' = members \ {c} /\ closes' \in [Browsers -> Nat]
           /\ \A d \in Browsers : /\ closes'[d] <= 1
                                  /\ d \in members' => closes'[d] = 0
                                  /\ d # c => closes'[d] = closes[d]
<1>1. CASE c \in members
  <2>1. members' = members \ {c} /\ closes' = [closes EXCEPT ![c] = @ + 1]
    BY <1>1 DEF Drop
  <2>2. closes[c] = 0 /\ closes'[c] = 1
    BY <1>1, <2>1 DEF HubInv
  <2> QED
    BY <2>1, <2>2 DEF HubInv
<1>2. CASE c \notin members
  BY <1>2 DEF Drop, HubInv
<1> QED
  BY <1>1, <1>2

\* Every step of a hub.
LEMMA HubKeeps ==
    ASSUME HubInv, HubNext
    PROVE  HubInv'
<1>1. CASE TakeBroadcast
  BY <1>1 DEF TakeBroadcast, HubInv
<1>2. CASE EndBroadcast
  BY <1>2 DEF EndBroadcast, HubInv
<1>3. CASE Stop \/ BroadcastUpdate
  BY <1>3 DEF Stop, BroadcastUpdate, HubInv
<1>4. CASE EndLoop
  <2>1. /\ members' = {} /\ todo' = {} /\ UNCHANGED <<hub, reader>>
        /\ closes' = [c \in Browsers |-> closes[c] + IF c \in members THEN 1 ELSE 0]
    BY <1>4 DEF EndLoop, HubInv
  <2>2. \A c \in Browsers : /\ closes'[c] \in Nat /\ closes'[c] <= 1
                            /\ c \notin members => closes'[c] = closes[c]
    BY <2>1 DEF HubInv
  <2>3. closes' \in [Browsers -> Nat]
    BY <2>1, <2>2
  <2>4. \A c \in Browsers : closes'[c] <= 1
                            /\ (reader'[c] \in {"new", "registering"} => closes'[c] = 0)
    BY <2>1, <2>2 DEF HubInv
  <2> QED
    BY <2>1, <2>3, <2>4 DEF HubInv
<1>5. ASSUME NEW c \in Browsers, TakeRegister(c) PROVE HubInv'
  BY <1>5 DEF TakeRegister, Reads, HubInv
<1>6. ASSUME NEW c \in Browsers, TakeUnregister(c) PROVE HubInv'
  <2>1. /\ loop = "select" /\ UNCHANGED <<hub, loop, todo>> /\ Drop(c)
        /\ reader[c] \in {"dropping", "leaving"}
        /\ \E at \in {"reading", "gone"} : reader' = [reader EXCEPT ![c] = at]
    BY <1>6 DEF TakeUnregister, UnregisterClient, Reads
  <2>2. /\ reader' \in [Browsers -> {"new", "registering", "reading", "dropping", "leaving", "gone"}]
        /\ reader'[c] \in {"reading", "gone"}
        /\ \A d \in Browsers \ {c} : reader'[d] = reader[d]
    BY <2>1 DEF HubInv
  <2>3. /\ members' = members \ {c} /\ closes' \in [Browsers -> Nat]
        /\ \A d \in Browsers : /\ closes'[d] <= 1
                               /\ d \in members' => closes'[d] = 0
                               /\ d # c => closes'[d] = closes[d]
    BY <2>1, DropKeeps
  <2>4. /\ hub' \in {"manager", "former", "sse"} /\ members' \subseteq Browsers
        /\ todo = {} /\ todo' = {}
    BY <2>1, <2>3 DEF HubInv
  <2>5. ASSUME NEW d \in Browsers
        PROVE  reader'[d] \in {"new", "registering"} => d \notin members' /\ closes'[d] = 0
    <3>1. CASE d = c
      BY <2>2, <3>1
    <3>2. CASE d # c
      BY <2>2, <2>3, <3>2 DEF HubInv
    <3> QED
      BY <3>1, <3>2
  <2> QED
    BY <2>2, <2>3, <2>4, <2>5 DEF HubInv
<1>7. ASSUME NEW c \in Browsers, DeliverTo(c) PROVE HubInv'
  <2>1. /\ todo' = todo \ {c} /\ UNCHANGED <<hub, reader>> /\ c \in members
        /\ loop' \in {"broadcast", "stuck"}
        /\ UNCHANGED <<members, closes>> \/ Drop(c)
    <3>1. loop = "broadcast" /\ todo' = todo \ {c} /\ UNCHANGED <<hub, reader>> /\ c \in members
      BY <1>7 DEF DeliverTo, HubInv
    <3>2. CASE hub = "manager"
      BY <1>7, <3>1, <3>2 DEF DeliverTo
    <3>3. CASE hub = "former"
      BY <1>7, <3>1, <3>3 DEF DeliverTo
    <3>4. CASE hub = "sse"
      BY <1>7, <3>1, <3>4 DEF DeliverTo
    <3> QED
      BY <3>1, <3>2, <3>3, <3>4 DEF HubInv
  <2>2. CASE UNCHANGED <<members, closes>>
    BY <2>1, <2>2 DEF HubInv
  <2>3. CASE Drop(c)
    BY <2>1, <2>3, DropKeeps DEF HubInv
  <2> QED
    BY <2>1, <2>2, <2>3
<1>8. ASSUME NEW c \in Browsers,
             \/ HandleWebSocket(c) \/ HandleSSE(c) \/ HandleMessage(c) \/ ReadPump(c)
             \/ WritePump(c)
      PROVE  HubInv'
  BY <1>8 DEF HandleWebSocket, HandleSSE, HandleMessage, ReadPump, WritePump, Reads, HubInv
<1> QED
  BY <1>1, <1>2, <1>3, <1>4, <1>5, <1>6, <1>7, <1>8 DEF HubNext

LEMMA HubStarts ==
    ASSUME HubInit
    PROVE  HubInv
BY DEF HubInit, HubInv

-----------------------------------------------------------------------------
(* The token that is served is good.                                       *)

\* The inductive invariant: a refresh is answered in time, so that what is stored
\* meanwhile by others is not much older than the question.
TokenInv ==
    /\ expiry \in Nat /\ time \in Nat
    /\ user \in [Users -> [at : {"idle", "refresh", "issued", "stored", "served"},
                            began : Nat, token : Nat]]
    /\ \A u \in Users :
          /\ user[u].began <= time
          /\ user[u].at \in {"refresh", "issued", "stored"} => time <= user[u].began + MaxDelay
          /\ user[u].at = "issued" => user[u].token >= user[u].began + Lifetime
          /\ user[u].at = "stored" => expiry >= user[u].began + Lifetime - MaxDelay
          /\ user[u].at = "served" => user[u].token - user[u].began >= Margin

\* Every step of the users of the token, and time.
LEMMA TokenKeeps ==
    ASSUME TokenAssumption, TokenInv, TokenNext
    PROVE  TokenInv'
<1> DEFINE Being == [at : {"idle", "refresh", "issued", "stored", "served"},
                     began : Nat, token : Nat]
<1>0. /\ Lifetime \in Nat /\ MaxDelay \in Nat /\ Lifetime >= MaxDelay + Margin
      /\ Margin = 1 /\ time \in Nat /\ expiry \in Nat /\ user \in [Users -> Being]
  BY DEF TokenAssumption, Margin, TokenInv
<1>1. CASE PassTime
  <2>1. /\ time' = time + 1 /\ UNCHANGED <<expiry, user>>
        /\ \A u \in Users : user[u].at \in {"refresh", "issued", "stored"}
                             => time - user[u].began < MaxDelay
    BY <1>1 DEF PassTime
  <2>2. \A u \in Users : user[u].began \in Nat
    BY <1>0
  <2> QED
    BY <1>0, <2>1, <2>2 DEF TokenInv
<1>2. ASSUME NEW u \in Users, NEW x \in Being, user' = [user EXCEPT ![u] = x],
             UNCHANGED <<expiry, time>>, x.began <= time,
             x.at \in {"refresh", "issued", "stored"} => time <= x.began + MaxDelay,
             x.at = "issued" => x.token >= x.began + Lifetime,
             x.at = "stored" => expiry >= x.began + Lifetime - MaxDelay,
             x.at = "served" => x.token - x.began >= Margin
      PROVE  TokenInv'
  <2>1. user' \in [Users -> Being] /\ \A v \in Users : user'[v] = IF v = u THEN x ELSE user[v]
    BY <1>0, <1>2
  <2> QED
    BY <1>0, <1>2, <2>1 DEF TokenInv
<1>3. ASSUME NEW u \in Users, GetClient(u) PROVE TokenInv'
  <2> DEFINE x == [at |-> IF NeedsRefresh THEN "refresh" ELSE "served", began |-> time,
                   token |-> IF NeedsRefresh THEN 0 ELSE expiry]
  <2>1. x \in Being
    BY <1>0
  <2>2. user' = [user EXCEPT ![u] = x] /\ UNCHANGED <<expiry, time>>
    BY <1>3 DEF GetClient
  <2>3. /\ x.began <= time
        /\ x.at \in {"refresh", "issued", "stored"} => time <= x.began + MaxDelay
        /\ x.at # "issued" /\ x.at # "stored"
        /\ x.at = "served" => x.token - x.began >= Margin
    BY <1>0 DEF NeedsRefresh
  <2> HIDE DEF x
  <2> QED
    BY <1>2, <2>1, <2>2, <2>3
<1>4. ASSUME NEW u \in Users, ForceRefresh(u) PROVE TokenInv'
  <2> DEFINE x == [at |-> "refresh", began |-> time, token |-> 0]
  <2>1. x \in Being /\ x.began = time /\ x.at = "refresh"
    BY <1>0
  <2>2. user' = [user EXCEPT ![u] = x] /\ UNCHANGED <<expiry, time>>
    BY <1>4 DEF ForceRefresh
  <2> HIDE DEF x
  <2>3. time <= x.began + MaxDelay /\ x.began <= time
    BY <1>0, <2>1
  <2> QED
    BY <1>2, <2>1, <2>2, <2>3
<1>5. ASSUME NEW u \in Users, CreateInstallationToken(u) PROVE TokenInv'
  <2>1. user[u] \in Being /\ user[u].at = "refresh" /\ UNCHANGED <<expiry, time>>
        /\ user[u].began <= time /\ time <= user[u].began + MaxDelay
    BY <1>0, <1>5 DEF CreateInstallationToken, TokenInv
  <2>2. CASE At(u, "issued", time + Lifetime)
    <3> DEFINE n == time + Lifetime
               x == [user[u] EXCEPT !.at = "issued", !.token = n]
    <3>1. n \in Nat
      BY <1>0
    <3>2. x \in Being /\ x.began = user[u].began /\ x.at = "issued" /\ x.token = n
      BY <2>1, <3>1
    <3>3. user' = [user EXCEPT ![u] = x]
      BY <1>0, <2>2 DEF At
    <3> HIDE DEF x
    <3>4. x.token >= x.began + Lifetime /\ x.began <= time /\ time <= x.began + MaxDelay
      BY <1>0, <2>1, <3>2
    <3> QED
      BY <1>2, <2>1, <3>2, <3>3, <3>4
  <2>3. CASE At(u, "idle", 0)
    <3> DEFINE x == [user[u] EXCEPT !.at = "idle", !.token = 0]
    <3>1. x \in Being /\ x.began = user[u].began /\ x.at = "idle"
      BY <2>1
    <3>2. user' = [user EXCEPT ![u] = x]
      BY <1>0, <2>3 DEF At
    <3> HIDE DEF x
    <3> QED
      BY <1>2, <2>1, <3>1, <3>2
  <2> QED
    BY <1>5, <2>2, <2>3 DEF CreateInstallationToken
<1>6. ASSUME NEW u \in Users, RefreshToken(u) PROVE TokenInv'
  <2>1. /\ user[u] \in Being /\ user[u].at = "issued" /\ expiry' = user[u].token
        /\ time' = time /\ At(u, "stored", user[u].token)
        /\ user[u].began <= time /\ time <= user[u].began + MaxDelay
        /\ user[u].token >= user[u].began + Lifetime
    BY <1>0, <1>6 DEF RefreshToken, TokenInv
  <2>2. /\ user' \in [Users -> Being]
        /\ \A v \in Users \ {u} : user'[v] = user[v]
        /\ user'[u].at = "stored" /\ user'[u].began = user[u].began
    BY <1>0, <2>1 DEF At
  <2>3. user[u].token \in Nat /\ user[u].began \in Nat
    BY <2>1
  <2>4. \A v \in Users : user[v].began \in Nat /\ user[v].began <= time
    BY <1>0 DEF TokenInv
  <2>5. \A v \in Users : expiry' >= user[v].began + Lifetime - MaxDelay
    BY <1>0, <2>1, <2>3, <2>4
  <2>6. ASSUME NEW v \in Users \ {u}
        PROVE  /\ user'[v].began <= time'
               /\ user'[v].at \in {"refresh", "issued", "stored"} => time' <= user'[v].began + MaxDelay
               /\ user'[v].at = "issued" => user'[v].token >= user'[v].began + Lifetime
               /\ user'[v].at = "stored" => expiry' >= user'[v].began + Lifetime - MaxDelay
               /\ user'[v].at = "served" => user'[v].token - user'[v].began >= Margin
    BY <2>1, <2>2, <2>5 DEF TokenInv
  <2> QED
    BY <1>0, <2>1, <2>2, <2>3, <2>5, <2>6 DEF TokenInv
<1>7. ASSUME NEW u \in Users, GetToken(u) PROVE TokenInv'
  <2> DEFINE x == [user[u] EXCEPT !.at = "served", !.token = expiry]
  <2>1. /\ user[u] \in Being /\ UNCHANGED <<expiry, time>> /\ user[u].began <= time
        /\ expiry >= user[u].began + Lifetime - MaxDelay
    BY <1>0, <1>7 DEF GetToken, TokenInv
  <2>2. x \in Being /\ x.began = user[u].began /\ x.at = "served" /\ x.token = expiry
    BY <1>0, <2>1
  <2>3. user' = [user EXCEPT ![u] = x]
    BY <1>0, <1>7 DEF GetToken, At
  <2> HIDE DEF x
  <2>4. x.token - x.began >= Margin
    BY <1>0, <2>1, <2>2
  <2> QED
    BY <1>2, <2>1, <2>2, <2>3, <2>4
<1> QED
  BY <1>1, <1>3, <1>4, <1>5, <1>6, <1>7 DEF TokenNext

LEMMA TokenStarts ==
    ASSUME TokenAssumption, TokenInit
    PROVE  TokenInv
BY DEF TokenAssumption, TokenInit, TokenInv

-----------------------------------------------------------------------------
(* The cache has its capacity, and forgets entries for a reason.           *)

\* A set of naturals that is not empty has a least member.
LEMMA Smallest ==
    ASSUME NEW T \in SUBSET Nat, T # {}
    PROVE  \E x \in T : \A y \in T : x <= y
<1> DEFINE R == OpToRel(<, Nat)
<1>1. IsWellFoundedOn(R, Nat)
  BY NatLessThanWellFounded
<1>2. \A x, y \in Nat : y < x => <<y, x>> \in R
  BY DEF OpToRel
<1> HIDE DEF R
<1>3. PICK x \in T : \A y \in T : ~(<<y, x>> \in R)
  BY <1>1, WFMin
<1>4. ASSUME NEW y \in T PROVE x <= y
  <2>1. x \in Nat /\ y \in Nat
    OBVIOUS
  <2>2. ~(y < x)
    BY <1>2, <1>3, <2>1
  <2> QED
    BY <2>1, <2>2
<1> QED
  BY <1>4

\* The member of a set that comes first in time.
LEMMA First ==
    ASSUME NEW S, S # {}, NEW f, \A m \in S : f[m] \in Nat
    PROVE  \E m \in S : \A n \in S : f[m] <= f[n]
<1> DEFINE T == {f[m] : m \in S}
<1>1. T \in SUBSET Nat /\ T # {}
  OBVIOUS
<1>2. \A m \in S : f[m] \in T
  OBVIOUS
<1>3. \A x \in T : \E m \in S : x = f[m]
  OBVIOUS
<1> HIDE DEF T
<1>4. PICK x \in T : \A y \in T : x <= y
  BY <1>1, Smallest
<1>5. PICK m \in S : x = f[m]
  BY <1>3
<1>6. \A n \in S : f[m] <= f[n]
  BY <1>2, <1>4, <1>5
<1> QED
  BY <1>6

\* The inductive invariant: entries with times that are over, and no more than the capacity.
CacheInv ==
    /\ clock \in Nat \ {0}
    /\ entries \in [Migrations -> [start : Nat, completed : Nat, cleanedUp : BOOLEAN]]
    /\ IsFiniteSet(Held) /\ Cardinality(Held) <= MaxEntries

\* Something is evicted from a cache that holds something.
LEMMA SomethingIsEvicted ==
    ASSUME CacheInv, Held # {}
    PROVE  EvictOldest # {}
<1> DEFINE started == [m \in Held |-> entries[m].start]
           finished == [m \in Completed |-> entries[m].completed]
<1>1. \A m \in Held : entries[m].start \in Nat /\ entries[m].completed \in Nat
  BY DEF CacheInv, Held
<1>2. Completed \subseteq Held
  BY DEF Completed
<1>3. CASE Completed # {}
  <2>1. \A m \in Completed : finished[m] = entries[m].completed /\ finished[m] \in Nat
    BY <1>1, <1>2
  <2> HIDE DEF finished
  <2>2. PICK m \in Completed : \A n \in Completed : finished[m] <= finished[n]
    BY <1>3, <2>1, First
  <2> QED
    BY <1>2, <1>3, <2>1, <2>2 DEF EvictOldest
<1>4. CASE Completed = {}
  <2>1. \A m \in Held : started[m] = entries[m].start /\ started[m] \in Nat
    BY <1>1
  <2> HIDE DEF started
  <2>2. PICK m \in Held : \A n \in Held : started[m] <= started[n]
    BY <2>1, First
  <2> QED
    BY <1>4, <2>1, <2>2 DEF EvictOldest
<1> QED
  BY <1>3, <1>4

\* A step after which the cache holds no more than before.
LEMMA NoMoreHeld ==
    ASSUME CacheInv, Held' \subseteq Held, clock' \in Nat \ {0},
           entries' \in [Migrations -> [start : Nat, completed : Nat, cleanedUp : BOOLEAN]]
    PROVE  CacheInv'
<1>1. /\ IsFiniteSet(Held') /\ Cardinality(Held') <= Cardinality(Held)
  BY FS_Subset DEF CacheInv
<1>2. Cardinality(Held') \in Nat /\ Cardinality(Held) \in Nat
  BY <1>1, FS_CardinalityType DEF CacheInv
<1> QED
  BY <1>1, <1>2, CacheAssumption DEF CacheInv, CacheAssumption

\* A new entry replaces the one of the same migration, or finds room or makes it.
LEMMA SetKeeps ==
    ASSUME MaxEntries > 0, CacheInv, NEW m \in Migrations, Set(m)
    PROVE  CacheInv'
<1> DEFINE full == Cardinality(Held) >= MaxEntries /\ m \notin Held
           evicted == IF full THEN EvictOldest ELSE {}
           new == [NoEntry EXCEPT !.start = clock]
<1>0. /\ clock \in Nat \ {0} /\ clock' \in Nat \ {0}
      /\ IsFiniteSet(Held) /\ Cardinality(Held) \in Nat /\ Cardinality(Held) <= MaxEntries
      /\ MaxEntries \in Nat
  BY CacheAssumption, FS_CardinalityType DEF CacheInv, Set, Tick, CacheAssumption
<1>1. new \in [start : Nat, completed : Nat, cleanedUp : BOOLEAN] /\ new.start = clock
  BY <1>0 DEF NoEntry
<1>2. evicted \subseteq Held
  BY DEF EvictOldest
<1>3. \A n \in Migrations : entries'[n] = IF n = m THEN new
                                          ELSE IF n \in evicted THEN NoEntry ELSE entries[n]
  BY DEF Set
<1> HIDE DEF evicted, new
<1>4. entries' = [n \in Migrations |-> entries'[n]]
  BY DEF Set
<1>5. entries' \in [Migrations -> [start : Nat, completed : Nat, cleanedUp : BOOLEAN]]
  <2>1. new \in [start : Nat, completed : Nat, cleanedUp : BOOLEAN]
    BY <1>1
  <2>2. NoEntry \in [start : Nat, completed : Nat, cleanedUp : BOOLEAN]
    BY DEF NoEntry
  <2>3. \A n \in Migrations : entries'[n] \in [start : Nat, completed : Nat, cleanedUp : BOOLEAN]
    BY <1>3, <2>1, <2>2 DEF CacheInv
  <2> QED
    BY <1>4, <2>3
<1>6. Held' = (Held \ evicted) \cup {m}
  <2>1. new.start > 0 /\ ~(NoEntry.start > 0)
    BY <1>0, <1>1 DEF NoEntry
  <2>2. \A n \in Migrations : entries'[n].start > 0 <=> n = m \/ (n \notin evicted /\ entries[n].start > 0)
    BY <1>3, <2>1
  <2> QED
    BY <2>2 DEF Held
<1>7. CASE m \in Held
  <2>1. Held' \subseteq Held
    BY <1>6, <1>7
  <2> QED
    BY <1>0, <1>5, <2>1, NoMoreHeld
<1>8. CASE m \notin Held /\ ~full
  <2>1. Held' = Held \cup {m}
    BY <1>6, <1>8 DEF evicted
  <2>2. IsFiniteSet(Held') /\ Cardinality(Held') = Cardinality(Held) + 1
    BY <1>0, <1>8, <2>1, FS_AddElement
  <2>3. Cardinality(Held) < MaxEntries
    BY <1>0, <1>8
  <2>4. Cardinality(Held') <= MaxEntries
    BY <1>0, <2>2, <2>3
  <2> QED
    BY <1>0, <1>5, <2>2, <2>4 DEF CacheInv
<1>9. CASE full
  <2>1. Held # {}
    <3>1. Cardinality({}) = 0
      BY FS_EmptySet
    <3> QED
      BY <1>0, <1>9, <3>1
  <2>2. PICK e \in evicted : e \in Held
    BY <1>2, <1>9, <2>1, SomethingIsEvicted DEF evicted
  <2> DEFINE rest == Held \ {e}
  <2>3. IsFiniteSet(rest) /\ Cardinality(rest) = Cardinality(Held) - 1
    BY <1>0, <2>2, FS_RemoveElement
  <2>4. m \notin rest /\ Held' \subseteq rest \cup {m}
    BY <1>6, <1>9, <2>2
  <2> HIDE DEF rest
  <2>5. IsFiniteSet(rest \cup {m}) /\ Cardinality(rest \cup {m}) = Cardinality(rest) + 1
    BY <2>3, <2>4, FS_AddElement
  <2>6. IsFiniteSet(Held') /\ Cardinality(Held') <= Cardinality(rest \cup {m})
    BY <2>4, <2>5, FS_Subset
  <2>7. Cardinality(Held') \in Nat
    BY <2>6, FS_CardinalityType
  <2>8. Cardinality(Held') <= MaxEntries
    BY <1>0, <2>3, <2>5, <2>6, <2>7
  <2> QED
    BY <1>0, <1>5, <2>6, <2>8 DEF CacheInv
<1> QED
  BY <1>7, <1>8, <1>9

\* The other operations only mark entries or forget them.
LEMMA OperationsKeep ==
    ASSUME CacheInv, NEW m \in Migrations, Delete(m) \/ MarkCompleted(m) \/ MarkCleanedUp(m)
    PROVE  CacheInv'
<1> DEFINE Entry == [start : Nat, completed : Nat, cleanedUp : BOOLEAN]
<1>1. clock \in Nat \ {0} /\ clock' \in Nat \ {0} /\ entries \in [Migrations -> Entry] /\ entries[m] \in Entry
  BY DEF CacheInv, Delete, MarkCompleted, MarkCleanedUp, Tick
<1>2. CASE Delete(m)
  <2>1. NoEntry \in Entry /\ ~(NoEntry.start > 0) /\ entries' = [entries EXCEPT ![m] = NoEntry]
    BY <1>2 DEF Delete, NoEntry
  <2>2. entries' \in [Migrations -> Entry] /\ Held' \subseteq Held
    BY <1>1, <2>1 DEF Held
  <2> QED
    BY <1>1, <2>2, NoMoreHeld
<1>3. CASE MarkCompleted(m)
  <2> DEFINE e == [entries[m] EXCEPT !.completed = clock]
  <2>1. entries' = [entries EXCEPT ![m] = e]
    BY <1>3 DEF MarkCompleted
  <2>2. e \in Entry /\ e.start = entries[m].start
    BY <1>1
  <2> HIDE DEF e
  <2>3. entries' \in [Migrations -> Entry] /\ \A n \in Migrations : entries'[n].start = entries[n].start
    BY <1>1, <2>1, <2>2
  <2>4. Held' \subseteq Held
    BY <2>3 DEF Held
  <2> QED
    BY <1>1, <2>3, <2>4, NoMoreHeld
<1>4. CASE MarkCleanedUp(m)
  <2> DEFINE e == [entries[m] EXCEPT !.cleanedUp = TRUE]
  <2>1. entries' = [entries EXCEPT ![m] = e]
    BY <1>4 DEF MarkCleanedUp
  <2>2. e \in Entry /\ e.start = entries[m].start
    BY <1>1
  <2> HIDE DEF e
  <2>3. entries' \in [Migrations -> Entry] /\ \A n \in Migrations : entries'[n].start = entries[n].start
    BY <1>1, <2>1, <2>2
  <2>4. Held' \subseteq Held
    BY <2>3 DEF Held
  <2> QED
    BY <1>1, <2>3, <2>4, NoMoreHeld
<1> QED
  BY <1>2, <1>3, <1>4

\* And so does the periodic cleanup.
LEMMA CacheCleanupKeeps ==
    ASSUME CacheInv, CacheCleanup
    PROVE  CacheInv'
<1> DEFINE Entry == [start : Nat, completed : Nat, cleanedUp : BOOLEAN]
<1>1. clock' \in Nat \ {0} /\ entries \in [Migrations -> Entry]
  BY DEF CacheInv, CacheCleanup
<1>2. NoEntry \in Entry /\ ~(NoEntry.start > 0)
  BY DEF NoEntry
<1>3. entries' = [m \in Migrations |-> IF m \in Expired THEN NoEntry ELSE entries[m]]
  BY DEF CacheCleanup
<1>4. entries' \in [Migrations -> Entry]
  BY <1>1, <1>2, <1>3
<1>5. Held' \subseteq Held
  BY <1>2, <1>3 DEF Held
<1> QED
  BY <1>1, <1>4, <1>5, NoMoreHeld

\* Every operation of the cache keeps the invariant.
LEMMA CacheKeeps ==
    ASSUME MaxEntries > 0, CacheInv, CacheNext
    PROVE  CacheInv'
BY SetKeeps, OperationsKeep, CacheCleanupKeeps DEF CacheNext

\* The cache starts empty.
LEMMA CacheStarts ==
    ASSUME CacheInit
    PROVE  CacheInv
<1>1. NoEntry \in [start : Nat, completed : Nat, cleanedUp : BOOLEAN] /\ ~(NoEntry.start > 0)
  BY DEF NoEntry
<1>2. Held = {}
  BY <1>1 DEF CacheInit, Held
<1>3. IsFiniteSet(Held) /\ Cardinality(Held) = 0
  BY <1>2, FS_EmptySet
<1>4. Cardinality(Held) <= MaxEntries
  BY <1>3, CacheAssumption DEF CacheAssumption
<1> QED
  BY <1>1, <1>3, <1>4 DEF CacheInit, CacheInv

\* What the cache forgets in a step.
LEMMA ForgottenForRoom ==
    ASSUME CacheInv, CacheNext, NEW m \in Held, entries'[m].start = 0, ~Delete(m)
    PROVE  \/ m \in Completed /\ (m \in Expired \/ Cardinality(Held) = MaxEntries)
           \/ Completed = {} /\ Cardinality(Held) = MaxEntries
<1>1. /\ m \in Migrations /\ entries[m].start > 0
      /\ Cardinality(Held) \in Nat /\ Cardinality(Held) <= MaxEntries /\ MaxEntries \in Nat
      /\ clock \in Nat \ {0}
      /\ entries \in [Migrations -> [start : Nat, completed : Nat, cleanedUp : BOOLEAN]]
  BY FS_CardinalityType, CacheAssumption DEF CacheInv, Held, CacheAssumption
<1>2. ASSUME NEW n \in Migrations, Set(n)
      PROVE  /\ Cardinality(Held) = MaxEntries
             /\ m \in Completed \/ Completed = {}
  <2> DEFINE full == Cardinality(Held) >= MaxEntries /\ n \notin Held
             new == [NoEntry EXCEPT !.start = clock]
  <2>1. new.start = clock
    BY DEF NoEntry
  <2>2. entries'[m] = IF m = n THEN new
                      ELSE IF full /\ m \in EvictOldest THEN NoEntry ELSE entries[m]
    BY <1>1, <1>2 DEF Set
  <2> HIDE DEF new
  <2>3. full /\ m \in EvictOldest
    BY <1>1, <2>1, <2>2
  <2> QED
    BY <1>1, <2>3 DEF EvictOldest
<1>3. ASSUME NEW n \in Migrations, Delete(n)
      PROVE  FALSE
  <2>1. n # m
    BY <1>3
  <2>2. entries'[m] = entries[m]
    BY <1>1, <1>3, <2>1 DEF Delete
  <2> QED
    BY <1>1, <2>2
<1>4. ASSUME NEW n \in Migrations, MarkCompleted(n) \/ MarkCleanedUp(n)
      PROVE  FALSE
  <2>1. entries'[m].start = entries[m].start
    BY <1>1, <1>4 DEF MarkCompleted, MarkCleanedUp
  <2> QED
    BY <1>1, <2>1
<1>5. CASE CacheCleanup
  <2>1. m \in Expired
    BY <1>1, <1>5 DEF CacheCleanup
  <2> QED
    BY <2>1 DEF Expired
<1> QED
  BY <1>2, <1>3, <1>4, <1>5 DEF CacheNext

-----------------------------------------------------------------------------
(* The theorems: a step is of one service and leaves the others alone.     *)

\* What the four services keep.
ServicesInv == SecretInv /\ PlatformInv /\ HubInv /\ TokenInv

\* A service that does not take the step keeps what it keeps.
LEMMA OthersKeep ==
    ASSUME ServicesInv
    PROVE  /\ UNCHANGED apiVars => SecretInv'
           /\ UNCHANGED platformVars => PlatformInv'
           /\ UNCHANGED hubVars => HubInv'
           /\ UNCHANGED tokenVars => TokenInv'
<1>1. UNCHANGED apiVars => SecretInv'
  BY DEF ServicesInv, apiVars, SecretInv, ApiTypeOK, SecretKept, Refers
<1>2. ASSUME UNCHANGED platformVars PROVE PlatformInv'
  <2>1. UNCHANGED <<client, vault, rows, creds, job, withdrawn, refusals>> /\ PlatformInv
    BY <1>2 DEF platformVars, ServicesInv
  <2>2. PlatformTypeOK' /\ VaultFilled'
    BY <2>1 DEF PlatformInv, PlatformTypeOK, VaultFilled, Exists
  <2>3. ASSUME NEW r \in Requests PROVE Prepared(r)' /\ Matched(r)'
    <3>1. Prepared(r) /\ Matched(r)
      BY <2>1 DEF PlatformInv
    <3>2. Prepared(r)'
      BY <2>1, <3>1 DEF Prepared, Does
    <3>3. Matched(r)'
      BY <2>1, <3>1 DEF Matched, Made, Deletes, Does, HasCreds
    <3> QED
      BY <3>2, <3>3
  <2> QED
    BY <2>2, <2>3 DEF PlatformInv
<1>3. UNCHANGED hubVars => HubInv'
  BY DEF ServicesInv, hubVars, HubInv
<1>4. UNCHANGED tokenVars => TokenInv'
  BY DEF ServicesInv, tokenVars, TokenInv
<1> QED
  BY <1>1, <1>2, <1>3, <1>4

\* Every step keeps the invariant.
LEMMA ServicesKeep ==
    ASSUME ServicesInv, [Next]_vars
    PROVE  ServicesInv'
<1>1. CASE service = "operator" /\ ApiNext
           /\ UNCHANGED <<service, platformVars, hubVars, cacheVars, tokenVars>>
  BY <1>1, ApiAssumption, ApiKeeps, OthersKeep DEF ServicesInv
<1>2. CASE service = "platform" /\ PlatformNext
           /\ UNCHANGED <<service, apiVars, hubVars, cacheVars, tokenVars>>
  BY <1>2, PlatformAssumption, PlatformKeeps, OthersKeep DEF ServicesInv
<1>3. CASE service = "hub" /\ HubNext
           /\ UNCHANGED <<service, apiVars, platformVars, cacheVars, tokenVars>>
  BY <1>3, HubKeeps, OthersKeep DEF ServicesInv
<1>4. CASE service = "cache" /\ CacheNext
           /\ UNCHANGED <<service, apiVars, platformVars, hubVars, tokenVars>>
  BY <1>4, OthersKeep DEF ServicesInv
<1>5. CASE service = "token" /\ TokenNext
           /\ UNCHANGED <<service, apiVars, platformVars, hubVars, cacheVars>>
  BY <1>5, TokenAssumption, TokenKeeps, OthersKeep DEF ServicesInv
<1>6. CASE UNCHANGED vars
  BY <1>6, OthersKeep DEF vars, ServicesInv
<1> QED
  BY <1>1, <1>2, <1>3, <1>4, <1>5, <1>6 DEF Next

\* The invariant holds in every behaviour of the services, each of which keeps the others
\* as they are: objects with their secret, rows with their credentials, hubs with open
\* channels, refreshes in time.
THEOREM ServicesInvariant == Spec => []ServicesInv
<1>1. Init => ServicesInv
  BY TokenAssumption, PlatformAssumption, ApiStarts, PlatformStarts, HubStarts, TokenStarts
  DEF Init, ServicesInv
<1>2. ServicesInv /\ [Next]_vars => ServicesInv'
  BY ServicesKeep
<1> QED
  BY <1>1, <1>2, PTL DEF Spec

\* An object that the HTTP API created with an inline token finds its secret, in any
\* interleaving of any number of creations, failures and stale reads (SecretFirst).
THEOREM SecretAlwaysFirst == Spec => []SecretFirst
<1>1. ServicesInv => SecretFirst
  BY DEF ServicesInv, SecretInv, SecretKept, Refers, SecretFirst
<1> QED
  BY <1>1, ServicesInvariant, PTL

\* The cached objects of the operator that are the latest version are the objects.
THEOREM CacheCoherent == Spec => []Coherent
<1>1. Init => Coherent
  BY CoherentStarts DEF Init
<1>2. ServicesInv /\ Coherent /\ [Next]_vars => Coherent'
  <2> SUFFICES ASSUME ServicesInv, Coherent, [Next]_vars PROVE Coherent'
    OBVIOUS
  <2>1. ApiTypeOK
    BY DEF ServicesInv, SecretInv
  <2>2. CASE ApiNext
    BY <2>1, <2>2, CoherentKeeps
  <2>3. CASE UNCHANGED apiVars
    BY <2>3 DEF apiVars, Coherent
  <2> QED
    BY <2>2, <2>3 DEF Next, vars
<1> QED
  BY <1>1, <1>2, ServicesInvariant, PTL DEF Spec

\* An order is written only while the migration is in the phase that the handler looked
\* at, whatever moves between its read of the cache and its write (OrdersFitPhase).
THEOREM OrdersAlwaysFit == Spec => OrdersFitPhase
<1>1. ServicesInv /\ Coherent /\ [Next]_vars => [FitsPhase]_apiVars
  <2> SUFFICES ASSUME ServicesInv, Coherent, [Next]_vars PROVE FitsPhase \/ UNCHANGED apiVars
    OBVIOUS
  <2>1. ApiTypeOK
    BY DEF ServicesInv, SecretInv
  <2>2. CASE ApiNext
    BY <2>1, <2>2, StepsFit
  <2> QED
    BY <2>2 DEF Next, vars
<1> QED
  BY <1>1, ServicesInvariant, CacheCoherent, PTL DEF Spec, OrdersFitPhase

\* A migration in the table of the platform has its credentials until its deletion begins,
\* and credentials outlive their row only when a call has failed, whatever requests run at
\* the same time and wherever they fail (CredentialsMatch).
THEOREM CredentialsAlwaysMatch == Spec => []CredentialsMatch
<1>1. ServicesInv => CredentialsMatch
  BY DEF ServicesInv, PlatformInv, Matched, Made, Does, CredentialsMatch
<1> QED
  BY <1>1, ServicesInvariant, PTL

\* The cache never tracks more migrations than its capacity, if it has one.
THEOREM CacheWithinCapacity ==
    ASSUME MaxEntries > 0
    PROVE  Spec => []CacheInv
<1>1. Init => CacheInv
  BY CacheStarts DEF Init
<1>2. CacheInv /\ [Next]_vars => CacheInv'
  <2> SUFFICES ASSUME CacheInv, [Next]_vars PROVE CacheInv'
    OBVIOUS
  <2>1. CASE CacheNext
    BY <2>1, CacheKeeps
  <2>2. CASE UNCHANGED cacheVars
    BY <2>2 DEF cacheVars, CacheInv, Held
  <2> QED
    BY <2>1, <2>2 DEF Next, vars
<1> QED
  BY <1>1, <1>2, PTL DEF Spec

\* Running migrations stay in the cache until there is no room and none has completed, for
\* any capacity but zero, at which a new entry finds nothing to evict (RunningKept).
THEOREM CacheKeepsRunning ==
    ASSUME MaxEntries > 0
    PROVE  Spec => RunningKept
<1>1. CacheInv /\ [Next]_vars => [ForgetsWithReason]_cacheVars
  <2> SUFFICES ASSUME CacheInv, [Next]_vars PROVE ForgetsWithReason \/ UNCHANGED cacheVars
    OBVIOUS
  <2>1. CASE CacheNext
    BY <2>1, ForgottenForRoom DEF ForgetsWithReason
  <2> QED
    BY <2>1 DEF Next, vars
<1> QED
  BY <1>1, CacheWithinCapacity, PTL DEF Spec, RunningKept

\* No hub closes the channel of a browser twice or broadcasts into a closed one, for any
\* number of browsers and any buffers (ClosedOnce).
THEOREM HubClosesOnce == Spec => []ClosedOnce
<1>1. ServicesInv => ClosedOnce
  BY DEF ServicesInv, HubInv, ClosedOnce
<1> QED
  BY <1>1, ServicesInvariant, PTL

\* The token served is good for the safety margin, however many goroutines refresh it and
\* in whatever order they store what they fetched (TokenGood).
THEOREM TokenAlwaysGood == Spec => []TokenGood
<1>1. ServicesInv => TokenGood
  BY DEF ServicesInv, TokenInv, TokenGood
<1> QED
  BY <1>1, ServicesInvariant, PTL
===============================================================================
