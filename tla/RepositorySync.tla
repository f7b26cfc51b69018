---------------------------- MODULE RepositorySync ----------------------------
(***************************************************************************)
(* The synchronization after a migration: again and again each repository  *)
(* is fetched into a directory that is kept, and mirrored to GitHub.       *)
(***************************************************************************)
EXTENDS RepositoryTransfer

VARIABLES
    syncDir,    \* syncDir[r][k]: the directory kept for repository k
    syncing     \* syncing[r]: the repository that r synchronizes

syncVars == <<syncDir, syncing>>

SyncInit ==
    /\ syncDir = [r \in Replicas |-> [k \in Repos |-> Nothing]]
    /\ syncing = [r \in Replicas |-> 1]

Work(r) == syncDir[r][syncing[r]]
Keep(r, c) == syncDir' = [syncDir EXCEPT ![r][syncing[r]] = c]

SyncFrame(r) ==
    UNCHANGED <<ado, changes, settings, appKey, appClient, obj, current, mem, found, dir, left, ok>>

\* On to the next repository, whatever came of this one.  The result of the
\* round is written to the object; refused, the round is repeated.
NextRepository(r) ==
    IF syncing[r] < RepoCount
    THEN syncing' = [syncing EXCEPT ![r] = @ + 1] /\ GoTo(r, "sync")
    ELSE syncing' = [syncing EXCEPT ![r] = 1] /\ GoTo(r, "idle")

\* A round without the tokens is put off.
StartSync(r) ==
    /\ pc[r] = "idle" /\ obj.phase = "Syncing"
    /\ settings.auth = "tokenRef"
    /\ Call(TRUE) /\ GoTo(r, "sync")
    /\ UNCHANGED <<github, syncDir, syncing>> /\ SyncFrame(r)

PutOffSync(r) ==
    /\ pc[r] = "idle" /\ obj.phase = "Syncing"
    /\ \E token \in BOOLEAN : GetGitHubToken(token) /\ ~token
    /\ UNCHANGED <<ado, changes, github, pc, syncDir, syncing, settings, appKey, obj, current, mem, found, dir, left, ok>>

\* Any directory with a file "config" counts as a clone.
SyncClone(r) ==
    /\ pc[r] = "sync" /\ Work(r) = Nothing
    /\ \/ /\ Keep(r, Clone(ado[syncing[r]], syncing[r]))
          /\ Call(TRUE) /\ UNCHANGED <<pc, syncing>>
       \/ Call(FALSE) /\ NextRepository(r) /\ UNCHANGED syncDir
    /\ UNCHANGED github /\ SyncFrame(r)

\* Mutant: the references that are gone are kept.
FetchedWithoutPrune(r) ==
    LET k == syncing[r] IN
    [b \in Refs |-> IF ado[k][b] = Absent THEN Work(r).refs[b] ELSE ado[k][b]]

\* A killed clone knows no references to fetch, but the tags.
Fetched(r) ==
    [b \in Refs |-> IF Work(r).cloned = "killed" /\ b \in Branches THEN Absent
                    ELSE ado[syncing[r]][b]]

SyncFetch(r) ==
    /\ pc[r] = "sync" /\ Work(r) # Nothing
    /\ \/ /\ Keep(r, [Work(r) EXCEPT !.refs = Fetched(r)])
          /\ Call(TRUE) /\ GoTo(r, "mirror") /\ UNCHANGED syncing
       \/ Call(FALSE) /\ NextRepository(r) /\ UNCHANGED syncDir
    /\ UNCHANGED github /\ SyncFrame(r)

\* Every branch and tag, whatever the settings of the synchronization say.
SyncPush(r) ==
    /\ pc[r] = "mirror"
    /\ LET k == syncing[r]
           g == github[k]
           new == MirrorOf(g, Work(r).refs) IN
       \E T \in {{}, Tags, Refs} :
          /\ T # Refs => Call(FALSE)
          /\ T = Refs => Call(TRUE)
          /\ IF g.exists
             THEN github' \in {[github EXCEPT ![k] = h] : h \in After(g, new, T)}
             ELSE UNCHANGED github
    /\ NextRepository(r)
    /\ UNCHANGED syncDir /\ SyncFrame(r)

Synchronize(r) ==
    StartSync(r) \/ PutOffSync(r) \/ SyncClone(r) \/ SyncFetch(r) \/ SyncPush(r)
=============================================================================
