---------------------------- MODULE CodeMigration ----------------------------
(***************************************************************************)
(* The way of the code: replicas of the operator, each in a container that *)
(* may be killed and whose directories outlive it, carry out one migration *)
(* and then keep GitHub up to date, while users commit at both ends.       *)
(***************************************************************************)
EXTENDS RepositorySync

vars == <<gitVars, accessVars, transferVars, syncVars>>

Init == GitInit /\ AccessInit /\ TransferInit /\ SyncInit

\* git is killed with the container, or with the context of the command.
Killed(c, cloning) == IF c = Nothing /\ cloning THEN {Nothing, Remains} ELSE {c}

Crash(r) ==
    /\ Call(FALSE)
    /\ appClient' = [appClient EXCEPT ![r] = 0]
    /\ \E c \in Killed(dir[r], pc[r] = "clone") : dir' = [dir EXCEPT ![r] = c]
    /\ \E c \in Killed(Work(r), pc[r] = "sync") : Keep(r, c)
    /\ GoTo(r, "idle")
    /\ current' = [current EXCEPT ![r] = FALSE]
    /\ mem' = [mem EXCEPT ![r] = NewObject]
    /\ found' = [found EXCEPT ![r] = "NonEmpty"]
    /\ left' = [left EXCEPT ![r] = {}]
    /\ ok' = [ok EXCEPT ![r] = FALSE]
    /\ syncing' = [syncing EXCEPT ![r] = 1]
    /\ UNCHANGED <<gitVars, obj>> /\ Quiet

Users == UserChanges /\ UNCHANGED <<accessVars, transferVars, syncVars>>

Next ==
    \/ \E r \in settings.replicas :
          \/ Transfer(r) /\ UNCHANGED syncVars
          \/ Synchronize(r)
          \/ Crash(r)
    \/ Restart /\ UNCHANGED syncVars
    \/ RotateKey /\ UNCHANGED <<transferVars, syncVars>>
    \/ Users

Spec == Init /\ [][Next]_vars

\* The work queue gives every replica its turn; users need not do anything.
Fairness ==
    \A r \in Replicas : WF_vars(/\ r \in settings.replicas
                                 /\ \/ Transfer(r) /\ UNCHANGED syncVars
                                    \/ Synchronize(r))

FairSpec == Spec /\ Fairness

-----------------------------------------------------------------------------
\* When the push of a repository is over and the migration still runs,
\* GitHub has every kept branch and every tag at the clone's commit or a
\* later one, unless a user moved or removed it meanwhile, and none of the
\* branches that the patterns exclude.
MigratedWhole ==
    \A r \in Replicas :
        pc[r] = "cleanup" /\ ok[r] /\ obj.phase = "Running" =>
            LET c == dir[r]
                there == github[At(r)].refs IN
            /\ \A b \in Kept(c) \cup {t \in Tags : c.refs[t] # Absent} :
                  there[b] = Theirs \/ there[b] >= c.refs[b]
            /\ \A b \in Branches : there[b] # Absent => KeptByName(b, c.head)

Mirrored(k) == \E r \in Replicas : pc[r] = "mirror" /\ pc'[r] # "mirror" /\ syncing[r] = k

TakesNothingBack ==
    \A k \in Repos, b \in Refs :
        LET old == github[k].refs[b]
            new == github'[k].refs[b] IN
        old # new /\ ~Mirrored(k) /\ changes' = changes => old # Theirs /\ old < new

\* No push of a migration takes a branch on GitHub back, removes it or
\* overwrites a commit of its users: only the synchronization mirrors.
NothingTakenBack == [][TakesNothingBack]_vars

Same(k) ==
    \A b \in Refs : b = github[k].default \/ github[k].refs[b] = ado[k][b]

\* GitHub ends as Azure DevOps is, deleted branches included, however often
\* replicas mirror what they fetched before each other: unless a clone for
\* the synchronization was killed, whose directory is then used for good.
Converges ==
    <>[](/\ obj.phase = "Syncing" /\ settings.auth = "tokenRef"
         /\ \A k \in Repos : github[k].exists
         /\ \A r \in Replicas, k \in Repos : syncDir[r][k].cloned # "killed")
        => <>[](\A k \in Repos : Same(k))

\* The default branch of a migrated repository is that of its source.
DefaultMatchesSource ==
    \A k \in 1 .. obj.done : github[k].default = AdoDefault[k]
=============================================================================
