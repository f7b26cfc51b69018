-------------------------- MODULE RepositoryTransfer --------------------------
(***************************************************************************)
(* One repository after another: the reconciler finds or creates it on     *)
(* GitHub, and the migration service clones it from Azure DevOps into a    *)
(* directory, pushes the branches that the patterns keep and every tag,    *)
(* and sets the default branch.  Each replica has directories of its own.  *)
(***************************************************************************)
EXTENDS MigrationAccess

VARIABLES
    obj,        \* the object: [phase, done, source, target]
    current,    \* current[r]: r's copy is the latest version
    mem,        \* mem[r]: r's copy
    pc,         \* pc[r]: where r is
    found,      \* found[r]: the state of the repository when r looked
    dir,        \* dir[r]: the directory of the clone
    left,       \* left[r]: what r has to push yet
    ok          \* ok[r]: the transfer has succeeded

transferVars == <<obj, current, mem, pc, found, dir, left, ok>>

\* The source and target branches are those of the migration, not of a resource.
NewObject == [phase |-> "Validating", done |-> 0, source |-> NoBranch, target |-> NoBranch]

Nothing == [cloned |-> "no", refs |-> NoRefs, head |-> NoBranch]
Clone(refs, k) == [cloned |-> "yes", refs |-> refs, head |-> AdoDefault[k]]

\* What a clone leaves that is killed: a directory that git knows for its own.
Remains == [Nothing EXCEPT !.cloned = "killed"]

TransferInit ==
    /\ obj = NewObject
    /\ current = [r \in Replicas |-> FALSE]
    /\ mem = [r \in Replicas |-> NewObject]
    /\ pc = [r \in Replicas |-> "idle"]
    /\ found = [r \in Replicas |-> "NonEmpty"]
    /\ dir = [r \in Replicas |-> Nothing]
    /\ left = [r \in Replicas |-> {}]
    /\ ok = [r \in Replicas |-> FALSE]

\* The resource at work.
At(r) == mem[r].done + 1

GoTo(r, next) == pc' = [pc EXCEPT ![r] = next]
Quiet == UNCHANGED <<settings, appKey>>
SameObject == UNCHANGED <<obj, current, mem>>
SameClone == UNCHANGED <<dir, left, ok>>
NoTokens == UNCHANGED appClient

-----------------------------------------------------------------------------
(* The object.                                                             *)

\* The write, refused when the copy is outdated or the call fails, ends the
\* reconcile.
Save(r, o) ==
    /\ \/ /\ current[r] /\ Call(TRUE)
          /\ obj' = o /\ current' = [q \in Replicas |-> FALSE]
       \/ /\ IF current[r] THEN Call(FALSE) ELSE Call(TRUE)
          /\ current' = [current EXCEPT ![r] = FALSE]
          /\ UNCHANGED obj
    /\ mem' = [mem EXCEPT ![r] = NewObject]
    /\ found' = [found EXCEPT ![r] = "NonEmpty"]
    /\ GoTo(r, "idle")
    /\ UNCHANGED gitVars /\ SameClone /\ Quiet /\ NoTokens

\* A handler that reads the object and writes it back; refused, it runs again.
Overwrite(r, o) ==
    /\ obj' = o
    /\ current' = [q \in Replicas |-> FALSE]
    /\ UNCHANGED <<gitVars, mem, pc, found, dir, left, ok>> /\ Quiet

\* With its client the controller reads the organization and the
\* repositories; a call that fails for a repository is a warning only.
Validate(r) ==
    /\ pc[r] = "idle" /\ obj.phase = "Validating"
    /\ \E client, valid \in BOOLEAN :
          /\ GetGitHubClient(r, client)
          /\ Overwrite(r, [obj EXCEPT !.phase = IF client /\ valid THEN "Running" ELSE "Failed"])

FailMigration(r) ==
    /\ pc[r] = "idle" /\ obj.phase = "Running"
    /\ GetGitHubTokenUnified(r, FALSE)
    /\ Overwrite(r, [obj EXCEPT !.phase = "Failed"])

\* The next resource is marked as processing, refused or not.
ProcessResource(r) ==
    /\ pc[r] = "idle" /\ obj.phase = "Running" /\ obj.done < RepoCount
    /\ GetGitHubTokenUnified(r, TRUE)
    /\ mem' = [mem EXCEPT ![r] = obj]
    /\ current' \in {[q \in Replicas |-> q = r], [current EXCEPT ![r] = TRUE]}
    /\ GoTo(r, "branch")
    /\ UNCHANGED <<gitVars, obj, found, dir, left, ok>> /\ Quiet

\* After the last resource; again when that write was refused.
CompleteMigration(r) ==
    /\ obj.phase = "Running" /\ obj.done = RepoCount
    /\ pc[r] = "idle"
    /\ NoTokens /\ UNCHANGED mishaps
    /\ Overwrite(r, [obj EXCEPT !.phase = "Syncing"])

\* A change of the spec, or the trigger, resets the failed resource.
Restart ==
    /\ obj.phase = "Failed"
    /\ Call(FALSE)
    /\ obj' = [obj EXCEPT !.phase = "Running"]
    /\ current' = [q \in Replicas |-> FALSE]
    /\ UNCHANGED <<gitVars, mem, pc, found, dir, left, ok>> /\ Quiet /\ NoTokens

-----------------------------------------------------------------------------
(* processRepository.                                                      *)

\* The branches are detected for the first repository that gives an answer.
Detected(o, k, asked) ==
    IF settings.default # NoBranch THEN [o EXCEPT !.target = settings.default]
    ELSE IF o.source # NoBranch THEN o
    ELSE IF ~asked THEN [o EXCEPT !.target = Main]
    ELSE [o EXCEPT !.source = AdoDefault[k], !.target = AdoDefault[k]]

HandleDefaultBranchSetup(r) ==
    /\ pc[r] = "branch"
    /\ \E asked \in BOOLEAN :
          /\ asked \/ (settings.default = NoBranch /\ mem[r].source = NoBranch)
          /\ GetAzureDevOpsToken(asked)
          /\ mem' = [mem EXCEPT ![r] = Detected(@, At(r), asked)]
    /\ GoTo(r, "check")
    /\ UNCHANGED <<gitVars, obj, current, found>> /\ SameClone /\ Quiet

\* GetRepositoryState: its size may lag behind, and when its default branch
\* cannot be read a repository counts as empty.
States(g) ==
    IF ~g.exists THEN {"NotExists"}
    ELSE IF g.default = NoBranch THEN {"Empty"} ELSE {"NonEmpty"}

ValidateRepositoryState(r) ==
    /\ pc[r] = "check"
    /\ \/ /\ found' = [found EXCEPT ![r] = CHOOSE s \in States(github[At(r)]) : TRUE]
          /\ Call(TRUE)
          /\ GoTo(r, IF github[At(r)].exists THEN "clone" ELSE "create")
       \/ /\ github[At(r)].exists
          /\ found' = [found EXCEPT ![r] = "Empty"]
          /\ Call(FALSE)
          /\ GoTo(r, "clone")
       \/ Call(FALSE) /\ GoTo(r, "failed") /\ UNCHANGED found
    /\ UNCHANGED gitVars /\ SameObject /\ SameClone /\ Quiet /\ NoTokens

\* GitHub refuses a second repository of one name; the creation counts once
\* the repository can be read.
CreateRepository(r) ==
    /\ pc[r] = "create"
    /\ LET g == github[At(r)]
           made == [github EXCEPT ![At(r)] = Created] IN
       \/ ~g.exists /\ github' = made /\ Call(TRUE) /\ GoTo(r, "clone")
       \/ ~g.exists /\ github' \in {github, made} /\ Call(FALSE) /\ GoTo(r, "failed")
       \/ g.exists /\ UNCHANGED github /\ Call(TRUE) /\ GoTo(r, "failed")
    /\ UNCHANGED <<ado, changes, found>> /\ SameObject /\ SameClone /\ Quiet /\ NoTokens

\* After the code, and only where there was none; an error is logged.
SetDefaultBranchAfter(r) ==
    /\ pc[r] = "after"
    /\ LET b == mem[r].target IN
       IF found[r] # "NonEmpty" /\ b \in Branches /\ github[At(r)].refs[b] # Absent
       THEN \/ Call(TRUE) /\ github' = [github EXCEPT ![At(r)].default = b]
            \/ Call(FALSE) /\ UNCHANGED github
       ELSE Call(TRUE) /\ UNCHANGED github
    /\ GoTo(r, "save")
    /\ UNCHANGED <<ado, changes, found>> /\ SameObject /\ SameClone /\ Quiet /\ NoTokens

\* Refused, the resource is transferred once more.
SaveResource(r) ==
    /\ pc[r] = "save"
    /\ Save(r, [mem[r] EXCEPT !.done = @ + 1])

\* Refused, the failure is logged, and nothing asks for another try.
SaveFailure(r) ==
    /\ pc[r] = "failed"
    /\ Save(r, [mem[r] EXCEPT !.phase = "Failed"])

-----------------------------------------------------------------------------
(* MigrateRepository.                                                      *)

\* Without a token for Azure DevOps no code is migrated, and that is no
\* failure.  git refuses a directory that is not empty.
CloneRepository(r) ==
    /\ pc[r] = "clone"
    /\ \/ /\ Call(FALSE) /\ GoTo(r, "after")
          /\ UNCHANGED <<dir, ok>>
       \/ /\ IF dir[r] = Nothing THEN Call(FALSE) ELSE Call(TRUE)
          /\ GoTo(r, "cleanup")
          /\ ok' = [ok EXCEPT ![r] = FALSE]
          /\ UNCHANGED dir
       \/ /\ dir[r] = Nothing
          /\ \E T \in IF settings.shallow THEN SUBSET Tags ELSE {Tags} :
                dir' = [dir EXCEPT ![r] = Clone([b \in Refs |->
                           IF b \in Branches \cup T THEN ado[At(r)][b] ELSE Absent], At(r))]
          /\ Call(TRUE) /\ GoTo(r, "prepare")
          /\ UNCHANGED ok
    /\ UNCHANGED <<gitVars, found, left>> /\ SameObject /\ Quiet /\ NoTokens

Heads(c) == {b \in Branches : c.refs[b] # Absent}

Filtered == settings.include # {} \/ settings.exclude # {}

Kept(c) == FilterBranches(Heads(c), settings.include, settings.exclude, c.head)

KeptByName(b, head) == b \in FilterBranches({b}, settings.include, settings.exclude, head)

\* The origin becomes the repository on GitHub.
PrepareForGitHub(r) ==
    /\ pc[r] = "prepare"
    /\ left' = [left EXCEPT ![r] = Kept(dir[r])]
    /\ Call(TRUE) /\ GoTo(r, "push")
    /\ UNCHANGED <<gitVars, found, dir, ok>> /\ SameObject /\ Quiet /\ NoTokens

\* The push of S ends well, fails on its way, or is rejected.
PushOrFail(r, S, next, rest) ==
    /\ \E done \in BOOLEAN :
          /\ Push(At(r), dir[r].refs, S, done)
          /\ IF Rejected(At(r), dir[r].refs, S) THEN ~done /\ Call(TRUE) ELSE Call(done)
          /\ GoTo(r, IF done THEN next ELSE "cleanup")
          /\ left' = [left EXCEPT ![r] = IF done THEN rest ELSE @]
          /\ ok' = [ok EXCEPT ![r] = FALSE]
    /\ UNCHANGED <<ado, changes, found, dir>> /\ SameObject /\ Quiet /\ NoTokens

\* Mutant: a branch that cannot be pushed is passed over.
PushBranchesOrSkip(r) ==
    /\ pc[r] = "push"
    /\ \/ PushOrFail(r, left[r], "tags", {})
       \/ /\ mishaps < MaxMishaps /\ mishaps' = mishaps + 1
          /\ GoTo(r, "tags") /\ left' = [left EXCEPT ![r] = {}]
          /\ UNCHANGED <<gitVars, found, dir, ok>> /\ SameObject /\ Quiet /\ NoTokens

\* One push for all branches, or one for each that the patterns keep.
PushBranches(r) ==
    /\ pc[r] = "push"
    /\ IF Filtered
       THEN \E b \in left[r] :
               PushOrFail(r, {b}, IF left[r] = {b} THEN "tags" ELSE "push", left[r] \ {b})
       ELSE PushOrFail(r, left[r], "tags", {})

PushTags(r) ==
    /\ pc[r] = "tags"
    /\ PushOrFail(r, Tags, "default", {})

\* Three tries at a branch that GitHub may not know; then it is verified
\* that the repository can be read, and the answer is logged.
SetDefaultBranch(r) ==
    /\ pc[r] = "default"
    /\ LET b == dir[r].head IN
       \/ /\ github[At(r)].refs[b] # Absent
          /\ github' = [github EXCEPT ![At(r)].default = b]
          /\ Call(TRUE) /\ ok' = [ok EXCEPT ![r] = TRUE]
       \/ /\ IF github[At(r)].refs[b] # Absent THEN Call(FALSE) ELSE Call(TRUE)
          /\ UNCHANGED <<github, ok>>
    /\ GoTo(r, "cleanup")
    /\ UNCHANGED <<ado, changes, found, dir, left>> /\ SameObject /\ Quiet /\ NoTokens

\* The deferred removal of the directory, however the transfer ends.
Cleanup(r) ==
    /\ pc[r] = "cleanup"
    /\ \E removed \in BOOLEAN :
          /\ Call(removed)
          /\ dir' = [dir EXCEPT ![r] = IF removed THEN Nothing ELSE @]
    /\ left' = [left EXCEPT ![r] = {}]
    /\ ok' = [ok EXCEPT ![r] = FALSE]
    /\ GoTo(r, IF ok[r] THEN "after" ELSE "failed")
    /\ UNCHANGED <<gitVars, found>> /\ SameObject /\ Quiet /\ NoTokens

-----------------------------------------------------------------------------
Transfer(r) ==
    \/ Validate(r) \/ FailMigration(r) \/ ProcessResource(r) \/ CompleteMigration(r)
    \/ HandleDefaultBranchSetup(r) \/ ValidateRepositoryState(r) \/ CreateRepository(r)
    \/ CloneRepository(r) \/ PrepareForGitHub(r) \/ PushBranches(r) \/ PushTags(r)
    \/ SetDefaultBranch(r) \/ Cleanup(r) \/ SetDefaultBranchAfter(r)
    \/ SaveResource(r) \/ SaveFailure(r)
=============================================================================
