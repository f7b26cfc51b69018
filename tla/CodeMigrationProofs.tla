-------------------------- MODULE CodeMigrationProofs --------------------------
(***************************************************************************)
(* Proofs about the way of the code.  What a replica pushes is a clone of  *)
(* the repository at work; GitHub has what is no longer left to be pushed, *)
(* at the clone's commit or a later one, whoever else pushes to it, until  *)
(* the synchronization mirrors; and nothing else takes a reference back.   *)
(***************************************************************************)
EXTENDS CodeMigration, TLAPS

\* A commit on GitHub, and what is known of a reference elsewhere.
Commits == Nat \cup {Theirs}

Names == Branches \cup {NoBranch}

Places == {"idle", "branch", "check", "create", "clone", "prepare", "push", "tags", "default",
           "cleanup", "after", "save", "failed", "sync", "mirror"}

\* Every repository on GitHub, every directory and every version of the object there may be.
Repository == [exists : BOOLEAN, refs : [Refs -> Commits], default : Names]

Directory == [cloned : {"no", "yes", "killed"}, refs : [Refs -> Nat], head : Names]

Version == [phase : {"Validating", "Running", "Failed", "Syncing"}, done : 0 .. RepoCount,
            source : Names, target : Names \cup {Main}]

TypeOK ==
    /\ ado \in [Repos -> [Refs -> Nat]]
    /\ github \in [Repos -> Repository]
    /\ changes \in Nat
    /\ settings \in Settings
    /\ obj \in Version
    /\ mem \in [Replicas -> Version]
    /\ current \in [Replicas -> BOOLEAN]
    /\ pc \in [Replicas -> Places]
    /\ dir \in [Replicas -> Directory]
    /\ left \in [Replicas -> SUBSET Branches]
    /\ ok \in [Replicas -> BOOLEAN]
    /\ syncDir \in [Replicas -> [Repos -> Directory]]
    /\ syncing \in [Replicas -> Repos]

\* The migration is over: from here on the synchronization mirrors.
Over(o) == o.phase = "Syncing"

\* A copy whose write would be accepted is one of a running migration.
Latest(r) == current[r] => obj.phase = "Running" /\ mem[r].phase = "Running"

\* Who synchronizes does so after the migration; who transfers has a repository to transfer.
Placed(r) ==
    /\ pc[r] \in {"sync", "mirror"} => Over(obj)
    /\ pc[r] \notin {"idle", "sync", "mirror"} => mem[r].done < RepoCount

\* The places of r between the clone and the end of the push.
Transferring(r) == pc[r] \in {"prepare", "push", "tags", "default"}

Transferred(r) == pc[r] = "cleanup" /\ ok[r]

\* What is pushed is a clone of the resource at work, into a repository that is there.
Prepared(r) ==
    /\ pc[r] = "clone" \/ Transferring(r) => github[At(r)].exists
    /\ Transferring(r) \/ Transferred(r) => dir[r].head = AdoDefault[At(r)]

\* GitHub has the reference b as the clone has it, or a later commit.
Arrived(r, b) ==
    LET n == github[At(r)].refs[b] IN n = Theirs \/ n >= dir[r].refs[b]

\* GitHub has the branches that are not left to be pushed, and then the tags.
Pushed(r) ==
    /\ pc[r] = "push" =>
          left[r] \subseteq Kept(dir[r]) /\ \A b \in Kept(dir[r]) \ left[r] : Arrived(r, b)
    /\ pc[r] \in {"tags", "default"} \/ Transferred(r) => \A b \in Kept(dir[r]) : Arrived(r, b)
    /\ pc[r] = "default" \/ Transferred(r) =>
          \A t \in Tags : dir[r].refs[t] # Absent => Arrived(r, t)

\* A repository that is not there is empty, and one that is there has no other branches than
\* those the patterns keep.
Admitted(k) ==
    /\ ~github[k].exists => \A b \in Refs : github[k].refs[b] = Absent
    /\ ~Over(obj) => \A b \in Branches :
                        github[k].refs[b] # Absent => KeptByName(b, AdoDefault[k])

\* The inductive invariant.
CodeInv ==
    /\ TypeOK
    /\ \A k \in Repos : Admitted(k)
    /\ \A r \in Replicas :
          Latest(r) /\ Placed(r) /\ Prepared(r) /\ (~Over(obj) => Pushed(r))

-----------------------------------------------------------------------------
(* What a step leaves as it was.                                           *)

\* A reference that is not taken back: users put commits of their own on it, pushes move it on.
Forward(old, new) == old = new \/ new = Theirs \/ (old # Theirs /\ old <= new)

\* Repositories stay, and until the migration is over nothing on them is taken back.
Grows ==
    \A k \in Repos :
        /\ github[k].exists => github'[k].exists
        /\ ~Over(obj') => \A b \in Refs : Forward(github[k].refs[b], github'[k].refs[b])

\* The settings stay, and a migration that is over stays over.
Lasting == settings' = settings /\ (Over(obj) => Over(obj'))

\* The resource at work is one of the migration.
LEMMA AtRepo ==
    ASSUME GitAssumption, TypeOK, NEW r \in Replicas, mem[r].done < RepoCount
    PROVE  At(r) \in Repos
<1>1. mem[r].done \in 0 .. RepoCount /\ RepoCount \in Nat
  BY DEF GitAssumption, TypeOK, Version
<1> QED
  BY <1>1 DEF At, Repos

\* What has arrived is not taken back.
LEMMA ArrivedStays ==
    ASSUME TypeOK, TypeOK', NEW r \in Replicas, At(r) \in Repos, mem'[r] = mem[r],
           dir'[r] = dir[r], Grows, ~Over(obj'), NEW b \in Refs, Arrived(r, b)
    PROVE  Arrived(r, b)'
<1> DEFINE k == At(r)
           n == github[k].refs[b]
           m == github'[k].refs[b]
           c == dir[r].refs[b]
<1>1. n \in Int /\ m \in Int /\ c \in Int
  BY DEF TypeOK, Repository, Directory, Commits, Theirs
<1>2. Forward(n, m)
  BY DEF Grows
<1>3. n = Theirs \/ n >= c
  BY DEF Arrived
<1>4. At(r)' = k /\ dir'[r].refs[b] = c
  BY DEF At
<1> HIDE DEF n, m, c, k
<1>5. m = Theirs \/ m >= c
  BY <1>1, <1>2, <1>3 DEF Forward
<1> QED
  BY <1>4, <1>5 DEF Arrived, m

\* A replica that does not move finds what it has found.
LEMMA Stays ==
    ASSUME GitAssumption, CodeInv, TypeOK', NEW r \in Replicas, Grows, Lasting,
           mem'[r] = mem[r], pc'[r] = pc[r], dir'[r] = dir[r], left'[r] = left[r], ok'[r] = ok[r]
    PROVE  Placed(r)' /\ Prepared(r)' /\ (~Over(obj') => Pushed(r)')
<1>1. Placed(r) /\ Prepared(r) /\ (~Over(obj) => Pushed(r)) /\ TypeOK
  BY DEF CodeInv
<1>2. Placed(r)'
  BY <1>1 DEF Placed, Lasting
<1>3. pc[r] \notin {"idle", "sync", "mirror"} => At(r) \in Repos
  BY <1>1, AtRepo DEF Placed
<1>4. At(r)' = At(r) /\ Transferring(r)' = Transferring(r) /\ Transferred(r)' = Transferred(r)
  BY DEF At, Transferring, Transferred
<1>5. Prepared(r)'
  BY <1>1, <1>3, <1>4 DEF Prepared, Grows, Transferring
<1>6. ASSUME ~Over(obj') PROVE Pushed(r)'
  <2>1. Pushed(r)
    BY <1>1, <1>6 DEF Lasting
  <2>2. Kept(dir[r])' = Kept(dir[r]) /\ Kept(dir[r]) \subseteq Refs
    BY DEF Lasting, Kept, Heads, FilterBranches, Refs
  <2>3. pc[r] \notin {"idle", "sync", "mirror"} =>
            \A b \in Refs : Arrived(r, b) => Arrived(r, b)'
    BY <1>1, <1>3, <1>6, ArrivedStays
  <2>4. pc[r] = "push" \/ pc[r] \in {"tags", "default"} \/ Transferred(r)
            => pc[r] \notin {"idle", "sync", "mirror"}
    BY DEF Transferred
  <2>5. Tags \subseteq Refs
    BY DEF Refs
  <2>6. CASE pc[r] = "push" \/ pc[r] \in {"tags", "default"} \/ Transferred(r)
    <3>1. \A b \in Refs : Arrived(r, b) => Arrived(r, b)'
      BY <2>3, <2>4, <2>6
    <3>2. pc'[r] = "push" =>
              left'[r] \subseteq Kept(dir[r])' /\ \A b \in Kept(dir[r])' \ left'[r] : Arrived(r, b)'
      BY <2>1, <2>2, <3>1 DEF Pushed
    <3>3. pc'[r] \in {"tags", "default"} \/ Transferred(r)' =>
              \A b \in Kept(dir[r])' : Arrived(r, b)'
      BY <1>4, <2>1, <2>2, <3>1 DEF Pushed
    <3>4. pc'[r] = "default" \/ Transferred(r)' =>
              \A t \in Tags : dir'[r].refs[t] # Absent => Arrived(r, t)'
      BY <1>4, <2>1, <2>5, <3>1 DEF Pushed
    <3> QED
      BY <3>2, <3>3, <3>4 DEF Pushed
  <2>7. CASE ~(pc[r] = "push" \/ pc[r] \in {"tags", "default"} \/ Transferred(r))
    BY <1>4, <2>7 DEF Pushed
  <2> QED
    BY <2>6, <2>7
<1> QED
  BY <1>2, <1>5, <1>6

\* The repositories are as they were.
LEMMA GithubStays ==
    ASSUME CodeInv, Lasting, github' = github
    PROVE  Grows /\ \A k \in Repos : Admitted(k)'
<1>1. Grows
  BY DEF Grows, Forward
<1>2. \A k \in Repos : Admitted(k)'
  BY DEF CodeInv, Admitted, Lasting, KeptByName, FilterBranches
<1> QED
  BY <1>1, <1>2

\* The invariant after a step of r.
LEMMA Assemble ==
    ASSUME GitAssumption, CodeInv, TypeOK', NEW r \in Replicas, Grows, Lasting,
           \A k \in Repos : Admitted(k)', \A q \in Replicas : Latest(q)',
           Placed(r)' /\ Prepared(r)' /\ (~Over(obj') => Pushed(r)'),
           \A q \in Replicas \ {r} : /\ mem'[q] = mem[q] /\ pc'[q] = pc[q] /\ dir'[q] = dir[q]
                                     /\ left'[q] = left[q] /\ ok'[q] = ok[q]
    PROVE  CodeInv'
<1>1. \A q \in Replicas : Placed(q)' /\ Prepared(q)' /\ (~Over(obj') => Pushed(q)')
  BY Stays
<1> QED
  BY <1>1 DEF CodeInv, Over

\* A step that moves r to a place where nothing is asked of it.
LEMMA Elsewhere ==
    ASSUME NEW r \in Replicas, pc'[r] \notin {"clone", "prepare", "push", "tags", "default"},
           pc'[r] = "cleanup" => ~ok'[r]
    PROVE  Prepared(r)' /\ Pushed(r)'
BY DEF Prepared, Pushed, Transferring, Transferred

-----------------------------------------------------------------------------
(* The object.                                                             *)

\* The versions that a handler makes of another one.
LEMMA VersionChange ==
    ASSUME NEW o \in Version,
           NEW phase \in {"Validating", "Running", "Failed", "Syncing"}
    PROVE  /\ [o EXCEPT !.phase = phase] \in Version
           /\ [o EXCEPT !.phase = phase].phase = phase
BY DEF Version

LEMMA NewObjectTyped ==
    ASSUME GitAssumption
    PROVE  NewObject \in Version /\ Nothing \in Directory /\ Remains \in Directory
<1>1. 0 \in 0 .. RepoCount
  BY DEF GitAssumption
<1>2. NoRefs \in [Refs -> Nat]
  BY DEF NoRefs, Absent
<1> QED
  BY <1>1, <1>2 DEF NewObject, Version, Names, Nothing, Directory, Remains

\* A write of a reconcile, accepted from a copy of the running migration.
LEMMA SaveKeeps ==
    ASSUME GitAssumption, CodeInv, NEW r \in Replicas, NEW o \in Version, Save(r, o),
           UNCHANGED syncVars, current[r] => o.phase # "Syncing"
    PROVE  CodeInv'
<1>1. /\ UNCHANGED <<ado, github, changes, settings, dir, left, ok, syncDir, syncing>>
      /\ mem' = [mem EXCEPT ![r] = NewObject] /\ pc' = [pc EXCEPT ![r] = "idle"]
  BY DEF Save, GoTo, SameClone, Quiet, gitVars, syncVars
<1>2. /\ obj' \in Version /\ current' \in [Replicas -> BOOLEAN] /\ Lasting
      /\ \A q \in Replicas : current'[q] => q # r /\ current[q] /\ obj' = obj
  <2>1. CASE current[r] /\ obj' = o /\ current' = [q \in Replicas |-> FALSE]
    <3>1. ~Over(obj)
      BY <2>1 DEF CodeInv, Latest, Over
    <3> QED
      BY <1>1, <2>1, <3>1 DEF Lasting
  <2>2. CASE current' = [current EXCEPT ![r] = FALSE] /\ UNCHANGED obj
    BY <1>1, <2>2 DEF CodeInv, TypeOK, Lasting, Over
  <2> QED
    BY <2>1, <2>2 DEF Save
<1>3. TypeOK'
  BY <1>1, <1>2, NewObjectTyped DEF CodeInv, TypeOK, Places
<1>4. /\ pc'[r] = "idle"
      /\ \A q \in Replicas \ {r} : pc'[q] = pc[q] /\ mem'[q] = mem[q]
  BY <1>1 DEF CodeInv, TypeOK
<1>5. Grows /\ \A k \in Repos : Admitted(k)'
  BY <1>1, <1>2, GithubStays
<1>6. \A q \in Replicas : Latest(q)'
  BY <1>2, <1>4 DEF CodeInv, Latest
<1>7. Placed(r)' /\ Prepared(r)' /\ Pushed(r)'
  BY <1>4, Elsewhere DEF Placed
<1> QED
  BY <1>1, <1>2, <1>3, <1>4, <1>5, <1>6, <1>7, Assemble

\* A handler that reads the object and writes it back.
LEMMA OverwriteKeeps ==
    ASSUME GitAssumption, CodeInv, NEW phase \in {"Running", "Failed", "Syncing"},
           Overwrite(CHOOSE r : TRUE, [obj EXCEPT !.phase = phase]), UNCHANGED syncVars,
           Over(obj) => phase = "Syncing"
    PROVE  CodeInv'
<1> DEFINE o == [obj EXCEPT !.phase = phase]
<1>1. o \in Version /\ o.phase = phase
  BY VersionChange DEF CodeInv, TypeOK
<1> HIDE DEF o
<1>2. /\ UNCHANGED <<ado, github, changes, settings, mem, pc, dir, left, ok, syncDir, syncing>>
      /\ obj' = o /\ current' = [q \in Replicas |-> FALSE]
  BY DEF Overwrite, Quiet, gitVars, syncVars, o
<1>3. TypeOK'
  BY <1>1, <1>2 DEF CodeInv, TypeOK
<1>4. Lasting
  BY <1>1, <1>2 DEF Lasting, Over
<1>5. Grows /\ \A k \in Repos : Admitted(k)'
  BY <1>2, <1>4, GithubStays
<1>6. \A q \in Replicas : Latest(q)' /\ Placed(q)' /\ Prepared(q)' /\ (~Over(obj') => Pushed(q)')
  BY <1>2, <1>3, <1>4, <1>5, Stays DEF Latest
<1> QED
  BY <1>3, <1>5, <1>6 DEF CodeInv, Over

\* The handlers of the object, and the users who ask for another try.
LEMMA ObjectKeeps ==
    ASSUME GitAssumption, CodeInv, NEW r \in Replicas, UNCHANGED syncVars,
           \/ Validate(r) \/ FailMigration(r) \/ CompleteMigration(r) \/ Restart
           \/ SaveResource(r) \/ SaveFailure(r)
    PROVE  CodeInv'
<1>0. \A q \in Replicas : \A o : Overwrite(q, o) => Overwrite(CHOOSE s : TRUE, o)
  BY DEF Overwrite
<1>1. CASE Validate(r)
  <2>1. PICK phase \in {"Running", "Failed"} : Overwrite(r, [obj EXCEPT !.phase = phase])
    BY <1>1 DEF Validate
  <2>2. ~Over(obj)
    BY <1>1 DEF Validate, Over
  <2> QED
    BY <1>0, <2>1, <2>2, OverwriteKeeps
<1>2. CASE FailMigration(r)
  <2>1. Overwrite(r, [obj EXCEPT !.phase = "Failed"]) /\ ~Over(obj)
    BY <1>2 DEF FailMigration, Over
  <2> QED
    BY <1>0, <2>1, OverwriteKeeps
<1>3. CASE CompleteMigration(r)
  <2>1. Overwrite(r, [obj EXCEPT !.phase = "Syncing"])
    BY <1>3 DEF CompleteMigration
  <2> QED
    BY <1>0, <2>1, OverwriteKeeps
<1>4. CASE Restart
  <2>1. Overwrite(CHOOSE s : TRUE, [obj EXCEPT !.phase = "Running"]) /\ ~Over(obj)
    BY <1>4 DEF Restart, Overwrite, Over
  <2> QED
    BY <2>1, OverwriteKeeps
<1>5. CASE SaveResource(r)
  <2> DEFINE n == mem[r].done + 1
             o == [mem[r] EXCEPT !.done = n]
  <2>1. Save(r, o) /\ pc[r] = "save"
    BY <1>5 DEF SaveResource
  <2>2. mem[r] \in Version /\ mem[r].done < RepoCount /\ (current[r] => mem[r].phase = "Running")
    BY <2>1 DEF CodeInv, TypeOK, Placed, Latest
  <2>3. n \in 0 .. RepoCount
    BY <2>2 DEF Version, GitAssumption
  <2> HIDE DEF n
  <2>4. o \in Version /\ o.phase = mem[r].phase
    BY <2>2, <2>3 DEF Version
  <2> QED
    BY <2>1, <2>2, <2>4, SaveKeeps
<1>6. CASE SaveFailure(r)
  <2> DEFINE o == [mem[r] EXCEPT !.phase = "Failed"]
  <2>1. Save(r, o) /\ o \in Version /\ o.phase = "Failed"
    BY <1>6, VersionChange DEF SaveFailure, CodeInv, TypeOK
  <2> QED
    BY <2>1, SaveKeeps
<1> QED
  BY <1>1, <1>2, <1>3, <1>4, <1>5, <1>6

-----------------------------------------------------------------------------
(* Pushes.                                                                 *)

\* What GitHub has after a push of S: the references that arrived, and a default branch.
LEMMA AfterMoves ==
    ASSUME NEW g \in Repository, NEW refs \in [Refs -> Commits], NEW S \in SUBSET Refs,
           NEW h \in After(g, refs, S)
    PROVE  /\ h \in Repository
           /\ h.exists = g.exists
           /\ \A b \in Refs : h.refs[b] = IF b \in S THEN refs[b] ELSE g.refs[b]
<1> DEFINE new == [b \in Refs |-> IF b \in S THEN refs[b] ELSE g.refs[b]]
           heads == {b \in Branches : new[b] # Absent}
<1>1. g.exists \in BOOLEAN /\ g.refs \in [Refs -> Commits] /\ g.default \in Names
  BY DEF Repository
<1>2. new \in [Refs -> Commits]
  BY <1>1
<1>3. heads \subseteq Names
  BY DEF Names
<1>4. PICK d \in IF g.default = NoBranch /\ heads # {} THEN heads ELSE {g.default} :
          h = [g EXCEPT !.refs = new, !.default = d]
  BY DEF After
<1>5. d \in Names
  BY <1>1, <1>3, <1>4
<1> HIDE DEF heads
<1>6. h = [exists |-> g.exists, refs |-> new, default |-> d]
  <2> HIDE DEF new
  <2> QED
    BY <1>4 DEF Repository
<1>7. \A b \in Refs : new[b] = IF b \in S THEN refs[b] ELSE g.refs[b]
  OBVIOUS
<1> HIDE DEF new
<1> QED
  BY <1>1, <1>2, <1>5, <1>6, <1>7 DEF Repository

\* A push moves references forward, creates them, or leaves them.
LEMMA PushMoves ==
    ASSUME TypeOK, NEW k \in Repos, NEW refs \in [Refs -> Nat], NEW S \in SUBSET Refs,
           NEW T \in SUBSET Taken(refs, github[k], S), NEW h \in After(github[k], refs, T),
           github' = [github EXCEPT ![k] = h]
    PROVE  /\ \A j \in Repos : j # k => github'[j] = github[j]
           /\ github'[k].exists = github[k].exists
           /\ \A b \in Refs : \/ github'[k].refs[b] = github[k].refs[b]
                              \/ /\ b \in S /\ refs[b] # Absent /\ github'[k].refs[b] = refs[b]
                                 /\ Follows(refs[b], github[k].refs[b])
<1> DEFINE g == github[k]
<1>1. T \in SUBSET Refs /\ \A b \in T : b \in S /\ refs[b] # Absent /\ Follows(refs[b], g.refs[b])
  BY DEF Taken
<1>2. g \in Repository /\ refs \in [Refs -> Commits] /\ github \in [Repos -> Repository]
  BY DEF TypeOK, Commits
<1>3. /\ h \in Repository /\ h.exists = g.exists
      /\ \A b \in Refs : h.refs[b] = IF b \in T THEN refs[b] ELSE g.refs[b]
  <2>1. h \in After(g, refs, T)
    OBVIOUS
  <2> HIDE DEF g
  <2> QED
    BY <1>1, <1>2, <2>1, AfterMoves
<1>4. github'[k] = h /\ \A j \in Repos : j # k => github'[j] = github[j]
  BY <1>2, <1>3
<1>5. \A b \in Refs : \/ h.refs[b] = g.refs[b]
                      \/ /\ b \in S /\ refs[b] # Absent /\ h.refs[b] = refs[b]
                         /\ Follows(refs[b], g.refs[b])
  BY <1>1, <1>3
<1> QED
  BY <1>3, <1>4, <1>5

\* What a push moves, it moves forward.
LEMMA FollowsForward ==
    ASSUME NEW old \in Commits, NEW new \in Nat, Follows(new, old)
    PROVE  old # Theirs /\ old <= new /\ Forward(old, new)
BY DEF Follows, Forward, Commits, Absent, Theirs

\* A push to a repository that is there, of references that the patterns keep.
LEMMA PushGrows ==
    ASSUME GitAssumption, CodeInv, Lasting, NEW k \in Repos, NEW refs \in [Refs -> Nat],
           NEW S \in SUBSET Refs,
           NEW T \in SUBSET Taken(refs, github[k], S), NEW h \in After(github[k], refs, T),
           github' = [github EXCEPT ![k] = h], github[k].exists,
           ~Over(obj) => \A b \in S \cap Branches : KeptByName(b, AdoDefault[k])
    PROVE  Grows /\ \A j \in Repos : Admitted(j)'
<1>1. TypeOK /\ \A j \in Repos : Admitted(j)
  BY DEF CodeInv
<1>2. /\ \A j \in Repos : j # k => github'[j] = github[j]
      /\ github'[k].exists = github[k].exists
      /\ \A b \in Refs : \/ github'[k].refs[b] = github[k].refs[b]
                         \/ /\ b \in S /\ refs[b] # Absent /\ github'[k].refs[b] = refs[b]
                            /\ Follows(refs[b], github[k].refs[b])
  BY <1>1, PushMoves
<1>3. \A b \in Refs : Forward(github[k].refs[b], github'[k].refs[b])
  <2> TAKE b \in Refs
  <2>1. github[k].refs[b] \in Commits /\ refs[b] \in Nat
    BY <1>1 DEF TypeOK, Repository
  <2> QED
    BY <1>2, <2>1, FollowsForward DEF Forward
<1>4. Grows
  BY <1>2, <1>3 DEF Grows, Forward
<1>5. ~Over(obj') => ~Over(obj)
  BY DEF Lasting
<1>6. \A b \in Branches : \A d : KeptByName(b, d)' = KeptByName(b, d)
  BY DEF KeptByName, FilterBranches, Lasting
<1>7. Admitted(k)'
  <2>1. ~Over(obj') => \A b \in Branches :
            github'[k].refs[b] # Absent => KeptByName(b, AdoDefault[k])
    <3> SUFFICES ASSUME ~Over(obj'), NEW b \in Branches, github'[k].refs[b] # Absent
                 PROVE  KeptByName(b, AdoDefault[k])
      OBVIOUS
    <3>1. b \in Refs
      BY DEF Refs
    <3>2. CASE github'[k].refs[b] = github[k].refs[b]
      BY <1>1, <1>5, <3>2 DEF Admitted
    <3>3. CASE b \in S
      BY <1>5, <3>3
    <3> QED
      BY <1>2, <3>1, <3>2, <3>3
  <2> QED
    BY <1>2, <1>6, <2>1 DEF Admitted
<1>8. \A j \in Repos : j # k => Admitted(j)'
  BY <1>1, <1>2, <1>5, <1>6 DEF Admitted
<1> QED
  BY <1>2, <1>4, <1>7, <1>8

\* Another default branch leaves the references of a repository as they are.
LEMMA DefaultGrows ==
    ASSUME CodeInv, Lasting, NEW k \in Repos, NEW b \in Branches,
           github' = [github EXCEPT ![k].default = b]
    PROVE  github' \in [Repos -> Repository] /\ Grows /\ \A j \in Repos : Admitted(j)'
<1>1. github \in [Repos -> Repository]
  BY DEF CodeInv, TypeOK
<1>2. b \in Names
  BY DEF Names
<1>3. github' \in [Repos -> Repository]
  BY <1>1, <1>2 DEF Repository
<1>4. \A j \in Repos : github'[j].exists = github[j].exists /\ github'[j].refs = github[j].refs
  BY <1>1 DEF Repository
<1>5. Grows
  BY <1>4 DEF Grows, Forward
<1>6. \A j \in Repos : Admitted(j)'
  BY <1>4 DEF CodeInv, Admitted, Lasting, KeptByName, FilterBranches
<1> QED
  BY <1>3, <1>5, <1>6

\* The branches of a clone that are kept are kept for their names.
LEMMA KeptNames ==
    ASSUME NEW r \in Replicas, NEW b \in Kept(dir[r])
    PROVE  /\ b \in Branches /\ dir[r].refs[b] # Absent
           /\ KeptByName(b, dir[r].head)
BY DEF Kept, Heads, KeptByName, FilterBranches

\* The push of S, of the branches or of the tags: what was left, and arrives when the push ends
\* well, is taken from what is left.
LEMMA PushKeeps ==
    ASSUME GitAssumption, CodeInv, NEW r \in Replicas, NEW S \in SUBSET Refs,
           NEW next \in {"push", "tags", "default"}, NEW rest \in SUBSET Branches,
           PushOrFail(r, S, next, rest), UNCHANGED syncVars,
           pc[r] \in {"push", "tags"},
           ~Over(obj) => S \cap Branches \subseteq Kept(dir[r]),
           pc[r] = "push" => /\ next # "default" /\ left[r] \subseteq S \cup rest
                             /\ rest \subseteq left[r] /\ (next = "tags" => rest = {}),
           pc[r] = "tags" => next = "default" /\ Tags \subseteq S /\ rest = {}
    PROVE  CodeInv'
<1>1. TypeOK /\ Placed(r) /\ Prepared(r) /\ (~Over(obj) => Pushed(r))
  BY DEF CodeInv
<1>2. /\ At(r) \in Repos /\ github[At(r)].exists /\ dir[r].head = AdoDefault[At(r)]
      /\ dir[r].refs \in [Refs -> Nat]
  BY <1>1, AtRepo DEF Placed, Prepared, Transferring, TypeOK, Directory
<1>3. PICK k \in Repos, refs \in [Refs -> Nat] : k = At(r) /\ refs = dir[r].refs
  BY <1>2
<1>4. /\ UNCHANGED <<ado, changes, settings, obj, current, mem, dir, syncDir, syncing>>
      /\ Lasting
  BY DEF PushOrFail, SameObject, Quiet, Lasting, syncVars
<1>5. PICK done \in BOOLEAN :
          /\ Push(k, refs, S, done)
          /\ pc' = [pc EXCEPT ![r] = IF done THEN next ELSE "cleanup"]
          /\ left' = [left EXCEPT ![r] = IF done THEN rest ELSE @]
          /\ ok' = [ok EXCEPT ![r] = FALSE]
  BY <1>3 DEF PushOrFail, GoTo
<1>6. PICK T \in SUBSET Taken(refs, github[k], S) :
          /\ done => T = {b \in S : refs[b] # Absent}
          /\ \E g \in After(github[k], refs, T) : github' = [github EXCEPT ![k] = g]
  BY <1>3, <1>5 DEF Push
<1>0. PICK h \in After(github[k], refs, T) : github' = [github EXCEPT ![k] = h]
  BY <1>6
<1>7. github' \in [Repos -> Repository] /\ \A b \in T : github'[k].refs[b] = refs[b]
  <2>1. github \in [Repos -> Repository] /\ refs \in [Refs -> Commits]
    BY <1>1 DEF TypeOK, Commits
  <2>2. PICK g \in Repository : g = github[k]
    BY <2>1
  <2>3. h \in After(g, refs, T) /\ T \in SUBSET Refs
    BY <2>2 DEF Taken
  <2>4. h \in Repository /\ \A b \in Refs : h.refs[b] = IF b \in T THEN refs[b] ELSE g.refs[b]
    BY <2>1, <2>3, AfterMoves
  <2>5. github' \in [Repos -> Repository] /\ github'[k] = h
    BY <1>0, <2>1, <2>4
  <2> QED
    BY <2>3, <2>4, <2>5
<1>8. Grows /\ \A j \in Repos : Admitted(j)'
  <2>1. ~Over(obj) => \A b \in S \cap Branches : KeptByName(b, AdoDefault[k])
    BY <1>2, <1>3, KeptNames
  <2>2. github[k].exists
    BY <1>2, <1>3
  <2> QED
    BY <1>0, <1>4, <2>1, <2>2, PushGrows
<1>9. /\ pc'[r] = IF done THEN next ELSE "cleanup"
      /\ done => left'[r] = rest
      /\ ~ok'[r]
      /\ \A q \in Replicas \ {r} : pc'[q] = pc[q] /\ left'[q] = left[q] /\ ok'[q] = ok[q]
  BY <1>1, <1>5, Zenon DEF TypeOK
<1>10. TypeOK'
  <2>1. pc' \in [Replicas -> Places]
    BY <1>1, <1>5 DEF TypeOK, Places
  <2>2. left' \in [Replicas -> SUBSET Branches] /\ ok' \in [Replicas -> BOOLEAN]
    BY <1>1, <1>5 DEF TypeOK
  <2> QED
    BY <1>1, <1>4, <1>7, <2>1, <2>2 DEF TypeOK
<1>11. \A q \in Replicas : Latest(q)'
  BY <1>4 DEF CodeInv, Latest
<1>12. Placed(r)' /\ Prepared(r)'
  <2>1. At(r)' = k /\ k = At(r)
    BY <1>3, <1>4 DEF At
  <2>2. github'[k].exists
    BY <1>2, <1>3, <1>8 DEF Grows
  <2>3. Placed(r)'
    BY <1>1, <1>4, <1>9 DEF Placed
  <2> QED
    BY <1>2, <1>4, <1>9, <2>1, <2>2, <2>3 DEF Prepared, Transferring, Transferred
<1>13. ASSUME ~Over(obj') PROVE Pushed(r)'
  <2>1. CASE ~done
    BY <1>9, <2>1 DEF Pushed, Transferred
  <2>2. CASE done
    <3>1. Pushed(r)
      BY <1>1, <1>4, <1>13
    <3>2. \A b \in Refs : Arrived(r, b) => Arrived(r, b)'
      BY <1>1, <1>2, <1>4, <1>8, <1>10, <1>13, ArrivedStays
    <3>3. \A b \in S : refs[b] # Absent => Arrived(r, b)'
      <4> SUFFICES ASSUME NEW b \in S, refs[b] # Absent
                   PROVE  Arrived(r, b)'
        OBVIOUS
      <4>1. github'[k].refs[b] = refs[b]
        BY <1>6, <1>7, <2>2
      <4>2. refs[b] \in Nat
        BY <1>3
      <4>3. At(r)' = k /\ dir'[r].refs[b] = refs[b]
        BY <1>3, <1>4 DEF At
      <4>4. refs[b] >= refs[b]
        BY <4>2
      <4> QED
        BY <4>1, <4>3, <4>4 DEF Arrived
    <3>4. Kept(dir[r])' = Kept(dir[r]) /\ Kept(dir[r]) \subseteq Refs
      BY <1>4 DEF Kept, Heads, FilterBranches, Refs
    <3>5. \A b \in Kept(dir[r]) : refs[b] # Absent
      BY <1>3, KeptNames
    <3>6. CASE pc[r] = "push"
      <4>1. left'[r] \subseteq Kept(dir[r])'
        BY <1>9, <2>2, <3>1, <3>4, <3>6 DEF Pushed
      <4>2. \A b \in Kept(dir[r])' \ left'[r] : Arrived(r, b)'
        <5> SUFFICES ASSUME NEW b \in Kept(dir[r]), b \notin rest
                     PROVE  Arrived(r, b)'
          BY <1>9, <2>2, <3>4
        <5>1. CASE b \in left[r]
          <6>1. b \in S
            BY <3>6, <5>1
          <6> QED
            BY <3>3, <3>5, <6>1
        <5>2. CASE b \notin left[r]
          <6>1. Arrived(r, b) /\ b \in Refs
            BY <3>1, <3>4, <3>6, <5>2 DEF Pushed
          <6> QED
            BY <3>2, <6>1
        <5> QED
          BY <5>1, <5>2
      <4>3. pc'[r] = "push" \/ (pc'[r] = "tags" /\ left'[r] = {})
        BY <1>9, <2>2, <3>6
      <4>4. ~Transferred(r)'
        BY <4>3 DEF Transferred
      <4> QED
        BY <4>1, <4>2, <4>3, <4>4 DEF Pushed
    <3>7. CASE pc[r] = "tags"
      <4>1. \A b \in Kept(dir[r])' : Arrived(r, b)'
        BY <3>1, <3>2, <3>4, <3>7 DEF Pushed
      <4>2. \A t \in Tags : dir'[r].refs[t] # Absent => Arrived(r, t)'
        BY <1>3, <1>4, <3>3, <3>7
      <4>3. pc'[r] = "default"
        BY <1>9, <2>2, <3>7
      <4> QED
        BY <4>1, <4>2, <4>3 DEF Pushed
    <3> QED
      BY <3>6, <3>7
  <2> QED
    BY <2>1, <2>2
<1> QED
  BY <1>4, <1>8, <1>9, <1>10, <1>11, <1>12, <1>13, Assemble

\* The branches, one push for all or one for each, and the tags.
LEMMA PushesKeep ==
    ASSUME GitAssumption, CodeInv, NEW r \in Replicas, UNCHANGED syncVars,
           PushBranches(r) \/ PushTags(r)
    PROVE  CodeInv'
<1>1. left[r] \in SUBSET Branches /\ Branches \subseteq Refs /\ Tags \subseteq Refs
  BY DEF CodeInv, TypeOK, Refs
<1>2. CASE PushBranches(r)
  <2>1. pc[r] = "push" /\ (~Over(obj) => left[r] \subseteq Kept(dir[r]))
    BY <1>2 DEF PushBranches, CodeInv, Pushed
  <2>2. CASE Filtered
    <3>1. PICK b \in left[r] :
              PushOrFail(r, {b}, IF left[r] = {b} THEN "tags" ELSE "push", left[r] \ {b})
      BY <1>2, <2>2 DEF PushBranches
    <3> DEFINE next == IF left[r] = {b} THEN "tags" ELSE "push"
               rest == left[r] \ {b}
               S == {b}
    <3>2. /\ S \in SUBSET Refs /\ rest \in SUBSET Branches /\ next \in {"push", "tags", "default"}
          /\ PushOrFail(r, S, next, rest)
          /\ ~Over(obj) => S \cap Branches \subseteq Kept(dir[r])
          /\ next # "default" /\ left[r] \subseteq S \cup rest /\ rest \subseteq left[r]
          /\ next = "tags" => rest = {}
      BY <1>1, <2>1, <3>1
    <3> HIDE DEF S, next, rest
    <3> QED
      BY <2>1, <3>2, PushKeeps
  <2>3. CASE ~Filtered
    <3>1. PushOrFail(r, left[r], "tags", {})
      BY <1>2, <2>3 DEF PushBranches
    <3>2. /\ left[r] \in SUBSET Refs /\ {} \in SUBSET Branches
          /\ ~Over(obj) => left[r] \cap Branches \subseteq Kept(dir[r])
          /\ left[r] \subseteq left[r] \cup {} /\ {} \subseteq left[r]
      BY <1>1, <2>1
    <3> QED
      BY <2>1, <3>1, <3>2, PushKeeps
  <2> QED
    BY <2>2, <2>3
<1>3. CASE PushTags(r)
  <2>1. pc[r] = "tags" /\ PushOrFail(r, Tags, "default", {})
    BY <1>3 DEF PushTags
  <2>2. Tags \in SUBSET Refs /\ {} \in SUBSET Branches /\ Tags \cap Branches \subseteq Kept(dir[r])
    BY <1>1 DEF GitAssumption
  <2> QED
    BY <2>1, <2>2, PushKeeps
<1> QED
  BY <1>2, <1>3

-----------------------------------------------------------------------------
(* The steps of the transfer.                                              *)

\* The next resource is taken up, from a copy of the object as it is.
LEMMA ProcessKeeps ==
    ASSUME GitAssumption, CodeInv, NEW r \in Replicas, UNCHANGED syncVars, ProcessResource(r)
    PROVE  CodeInv'
<1>1. /\ UNCHANGED <<ado, github, changes, settings, obj, dir, left, ok, syncDir, syncing>>
      /\ mem' = [mem EXCEPT ![r] = obj] /\ pc' = [pc EXCEPT ![r] = "branch"]
      /\ current' \in {[q \in Replicas |-> q = r], [current EXCEPT ![r] = TRUE]}
      /\ obj.phase = "Running" /\ obj.done < RepoCount
  BY DEF ProcessResource, GoTo, Quiet, gitVars, syncVars
<1>2. TypeOK
  BY DEF CodeInv
<1>3. current' \in [Replicas -> BOOLEAN]
  BY <1>1, <1>2 DEF TypeOK
<1>4. TypeOK' /\ Lasting
  BY <1>1, <1>2, <1>3 DEF TypeOK, Lasting, Places
<1>5. /\ pc'[r] = "branch" /\ mem'[r] = obj
      /\ \A q \in Replicas \ {r} : pc'[q] = pc[q] /\ mem'[q] = mem[q]
  BY <1>1, <1>2 DEF TypeOK
<1>6. \A q \in Replicas : Latest(q)'
  <2>1. \A q \in Replicas : current'[q] => q = r \/ current[q]
    BY <1>1, <1>2, Zenon DEF TypeOK
  <2>2. \A q \in Replicas : q # r => Latest(q)'
    BY <1>1, <1>5, <2>1 DEF CodeInv, Latest
  <2>3. Latest(r)'
    BY <1>1, <1>5 DEF Latest
  <2> QED
    BY <2>2, <2>3
<1>7. Placed(r)' /\ Prepared(r)' /\ Pushed(r)'
  BY <1>1, <1>5, Elsewhere DEF Placed
<1> QED
  BY <1>1, <1>4, <1>5, <1>6, <1>7, GithubStays, Assemble

\* The branches of the migration are set in the copy.
LEMMA SetupKeeps ==
    ASSUME GitAssumption, AccessAssumption, CodeInv, NEW r \in Replicas, UNCHANGED syncVars,
           HandleDefaultBranchSetup(r)
    PROVE  CodeInv'
<1>1. TypeOK /\ Placed(r) /\ Latest(r)
  BY DEF CodeInv
<1>2. /\ UNCHANGED <<ado, github, changes, settings, obj, current, dir, left, ok, syncDir,
                    syncing>>
      /\ pc[r] = "branch" /\ pc' = [pc EXCEPT ![r] = "check"]
  BY DEF HandleDefaultBranchSetup, SameClone, GoTo, Quiet, gitVars, syncVars
<1>3. PICK asked \in BOOLEAN : mem' = [mem EXCEPT ![r] = Detected(@, At(r), asked)]
  BY DEF HandleDefaultBranchSetup
<1>4. At(r) \in Repos
  BY <1>1, <1>2, AtRepo DEF Placed
<1>5. AdoDefault[At(r)] \in Names /\ Main \in Names \cup {Main}
  BY <1>4 DEF GitAssumption, Names
<1>6. settings.default \in Names
  BY <1>1 DEF AccessAssumption, TypeOK, Names
<1> DEFINE o == mem[r]
           n == Detected(o, At(r), asked)
<1>7. o \in Version
  BY <1>1 DEF TypeOK
<1>8. n \in Version /\ n.phase = o.phase /\ n.done = o.done
  <2> DEFINE a == AdoDefault[At(r)]
             d == settings.default
  <2>1. n \in {[o EXCEPT !.target = d], o, [o EXCEPT !.target = Main],
               [o EXCEPT !.source = a, !.target = a]}
    BY DEF Detected
  <2>2. a \in Names /\ d \in Names
    BY <1>5, <1>6
  <2> HIDE DEF a, d, o, n
  <2> QED
    BY <1>7, <2>1, <2>2 DEF Version
<1>9. mem' = [mem EXCEPT ![r] = n]
  BY <1>3
<1> HIDE DEF n
<1>10. TypeOK' /\ Lasting
  BY <1>1, <1>2, <1>8, <1>9 DEF TypeOK, Lasting, Places
<1>11. /\ pc'[r] = "check" /\ mem'[r].phase = mem[r].phase /\ mem'[r].done = mem[r].done
       /\ \A q \in Replicas \ {r} : pc'[q] = pc[q] /\ mem'[q] = mem[q]
  BY <1>1, <1>2, <1>8, <1>9 DEF TypeOK
<1>12. \A q \in Replicas : Latest(q)'
  BY <1>2, <1>11 DEF CodeInv, Latest
<1>13. Placed(r)' /\ Prepared(r)' /\ Pushed(r)'
  BY <1>1, <1>2, <1>11, Elsewhere DEF Placed
<1> QED
  BY <1>2, <1>10, <1>11, <1>12, <1>13, GithubStays, Assemble

\* A repository is looked for, and cloned once it is there.
LEMMA ValidateStateKeeps ==
    ASSUME GitAssumption, CodeInv, NEW r \in Replicas, UNCHANGED syncVars,
           ValidateRepositoryState(r)
    PROVE  CodeInv'
<1>1. TypeOK /\ Placed(r)
  BY DEF CodeInv
<1>2. /\ UNCHANGED <<ado, github, changes, settings, obj, current, mem, dir, left, ok,
                     syncDir, syncing>>
      /\ pc[r] = "check"
  BY DEF ValidateRepositoryState, SameObject, SameClone, Quiet, gitVars, syncVars
<1>3. PICK next \in {"clone", "create", "failed"} :
          pc' = [pc EXCEPT ![r] = next] /\ (next = "clone" => github[At(r)].exists)
  BY DEF ValidateRepositoryState, GoTo
<1>4. TypeOK' /\ Lasting
  BY <1>1, <1>2, <1>3 DEF TypeOK, Lasting, Places
<1>5. pc'[r] = next /\ \A q \in Replicas \ {r} : pc'[q] = pc[q]
  BY <1>1, <1>3 DEF TypeOK
<1>6. \A q \in Replicas : Latest(q)'
  BY <1>2 DEF CodeInv, Latest
<1>7. Placed(r)' /\ Prepared(r)' /\ Pushed(r)'
  BY <1>1, <1>2, <1>3, <1>5 DEF Placed, Prepared, Pushed, Transferring, Transferred, At
<1> QED
  BY <1>2, <1>4, <1>5, <1>6, <1>7, GithubStays, Assemble

\* A repository is created, empty as its place was.
LEMMA CreateKeeps ==
    ASSUME GitAssumption, CodeInv, NEW r \in Replicas, UNCHANGED syncVars, CreateRepository(r)
    PROVE  CodeInv'
<1>1. TypeOK /\ Placed(r)
  BY DEF CodeInv
<1>2. /\ UNCHANGED <<ado, changes, settings, obj, current, mem, dir, left, ok, syncDir, syncing>>
      /\ pc[r] = "create" /\ Lasting
  BY DEF CreateRepository, SameObject, SameClone, Quiet, syncVars, Lasting
<1>3. PICK k \in Repos : k = At(r)
  BY <1>1, <1>2, AtRepo DEF Placed
<1>4. PICK next \in {"clone", "failed"} :
          /\ pc' = [pc EXCEPT ![r] = next]
          /\ \/ github' = github
             \/ ~github[k].exists /\ github' = [github EXCEPT ![k] = Created]
          /\ next = "clone" => github' = [github EXCEPT ![k] = Created]
  BY <1>3 DEF CreateRepository, GoTo
<1>5. Created \in Repository /\ Created.exists /\ \A b \in Refs : Created.refs[b] = Absent
  BY DEF Created, NoRepository, NoRefs, Repository, Commits, Absent, Names
<1>6. github' \in [Repos -> Repository]
  BY <1>1, <1>4, <1>5 DEF TypeOK
<1>7. TypeOK'
  BY <1>1, <1>2, <1>4, <1>6 DEF TypeOK, Places
<1>8. Grows /\ \A j \in Repos : Admitted(j)'
  <2>1. CASE github' = github
    BY <1>2, <2>1, GithubStays
  <2>2. CASE ~github[k].exists /\ github' = [github EXCEPT ![k] = Created]
    <3>1. github'[k] = Created /\ \A j \in Repos : j # k => github'[j] = github[j]
      BY <1>1, <2>2 DEF TypeOK
    <3>2. \A b \in Refs : github[k].refs[b] = Absent
      BY <2>2 DEF CodeInv, Admitted
    <3>3. \A j \in Repos, b \in Refs : github'[j].refs[b] = github[j].refs[b]
      BY <1>5, <3>1, <3>2
    <3>4. \A j \in Repos : github[j].exists => github'[j].exists
      BY <1>5, <3>1
    <3>5. Grows
      BY <3>3, <3>4 DEF Grows, Forward
    <3>6. \A j \in Repos : Admitted(j)'
      <4> SUFFICES ASSUME NEW j \in Repos PROVE Admitted(j)'
        OBVIOUS
      <4>1. Admitted(j) /\ \A b \in Branches : b \in Refs
        BY DEF CodeInv, Refs
      <4>2. ~github'[j].exists => ~github[j].exists
        BY <3>4
      <4> QED
        BY <1>2, <3>3, <4>1, <4>2 DEF Admitted, Lasting, KeptByName, FilterBranches
    <3> QED
      BY <3>5, <3>6
  <2> QED
    BY <1>4, <2>1, <2>2
<1>9. pc'[r] = next /\ \A q \in Replicas \ {r} : pc'[q] = pc[q]
  BY <1>1, <1>4 DEF TypeOK
<1>10. \A q \in Replicas : Latest(q)'
  BY <1>2 DEF CodeInv, Latest
<1>11. next = "clone" => github'[k].exists
  BY <1>1, <1>4, <1>5 DEF TypeOK
<1>12. Placed(r)' /\ Prepared(r)' /\ Pushed(r)'
  BY <1>1, <1>2, <1>3, <1>9, <1>11 DEF Placed, Prepared, Pushed, Transferring, Transferred, At
<1> QED
  BY <1>2, <1>7, <1>8, <1>9, <1>10, <1>12, Assemble

\* The default branch of a repository, set after the code or without it.
LEMMA DefaultAfterKeeps ==
    ASSUME GitAssumption, CodeInv, NEW r \in Replicas, UNCHANGED syncVars,
           SetDefaultBranchAfter(r)
    PROVE  CodeInv'
<1>1. TypeOK /\ Placed(r)
  BY DEF CodeInv
<1>2. /\ UNCHANGED <<ado, changes, settings, obj, current, mem, dir, left, ok, syncDir, syncing>>
      /\ pc[r] = "after" /\ pc' = [pc EXCEPT ![r] = "save"] /\ Lasting
  BY DEF SetDefaultBranchAfter, SameObject, SameClone, GoTo, Quiet, syncVars, Lasting
<1>3. PICK k \in Repos : k = At(r)
  BY <1>1, <1>2, AtRepo DEF Placed
<1>4. github' = github \/ \E b \in Branches : github' = [github EXCEPT ![k].default = b]
  BY <1>3 DEF SetDefaultBranchAfter
<1>5. github' \in [Repos -> Repository] /\ Grows /\ \A j \in Repos : Admitted(j)'
  BY <1>1, <1>2, <1>4, GithubStays, DefaultGrows DEF TypeOK
<1>6. TypeOK'
  BY <1>1, <1>2, <1>5 DEF TypeOK, Places
<1>7. pc'[r] = "save" /\ \A q \in Replicas \ {r} : pc'[q] = pc[q]
  BY <1>1, <1>2 DEF TypeOK
<1>8. \A q \in Replicas : Latest(q)'
  BY <1>2 DEF CodeInv, Latest
<1>9. Placed(r)' /\ Prepared(r)' /\ Pushed(r)'
  BY <1>1, <1>2, <1>7, Elsewhere DEF Placed
<1> QED
  BY <1>2, <1>5, <1>6, <1>7, <1>8, <1>9, Assemble

\* The clone of a repository is what Azure DevOps has of it; or nothing comes of it.
LEMMA CloneKeeps ==
    ASSUME GitAssumption, CodeInv, NEW r \in Replicas, UNCHANGED syncVars, CloneRepository(r)
    PROVE  CodeInv'
<1>1. TypeOK /\ Placed(r) /\ Prepared(r)
  BY DEF CodeInv
<1>2. /\ UNCHANGED <<ado, github, changes, settings, obj, current, mem, left, syncDir, syncing>>
      /\ pc[r] = "clone" /\ Lasting
  BY DEF CloneRepository, SameObject, Quiet, gitVars, syncVars, Lasting
<1>3. At(r) \in Repos /\ github[At(r)].exists
  BY <1>1, <1>2, AtRepo DEF Placed, Prepared
<1>4. PICK next \in {"after", "cleanup", "prepare"} :
          /\ pc' = [pc EXCEPT ![r] = next]
          /\ next = "after" => dir' = dir /\ ok' = ok
          /\ next = "cleanup" => dir' = dir /\ ok' = [ok EXCEPT ![r] = FALSE]
          /\ next = "prepare" =>
                /\ ok' = ok
                /\ \E T \in SUBSET Tags :
                      dir' = [dir EXCEPT ![r] = Clone([b \in Refs |->
                                 IF b \in Branches \cup T THEN ado[At(r)][b] ELSE Absent], At(r))]
  <2>1. CASE pc' = [pc EXCEPT ![r] = "after"] /\ UNCHANGED <<dir, ok>>
    BY <2>1
  <2>2. CASE /\ pc' = [pc EXCEPT ![r] = "cleanup"] /\ ok' = [ok EXCEPT ![r] = FALSE]
             /\ UNCHANGED dir
    BY <2>2
  <2>3. CASE /\ pc' = [pc EXCEPT ![r] = "prepare"] /\ UNCHANGED ok
             /\ \E T \in IF settings.shallow THEN SUBSET Tags ELSE {Tags} :
                   dir' = [dir EXCEPT ![r] = Clone([b \in Refs |->
                              IF b \in Branches \cup T THEN ado[At(r)][b] ELSE Absent], At(r))]
    BY <2>3
  <2> QED
    BY <2>1, <2>2, <2>3 DEF CloneRepository, GoTo
<1>5. /\ dir' \in [Replicas -> Directory]
      /\ next = "prepare" => dir'[r].head = AdoDefault[At(r)]
      /\ \A q \in Replicas \ {r} : dir'[q] = dir[q]
  <2>1. CASE next # "prepare"
    BY <1>1, <1>4, <2>1 DEF TypeOK
  <2>2. CASE next = "prepare"
    <3>1. PICK T \in SUBSET Tags :
              dir' = [dir EXCEPT ![r] = Clone([b \in Refs |->
                         IF b \in Branches \cup T THEN ado[At(r)][b] ELSE Absent], At(r))]
      BY <1>4, <2>2
    <3> DEFINE refs == [b \in Refs |->
                           IF b \in Branches \cup T THEN ado[At(r)][b] ELSE Absent]
    <3>2. refs \in [Refs -> Nat]
      BY <1>1, <1>3 DEF TypeOK, Absent
    <3> HIDE DEF refs
    <3>3. AdoDefault[At(r)] \in Names
      BY <1>3 DEF GitAssumption, Names
    <3>4. Clone(refs, At(r)) \in Directory /\ Clone(refs, At(r)).head = AdoDefault[At(r)]
      BY <3>2, <3>3 DEF Clone, Directory
    <3>5. dir' = [dir EXCEPT ![r] = Clone(refs, At(r))]
      BY <3>1 DEF refs
    <3> HIDE DEF Clone
    <3> QED
      BY <1>1, <3>4, <3>5 DEF TypeOK
  <2> QED
    BY <2>1, <2>2
<1>6. /\ pc'[r] = next /\ (next = "cleanup" => ~ok'[r])
      /\ ok' \in [Replicas -> BOOLEAN]
      /\ \A q \in Replicas \ {r} : pc'[q] = pc[q] /\ ok'[q] = ok[q]
  <2>1. pc'[r] = next /\ \A q \in Replicas \ {r} : pc'[q] = pc[q]
    BY <1>1, <1>4 DEF TypeOK
  <2>2. ok' = ok \/ (next = "cleanup" /\ ok' = [ok EXCEPT ![r] = FALSE])
    BY <1>4
  <2>3. (next = "cleanup" => ~ok'[r]) /\ \A q \in Replicas \ {r} : ok'[q] = ok[q]
    BY <1>1, <1>4, <2>2, Zenon DEF TypeOK
  <2>4. ok' \in [Replicas -> BOOLEAN]
    BY <1>1, <2>2 DEF TypeOK
  <2> QED
    BY <2>1, <2>3, <2>4
<1>7. TypeOK'
  <2>1. pc' \in [Replicas -> Places]
    BY <1>1, <1>4 DEF TypeOK, Places
  <2> QED
    BY <1>1, <1>2, <1>5, <1>6, <2>1 DEF TypeOK
<1>8. \A q \in Replicas : Latest(q)'
  BY <1>2 DEF CodeInv, Latest
<1>9. Placed(r)' /\ Prepared(r)' /\ Pushed(r)'
  <2>1. At(r)' = At(r)
    BY <1>2 DEF At
  <2> QED
    BY <1>1, <1>2, <1>3, <1>5, <1>6, <2>1 DEF Placed, Prepared, Pushed, Transferring, Transferred
<1> QED
  BY <1>2, <1>5, <1>6, <1>7, <1>8, <1>9, GithubStays, Assemble

\* All that the patterns keep is left to be pushed.
LEMMA PrepareKeeps ==
    ASSUME GitAssumption, CodeInv, NEW r \in Replicas, UNCHANGED syncVars, PrepareForGitHub(r)
    PROVE  CodeInv'
<1>1. TypeOK /\ Placed(r) /\ Prepared(r)
  BY DEF CodeInv
<1>2. /\ UNCHANGED <<ado, github, changes, settings, obj, current, mem, dir, ok, syncDir, syncing>>
      /\ pc[r] = "prepare" /\ Lasting
      /\ pc' = [pc EXCEPT ![r] = "push"] /\ left' = [left EXCEPT ![r] = Kept(dir[r])]
  BY DEF PrepareForGitHub, GoTo, SameObject, Quiet, gitVars, syncVars, Lasting
<1>3. Kept(dir[r]) \in SUBSET Branches /\ Kept(dir[r])' = Kept(dir[r])
  BY <1>2 DEF Kept, Heads, FilterBranches
<1>4. TypeOK'
  <2> HIDE DEF Kept
  <2> QED
    BY <1>1, <1>2, <1>3 DEF TypeOK, Places
<1>5. /\ pc'[r] = "push" /\ left'[r] = Kept(dir[r])
      /\ \A q \in Replicas \ {r} : pc'[q] = pc[q] /\ left'[q] = left[q]
  BY <1>1, <1>2 DEF TypeOK
<1>6. \A q \in Replicas : Latest(q)'
  BY <1>2 DEF CodeInv, Latest
<1>7. Placed(r)' /\ Prepared(r)' /\ Pushed(r)'
  <2>1. At(r)' = At(r)
    BY <1>2 DEF At
  <2> QED
    BY <1>1, <1>2, <1>3, <1>5, <2>1 DEF Placed, Prepared, Pushed, Transferring, Transferred
<1> QED
  BY <1>2, <1>4, <1>5, <1>6, <1>7, GithubStays, Assemble

\* The last step of a transfer sets the default branch, or fails.
LEMMA SetDefaultKeeps ==
    ASSUME GitAssumption, CodeInv, NEW r \in Replicas, UNCHANGED syncVars, SetDefaultBranch(r)
    PROVE  CodeInv'
<1>1. TypeOK /\ Placed(r) /\ Prepared(r) /\ (~Over(obj) => Pushed(r))
  BY DEF CodeInv
<1>2. /\ UNCHANGED <<ado, changes, settings, obj, current, mem, dir, left, syncDir, syncing>>
      /\ pc[r] = "default" /\ Lasting /\ pc' = [pc EXCEPT ![r] = "cleanup"]
  BY DEF SetDefaultBranch, GoTo, SameObject, Quiet, syncVars, Lasting
<1>3. PICK k \in Repos : k = At(r)
  BY <1>1, <1>2, AtRepo DEF Placed
<1>4. dir[r].head \in Branches
  BY <1>1, <1>2, <1>3 DEF Prepared, Transferring, GitAssumption
<1>5. /\ github' = github \/ \E b \in Branches : github' = [github EXCEPT ![k].default = b]
      /\ ok' = ok \/ ok' = [ok EXCEPT ![r] = TRUE]
  BY <1>3, <1>4 DEF SetDefaultBranch
<1>6. github' \in [Repos -> Repository] /\ Grows /\ \A j \in Repos : Admitted(j)'
  BY <1>1, <1>2, <1>5, GithubStays, DefaultGrows DEF TypeOK
<1>7. TypeOK'
  <2>1. ok' \in [Replicas -> BOOLEAN] /\ pc' \in [Replicas -> Places]
    BY <1>1, <1>2, <1>5 DEF TypeOK, Places
  <2> QED
    BY <1>1, <1>2, <1>6, <2>1 DEF TypeOK
<1>8. /\ pc'[r] = "cleanup"
      /\ \A q \in Replicas \ {r} : pc'[q] = pc[q] /\ ok'[q] = ok[q]
  <2>1. pc'[r] = "cleanup" /\ \A q \in Replicas \ {r} : pc'[q] = pc[q]
    BY <1>1, <1>2 DEF TypeOK
  <2>2. \A q \in Replicas \ {r} : ok'[q] = ok[q]
    BY <1>1, <1>5, Zenon DEF TypeOK
  <2> QED
    BY <2>1, <2>2
<1>9. \A q \in Replicas : Latest(q)'
  BY <1>2 DEF CodeInv, Latest
<1>10. Placed(r)' /\ Prepared(r)'
  <2>1. At(r)' = At(r)
    BY <1>2 DEF At
  <2> QED
    BY <1>1, <1>2, <1>8, <2>1 DEF Placed, Prepared, Transferring, Transferred
<1>11. ASSUME ~Over(obj') PROVE Pushed(r)'
  <2>1. Pushed(r)
    BY <1>1, <1>2, <1>11
  <2>2. \A b \in Refs : Arrived(r, b) => Arrived(r, b)'
    BY <1>1, <1>2, <1>3, <1>6, <1>7, <1>11, ArrivedStays
  <2>3. Kept(dir[r])' = Kept(dir[r]) /\ Kept(dir[r]) \subseteq Refs /\ Tags \subseteq Refs
    BY <1>2 DEF Kept, Heads, FilterBranches, Refs
  <2>4. \A b \in Kept(dir[r])' : Arrived(r, b)'
    BY <1>2, <2>1, <2>2, <2>3 DEF Pushed
  <2>5. \A t \in Tags : dir'[r].refs[t] # Absent => Arrived(r, t)'
    BY <1>2, <2>1, <2>2, <2>3 DEF Pushed
  <2> QED
    BY <1>8, <2>4, <2>5 DEF Pushed
<1> QED
  BY <1>2, <1>6, <1>7, <1>8, <1>9, <1>10, <1>11, Assemble

\* The directory is removed, or stays.
LEMMA CleanupKeeps ==
    ASSUME GitAssumption, CodeInv, NEW r \in Replicas, UNCHANGED syncVars, Cleanup(r)
    PROVE  CodeInv'
<1>1. TypeOK /\ Placed(r)
  BY DEF CodeInv
<1>2. /\ UNCHANGED <<ado, github, changes, settings, obj, current, mem, syncDir, syncing>>
      /\ pc[r] = "cleanup" /\ Lasting
      /\ left' = [left EXCEPT ![r] = {}] /\ ok' = [ok EXCEPT ![r] = FALSE]
  BY DEF Cleanup, SameObject, Quiet, gitVars, syncVars, Lasting
<1>3. PICK next \in {"after", "failed"} : pc' = [pc EXCEPT ![r] = next]
  BY DEF Cleanup, GoTo
<1>4. PICK c \in Directory : dir' = [dir EXCEPT ![r] = c]
  <2>1. dir[r] \in Directory /\ Nothing \in Directory
    BY <1>1, NewObjectTyped DEF TypeOK
  <2>2. PICK removed \in BOOLEAN : dir' = [dir EXCEPT ![r] = IF removed THEN Nothing ELSE @]
    BY DEF Cleanup
  <2>3. dir' = [dir EXCEPT ![r] = IF removed THEN Nothing ELSE dir[r]]
    BY <1>1, <2>2 DEF TypeOK
  <2> QED
    BY <2>1, <2>3
<1>5. TypeOK'
  <2>1. ok' \in [Replicas -> BOOLEAN] /\ pc' \in [Replicas -> Places]
    BY <1>1, <1>2, <1>3 DEF TypeOK, Places
  <2>2. left' \in [Replicas -> SUBSET Branches] /\ dir' \in [Replicas -> Directory]
    BY <1>1, <1>2, <1>4 DEF TypeOK
  <2> QED
    BY <1>1, <1>2, <2>1, <2>2 DEF TypeOK
<1>6. /\ pc'[r] = next
      /\ \A q \in Replicas \ {r} : /\ pc'[q] = pc[q] /\ dir'[q] = dir[q]
                                   /\ left'[q] = left[q] /\ ok'[q] = ok[q]
  <2>1. pc'[r] = next /\ \A q \in Replicas \ {r} : pc'[q] = pc[q]
    BY <1>1, <1>3 DEF TypeOK
  <2>2. \A q \in Replicas \ {r} : dir'[q] = dir[q] /\ left'[q] = left[q]
    BY <1>1, <1>2, <1>4 DEF TypeOK
  <2>3. \A q \in Replicas \ {r} : ok'[q] = ok[q]
    BY <1>1, <1>2, Zenon DEF TypeOK
  <2> QED
    BY <2>1, <2>2, <2>3
<1>7. \A q \in Replicas : Latest(q)'
  BY <1>2 DEF CodeInv, Latest
<1>8. Placed(r)' /\ Prepared(r)' /\ Pushed(r)'
  BY <1>1, <1>2, <1>6, Elsewhere DEF Placed
<1> QED
  BY <1>2, <1>5, <1>6, <1>7, <1>8, GithubStays, Assemble

-----------------------------------------------------------------------------
(* The synchronization, crashes and users.                                 *)

\* One round of the synchronization, which comes after the migration: to mirror is to take back,
\* and no push of the migration counts any longer.
LEMMA SyncKeeps ==
    ASSUME GitAssumption, CodeInv, NEW r \in Replicas, Synchronize(r)
    PROVE  CodeInv'
<1>1. TypeOK /\ Placed(r) /\ syncing[r] \in Repos
  BY DEF CodeInv, TypeOK
<1>2. /\ UNCHANGED <<ado, changes, settings, obj, current, mem, dir, left, ok>>
      /\ Over(obj) /\ Over(obj') /\ Lasting
  BY <1>1 DEF Synchronize, StartSync, PutOffSync, SyncClone, SyncFetch, SyncPush, SyncFrame,
              Lasting, Placed, Over
<1>3. PICK k \in Repos : k = syncing[r]
  BY <1>1
<1>4. /\ pc' = pc \/ \E next \in {"sync", "mirror", "idle"} : pc' = [pc EXCEPT ![r] = next]
      /\ syncing' = syncing \/ \E n \in Repos : syncing' = [syncing EXCEPT ![r] = n]
  <2>1. ASSUME NextRepository(r)
        PROVE  /\ \E next \in {"sync", "mirror", "idle"} : pc' = [pc EXCEPT ![r] = next]
               /\ \E n \in Repos : syncing' = [syncing EXCEPT ![r] = n]
    <3>1. RepoCount \in Nat \ {0}
      BY DEF GitAssumption
    <3>2. CASE syncing[r] < RepoCount
      <4>1. syncing[r] + 1 \in Repos
        BY <1>1, <3>1, <3>2 DEF Repos
      <4>2. syncing' = [syncing EXCEPT ![r] = syncing[r] + 1] /\ pc' = [pc EXCEPT ![r] = "sync"]
        BY <1>1, <2>1, <3>2 DEF NextRepository, GoTo, TypeOK
      <4> QED
        BY <4>1, <4>2
    <3>3. CASE ~(syncing[r] < RepoCount)
      <4>1. 1 \in Repos
        BY <3>1 DEF Repos
      <4>2. syncing' = [syncing EXCEPT ![r] = 1] /\ pc' = [pc EXCEPT ![r] = "idle"]
        BY <2>1, <3>3 DEF NextRepository, GoTo
      <4> QED
        BY <4>1, <4>2
    <3> QED
      BY <3>2, <3>3
  <2> QED
    BY <2>1 DEF Synchronize, StartSync, PutOffSync, SyncClone, SyncFetch, SyncPush, GoTo
<1>5. syncDir' = syncDir \/ \E c \in Directory : syncDir' = [syncDir EXCEPT ![r][k] = c]
  <2>1. CASE SyncClone(r)
    <3>1. ado[k] \in [Refs -> Nat] /\ AdoDefault[k] \in Names
      BY <1>1 DEF TypeOK, GitAssumption, Names
    <3>2. Clone(ado[k], k) \in Directory
      BY <3>1 DEF Clone, Directory
    <3> QED
      BY <1>3, <2>1, <3>2 DEF SyncClone, Keep
  <2>2. CASE SyncFetch(r)
    <3>1. Work(r) \in Directory /\ ado[syncing[r]] \in [Refs -> Nat]
      BY <1>1 DEF Work, TypeOK
    <3>2. Fetched(r) \in [Refs -> Nat]
      BY <3>1 DEF Fetched, Absent
    <3>3. [Work(r) EXCEPT !.refs = Fetched(r)] \in Directory
      BY <3>1, <3>2 DEF Directory
    <3> QED
      BY <1>3, <2>2, <3>3 DEF SyncFetch, Keep
  <2>3. CASE ~SyncClone(r) /\ ~SyncFetch(r)
    BY <2>3 DEF Synchronize, StartSync, PutOffSync, SyncPush
  <2> QED
    BY <2>1, <2>2, <2>3
<1>6. github' = github \/ (\E h \in Repository : h.exists = github[k].exists /\ github[k].exists
                                               /\ github' = [github EXCEPT ![k] = h])
  <2>1. CASE SyncPush(r)
    <3>1. PICK g \in Repository : g = github[k]
      BY <1>1 DEF TypeOK
    <3>2. Work(r).refs \in [Refs -> Nat]
      BY <1>1 DEF Work, TypeOK, Directory
    <3>3. PICK new \in [Refs -> Commits] : new = MirrorOf(g, Work(r).refs)
      <4>1. MirrorOf(g, Work(r).refs) \in [Refs -> Commits]
        BY <3>2 DEF MirrorOf, Repository, Commits
      <4> QED
        BY <4>1
    <3>4. PICK T \in {{}, Tags, Refs} :
              IF g.exists
              THEN github' \in {[github EXCEPT ![k] = h] : h \in After(g, new, T)}
              ELSE UNCHANGED github
      BY <1>3, <2>1, <3>1, <3>3 DEF SyncPush
    <3>5. T \in SUBSET Refs
      BY <3>4 DEF Refs
    <3>6. CASE g.exists
      <4>1. PICK h \in After(g, new, T) : github' = [github EXCEPT ![k] = h]
        BY <3>4, <3>6
      <4>2. h \in Repository /\ h.exists = g.exists
        BY <3>5, <4>1, AfterMoves
      <4> QED
        BY <3>1, <3>6, <4>1, <4>2
    <3>7. CASE ~g.exists
      BY <3>4, <3>7
    <3> QED
      BY <3>6, <3>7
  <2>2. CASE ~SyncPush(r)
    BY <2>2 DEF Synchronize, StartSync, PutOffSync, SyncClone, SyncFetch
  <2> QED
    BY <2>1, <2>2
<1>7. github' \in [Repos -> Repository] /\ \A j \in Repos : github'[j].exists = github[j].exists
  <2>1. CASE github' = github
    BY <1>1, <2>1 DEF TypeOK
  <2>2. ASSUME NEW h \in Repository, h.exists = github[k].exists, github' = [github EXCEPT ![k] = h]
        PROVE  /\ github' \in [Repos -> Repository]
               /\ \A j \in Repos : github'[j].exists = github[j].exists
    BY <1>1, <2>2 DEF TypeOK
  <2> QED
    BY <1>6, <2>1, <2>2
<1>8. TypeOK'
  <2>1. pc' \in [Replicas -> Places] /\ syncing' \in [Replicas -> Repos]
    BY <1>1, <1>4 DEF TypeOK, Places
  <2>2. syncDir' \in [Replicas -> [Repos -> Directory]]
    <3>1. syncDir \in [Replicas -> [Repos -> Directory]]
      BY <1>1 DEF TypeOK
    <3>2. ASSUME NEW c \in Directory, syncDir' = [syncDir EXCEPT ![r][k] = c]
          PROVE  syncDir' \in [Replicas -> [Repos -> Directory]]
      <4>1. [syncDir[r] EXCEPT ![k] = c] \in [Repos -> Directory]
        BY <3>1
      <4> QED
        BY <3>1, <3>2, <4>1
    <3> QED
      BY <1>5, <3>1, <3>2
  <2> QED
    BY <1>1, <1>2, <1>7, <2>1, <2>2 DEF TypeOK
<1>9. \A j \in Repos : Admitted(j)'
  <2> SUFFICES ASSUME NEW j \in Repos, ~github'[j].exists
               PROVE  \A b \in Refs : github'[j].refs[b] = Absent
    BY <1>2 DEF Admitted
  <2>1. github'[j] = github[j]
    BY <1>1, <1>6, <1>7 DEF TypeOK
  <2> QED
    BY <1>7, <2>1 DEF CodeInv, Admitted
<1>10. Grows
  BY <1>2, <1>7 DEF Grows
<1>11. \A q \in Replicas : Latest(q)'
  BY <1>2 DEF CodeInv, Latest
<1>12. /\ Placed(r)' /\ Prepared(r)'
       /\ \A q \in Replicas \ {r} : pc'[q] = pc[q]
  <2>1. pc[r] \in {"idle", "sync", "mirror"}
    BY DEF Synchronize, StartSync, PutOffSync, SyncClone, SyncFetch, SyncPush
  <2>2. pc'[r] \in {"idle", "sync", "mirror"} /\ \A q \in Replicas \ {r} : pc'[q] = pc[q]
    BY <1>1, <1>4, <2>1 DEF TypeOK
  <2>3. Placed(r)' /\ Prepared(r)'
    BY <1>2, <2>2, Elsewhere DEF Placed
  <2> QED
    BY <2>2, <2>3
<1> QED
  BY <1>2, <1>8, <1>9, <1>10, <1>11, <1>12, Assemble

\* A replica starts again with nothing in its hands but its directories.
LEMMA CrashKeeps ==
    ASSUME GitAssumption, CodeInv, NEW r \in Replicas, Crash(r)
    PROVE  CodeInv'
<1>1. TypeOK /\ syncing[r] \in Repos
  BY DEF CodeInv, TypeOK
<1>2. /\ UNCHANGED <<ado, github, changes, settings, obj>> /\ Lasting
      /\ pc' = [pc EXCEPT ![r] = "idle"] /\ current' = [current EXCEPT ![r] = FALSE]
      /\ mem' = [mem EXCEPT ![r] = NewObject] /\ left' = [left EXCEPT ![r] = {}]
      /\ ok' = [ok EXCEPT ![r] = FALSE] /\ syncing' = [syncing EXCEPT ![r] = 1]
  BY DEF Crash, GoTo, Quiet, gitVars, Lasting
<1>3. \A c \in Directory : \A cloning \in BOOLEAN : Killed(c, cloning) \subseteq Directory
  BY NewObjectTyped DEF Killed
<1>4. dir[r] \in Directory /\ Work(r) \in Directory
  BY <1>1 DEF TypeOK, Work
<1>5. PICK c \in Directory : dir' = [dir EXCEPT ![r] = c]
  BY <1>3, <1>4 DEF Crash
<1>6. PICK d \in Directory : syncDir' = [syncDir EXCEPT ![r][syncing[r]] = d]
  BY <1>3, <1>4 DEF Crash, Keep
<1>7. TypeOK'
  <2>1. dir' \in [Replicas -> Directory] /\ syncDir' \in [Replicas -> [Repos -> Directory]]
    BY <1>1, <1>5, <1>6 DEF TypeOK
  <2>2. ok' \in [Replicas -> BOOLEAN] /\ current' \in [Replicas -> BOOLEAN]
    BY <1>1, <1>2 DEF TypeOK
  <2>3. /\ pc' \in [Replicas -> Places] /\ left' \in [Replicas -> SUBSET Branches]
        /\ mem' \in [Replicas -> Version]
    BY <1>1, <1>2, NewObjectTyped DEF TypeOK, Places
  <2>4. 1 \in Repos /\ syncing' \in [Replicas -> Repos]
    BY <1>1, <1>2 DEF TypeOK, GitAssumption, Repos
  <2> QED
    BY <1>1, <1>2, <2>1, <2>2, <2>3, <2>4 DEF TypeOK
<1>8. /\ pc'[r] = "idle"
      /\ \A q \in Replicas \ {r} : /\ mem'[q] = mem[q] /\ pc'[q] = pc[q] /\ dir'[q] = dir[q]
                                   /\ left'[q] = left[q] /\ ok'[q] = ok[q]
  <2>1. pc'[r] = "idle" /\ \A q \in Replicas \ {r} : pc'[q] = pc[q] /\ dir'[q] = dir[q]
    BY <1>1, <1>2, <1>5 DEF TypeOK
  <2>2. \A q \in Replicas \ {r} : mem'[q] = mem[q] /\ left'[q] = left[q]
    BY <1>1, <1>2 DEF TypeOK
  <2>3. \A q \in Replicas \ {r} : ok'[q] = ok[q]
    BY <1>1, <1>2, Zenon DEF TypeOK
  <2> QED
    BY <2>1, <2>2, <2>3
<1>9. \A q \in Replicas : Latest(q)'
  <2>1. \A q \in Replicas : current'[q] => q # r /\ current[q]
    BY <1>1, <1>2, Zenon DEF TypeOK
  <2> QED
    BY <1>2, <1>8, <2>1 DEF CodeInv, Latest
<1>10. Placed(r)' /\ Prepared(r)' /\ Pushed(r)'
  BY <1>8, Elsewhere DEF Placed
<1> QED
  BY <1>2, <1>7, <1>8, <1>9, <1>10, GithubStays, Assemble

\* The users of Azure DevOps commit and remove; those of GitHub commit where GitHub has a branch.
LEMMA UsersKeep ==
    ASSUME GitAssumption, CodeInv, Users \/ (RotateKey /\ UNCHANGED <<transferVars, syncVars>>)
    PROVE  CodeInv'
<1>1. TypeOK
  BY DEF CodeInv
<1>2. /\ UNCHANGED <<settings, obj, current, mem, pc, dir, left, ok, syncDir, syncing>> /\ Lasting
  BY DEF Users, RotateKey, accessVars, transferVars, syncVars, Lasting
<1>3. changes' \in Nat
  BY <1>1 DEF Users, UserChanges, Commit, DeleteBranch, CommitOnGitHub, RotateKey, Change, TypeOK
<1>4. ado' \in [Repos -> [Refs -> Nat]]
  <2>1. CASE Commit
    <3>1. PICK k \in Repos, b \in Branches : ado' = [ado EXCEPT ![k][b] = @ + 1]
      BY <2>1 DEF Commit
    <3>2. ado[k] \in [Refs -> Nat] /\ b \in Refs
      BY <1>1 DEF TypeOK, Refs
    <3>3. ado[k][b] + 1 \in Nat
      BY <3>2
    <3> QED
      BY <1>1, <3>1, <3>2, <3>3 DEF TypeOK
  <2>2. CASE DeleteBranch
    <3>1. PICK k \in Repos, b \in Branches : ado' = [ado EXCEPT ![k][b] = Absent]
      BY <2>2 DEF DeleteBranch
    <3>2. ado[k] \in [Refs -> Nat]
      BY <1>1 DEF TypeOK
    <3>3. [ado[k] EXCEPT ![b] = Absent] \in [Refs -> Nat]
      BY <3>2 DEF Absent
    <3> QED
      BY <1>1, <3>1, <3>3 DEF TypeOK
  <2>3. CASE ado' = ado
    BY <1>1, <2>3 DEF TypeOK
  <2> QED
    BY <2>1, <2>2, <2>3 DEF Users, UserChanges, CommitOnGitHub, RotateKey
<1>5. /\ github' \in [Repos -> Repository]
      /\ \A j \in Repos : /\ github'[j].exists = github[j].exists
                          /\ \A b \in Refs : \/ github'[j].refs[b] = github[j].refs[b]
                                             \/ github'[j].refs[b] = Theirs /\ github[j].refs[b] > 0
  <2>1. CASE CommitOnGitHub
    <3>1. PICK k \in Repos, b \in Branches :
              github[k].refs[b] > 0 /\ github' = [github EXCEPT ![k].refs[b] = Theirs]
      BY <2>1 DEF CommitOnGitHub
    <3>2. github[k] \in Repository /\ Theirs \in Commits
      BY <1>1 DEF TypeOK, Commits
    <3>3. github' = [github EXCEPT ![k] = [github[k] EXCEPT
                        !.refs = [github[k].refs EXCEPT ![b] = Theirs]]]
      BY <3>1
    <3> DEFINE h == [github[k] EXCEPT !.refs = [github[k].refs EXCEPT ![b] = Theirs]]
    <3>4. /\ h \in Repository /\ h.exists = github[k].exists
          /\ \A c \in Refs : h.refs[c] = IF c = b THEN Theirs ELSE github[k].refs[c]
      BY <3>2 DEF Repository
    <3>5. github' = [github EXCEPT ![k] = h]
      BY <3>3
    <3> HIDE DEF h
    <3>6. github' \in [Repos -> Repository] /\ github'[k] = h
          /\ \A j \in Repos : j # k => github'[j] = github[j]
      BY <1>1, <3>4, <3>5 DEF TypeOK
    <3> QED
      BY <3>1, <3>4, <3>6
  <2>2. CASE github' = github
    BY <1>1, <2>2 DEF TypeOK
  <2> QED
    BY <2>1, <2>2 DEF Users, UserChanges, Commit, DeleteBranch, RotateKey
<1>6. TypeOK'
  BY <1>1, <1>2, <1>3, <1>4, <1>5 DEF TypeOK
<1>7. Grows
  BY <1>5 DEF Grows, Forward
<1>8. \A j \in Repos : Admitted(j)'
  <2> SUFFICES ASSUME NEW j \in Repos PROVE Admitted(j)'
    OBVIOUS
  <2>1. Admitted(j) /\ Branches \subseteq Refs
    BY DEF CodeInv, Refs
  <2>2. \A b \in Refs : github'[j].refs[b] # Absent => github[j].refs[b] # Absent
    BY <1>5 DEF Absent
  <2> QED
    BY <1>2, <1>5, <2>1, <2>2 DEF Admitted, KeptByName, FilterBranches
<1>9. \A q \in Replicas : Latest(q)' /\ Placed(q)' /\ Prepared(q)' /\ (~Over(obj') => Pushed(q)')
  BY <1>2, <1>6, <1>7, Stays DEF Latest, CodeInv
<1> QED
  BY <1>6, <1>8, <1>9 DEF CodeInv, Over

-----------------------------------------------------------------------------
(* The invariant.                                                          *)

\* No replica has begun, and the repositories on GitHub are empty.
LEMMA InitHolds ==
    ASSUME GitAssumption, AccessAssumption, Init
    PROVE  CodeInv
<1>1. NoRefs \in [Refs -> Commits] /\ \A b \in Refs : NoRefs[b] = Absent
  BY DEF NoRefs, Commits, Absent
<1>2. /\ NoRepository \in Repository /\ Created \in Repository
      /\ NoRepository.refs = NoRefs /\ Created.refs = NoRefs
  BY <1>1 DEF NoRepository, Created, Repository, Names
<1>3. /\ github \in [Repos -> Repository]
      /\ \A k \in Repos : github[k].refs = NoRefs
  <2> HIDE DEF NoRepository, Created
  <2> QED
    BY <1>2 DEF Init, GitInit
<1>4. 1 \in Repos /\ NewObject.phase = "Validating"
  BY DEF GitAssumption, Repos, NewObject
<1>5. TypeOK
  <2>1. ado \in [Repos -> [Refs -> Nat]] /\ changes \in Nat /\ settings \in Settings
    BY DEF Init, GitInit, AccessInit, GitAssumption
  <2>2. /\ obj \in Version /\ mem \in [Replicas -> Version] /\ current \in [Replicas -> BOOLEAN]
        /\ dir \in [Replicas -> Directory] /\ syncDir \in [Replicas -> [Repos -> Directory]]
    BY NewObjectTyped DEF Init, TransferInit, SyncInit
  <2>3. /\ pc \in [Replicas -> Places] /\ left \in [Replicas -> SUBSET Branches]
        /\ ok \in [Replicas -> BOOLEAN] /\ syncing \in [Replicas -> Repos]
    BY <1>4 DEF Init, TransferInit, SyncInit, Places
  <2> QED
    BY <1>3, <2>1, <2>2, <2>3 DEF TypeOK
<1>6. \A k \in Repos : Admitted(k)
  BY <1>1, <1>3 DEF Admitted, Refs
<1>7. \A r \in Replicas : pc[r] = "idle" /\ ~current[r]
  BY DEF Init, TransferInit
<1>8. \A r \in Replicas : Latest(r) /\ Placed(r) /\ Prepared(r) /\ Pushed(r)
  BY <1>7 DEF Latest, Placed, Prepared, Pushed, Transferring, Transferred
<1> QED
  BY <1>5, <1>6, <1>8 DEF CodeInv

\* The steps of the program and of the users keep the invariant.
LEMMA StepKeeps ==
    ASSUME GitAssumption, AccessAssumption, CodeInv, [Next]_vars
    PROVE  CodeInv'
<1>1. settings.replicas \subseteq Replicas
  BY DEF CodeInv, TypeOK, AccessAssumption
<1>2. ASSUME NEW r \in Replicas, Transfer(r), UNCHANGED syncVars
      PROVE  CodeInv'
  <2>1. CASE \/ Validate(r) \/ FailMigration(r) \/ CompleteMigration(r)
             \/ SaveResource(r) \/ SaveFailure(r)
    BY <1>2, <2>1, ObjectKeeps
  <2>2. CASE PushBranches(r) \/ PushTags(r)
    BY <1>2, <2>2, PushesKeep
  <2>3. CASE ProcessResource(r)
    BY <1>2, <2>3, ProcessKeeps
  <2>4. CASE HandleDefaultBranchSetup(r)
    BY <1>2, <2>4, SetupKeeps
  <2>5. CASE ValidateRepositoryState(r)
    BY <1>2, <2>5, ValidateStateKeeps
  <2>6. CASE CreateRepository(r)
    BY <1>2, <2>6, CreateKeeps
  <2>7. CASE CloneRepository(r)
    BY <1>2, <2>7, CloneKeeps
  <2>8. CASE PrepareForGitHub(r)
    BY <1>2, <2>8, PrepareKeeps
  <2>9. CASE SetDefaultBranch(r)
    BY <1>2, <2>9, SetDefaultKeeps
  <2>10. CASE Cleanup(r)
    BY <1>2, <2>10, CleanupKeeps
  <2>11. CASE SetDefaultBranchAfter(r)
    BY <1>2, <2>11, DefaultAfterKeeps
  <2> QED
    BY <1>2, <2>1, <2>2, <2>3, <2>4, <2>5, <2>6, <2>7, <2>8, <2>9, <2>10, <2>11 DEF Transfer
<1>3. CASE \E r \in settings.replicas : Transfer(r) /\ UNCHANGED syncVars
  BY <1>1, <1>2, <1>3
<1>4. CASE \E r \in settings.replicas : Synchronize(r)
  BY <1>1, <1>4, SyncKeeps
<1>5. CASE \E r \in settings.replicas : Crash(r)
  BY <1>1, <1>5, CrashKeeps
<1>6. CASE Restart /\ UNCHANGED syncVars
  <2>1. ~Over(obj) /\ Overwrite(CHOOSE s : TRUE, [obj EXCEPT !.phase = "Running"])
    BY <1>6 DEF Restart, Overwrite, Over
  <2> QED
    BY <1>6, <2>1, OverwriteKeeps
<1>7. CASE Users \/ (RotateKey /\ UNCHANGED <<transferVars, syncVars>>)
  BY <1>7, UsersKeep
<1>8. CASE UNCHANGED vars
  <2>1. /\ UNCHANGED <<ado, github, changes, settings, obj, current, mem, pc, dir, left, ok>>
        /\ UNCHANGED <<syncDir, syncing>>
    BY <1>8 DEF vars, gitVars, accessVars, transferVars, syncVars
  <2>2. TypeOK' /\ Lasting
    BY <2>1 DEF CodeInv, TypeOK, Lasting
  <2>3. Grows /\ \A k \in Repos : Admitted(k)'
    BY <2>1, <2>2, GithubStays
  <2>4. \A q \in Replicas : Latest(q)' /\ Placed(q)' /\ Prepared(q)' /\ (~Over(obj') => Pushed(q)')
    BY <2>1, <2>2, <2>3, Stays DEF CodeInv, Latest
  <2> QED
    BY <2>2, <2>3, <2>4 DEF CodeInv, Over
<1> QED
  BY <1>3, <1>4, <1>5, <1>6, <1>7, <1>8 DEF Next

\* What the program knows and where each replica is fit together, for every number of
\* repositories, replicas, branches and settings.
THEOREM CodeInvariant ==
    ASSUME GitAssumption, AccessAssumption
    PROVE  Spec => []CodeInv
<1>1. Init => CodeInv
  BY InitHolds
<1>2. CodeInv /\ [Next]_vars => CodeInv'
  BY StepKeeps
<1> QED
  BY <1>1, <1>2, PTL DEF Spec

\* When the push of a repository is over while the migration runs, GitHub has every kept branch
\* and every tag of the clone, at its commit or a later one, and no branch the patterns exclude:
\* with any number of replicas that transfer the same repository at once, crash and start again.
THEOREM MigratedAlways ==
    ASSUME GitAssumption, AccessAssumption
    PROVE  Spec => []MigratedWhole
<1>1. CodeInv => MigratedWhole
  <2> SUFFICES ASSUME CodeInv, NEW r \in Replicas, pc[r] = "cleanup", ok[r], obj.phase = "Running"
               PROVE  LET c == dir[r]
                          there == github[At(r)].refs IN
                      /\ \A b \in Kept(c) \cup {t \in Tags : c.refs[t] # Absent} :
                            there[b] = Theirs \/ there[b] >= c.refs[b]
                      /\ \A b \in Branches : there[b] # Absent => KeptByName(b, c.head)
    BY DEF MigratedWhole
  <2>1. Transferred(r) /\ ~Over(obj)
    BY DEF Transferred, Over
  <2>2. Pushed(r) /\ Prepared(r) /\ Placed(r) /\ TypeOK
    BY <2>1 DEF CodeInv
  <2>3. At(r) \in Repos
    BY <2>2, AtRepo DEF Placed
  <2>4. \A b \in Kept(dir[r]) \cup {t \in Tags : dir[r].refs[t] # Absent} : Arrived(r, b)
    BY <2>1, <2>2 DEF Pushed
  <2>5. \A b \in Branches : github[At(r)].refs[b] # Absent => KeptByName(b, dir[r].head)
    BY <2>1, <2>2, <2>3 DEF CodeInv, Admitted, Prepared
  <2> QED
    BY <2>4, <2>5 DEF Arrived
<1> QED
  BY <1>1, CodeInvariant, PTL

-----------------------------------------------------------------------------
(* Nothing is taken back.                                                  *)

\* References that stay, or are moved forward.
LEMMA ForwardTakesNothing ==
    ASSUME TypeOK, TypeOK',
           \A k \in Repos, b \in Refs :
              \/ github'[k].refs[b] = github[k].refs[b]
              \/ (github[k].refs[b] # Theirs /\ github[k].refs[b] <= github'[k].refs[b])
    PROVE  TakesNothingBack
<1> SUFFICES ASSUME NEW k \in Repos, NEW b \in Refs, github[k].refs[b] # github'[k].refs[b]
             PROVE  github[k].refs[b] # Theirs /\ github[k].refs[b] < github'[k].refs[b]
  BY DEF TakesNothingBack
<1>1. github[k].refs[b] \in Int /\ github'[k].refs[b] \in Int
  BY DEF TypeOK, Repository, Commits, Theirs
<1> QED
  BY <1>1

\* A push of branches or tags.
LEMMA PushTakesNothing ==
    ASSUME GitAssumption, CodeInv, TypeOK', NEW r \in Replicas, NEW S \in SUBSET Refs,
           NEW next, NEW rest, PushOrFail(r, S, next, rest), pc[r] \in {"push", "tags"}
    PROVE  TakesNothingBack
<1>1. TypeOK /\ Placed(r)
  BY DEF CodeInv
<1>2. At(r) \in Repos /\ dir[r].refs \in [Refs -> Nat]
  BY <1>1, AtRepo DEF Placed, TypeOK, Directory
<1>3. PICK k \in Repos, refs \in [Refs -> Nat] : k = At(r) /\ refs = dir[r].refs
  BY <1>2
<1>4. PICK done \in BOOLEAN : Push(k, refs, S, done)
  BY <1>3 DEF PushOrFail
<1>5. PICK T \in SUBSET Taken(refs, github[k], S) :
          \E g \in After(github[k], refs, T) : github' = [github EXCEPT ![k] = g]
  BY <1>4 DEF Push
<1>6. PICK h \in After(github[k], refs, T) : github' = [github EXCEPT ![k] = h]
  BY <1>5
<1>7. /\ \A j \in Repos : j # k => github'[j] = github[j]
      /\ github'[k].exists = github[k].exists
      /\ \A b \in Refs : \/ github'[k].refs[b] = github[k].refs[b]
                         \/ /\ b \in S /\ refs[b] # Absent /\ github'[k].refs[b] = refs[b]
                            /\ Follows(refs[b], github[k].refs[b])
  BY <1>1, <1>6, PushMoves
<1>8. \A b \in Refs : github[k].refs[b] \in Commits /\ refs[b] \in Nat
  BY <1>1 DEF TypeOK, Repository
<1>9. \A b \in Refs : \/ github'[k].refs[b] = github[k].refs[b]
                      \/ github[k].refs[b] # Theirs /\ github[k].refs[b] <= github'[k].refs[b]
  BY <1>7, <1>8, FollowsForward
<1> QED
  BY <1>1, <1>7, <1>9, ForwardTakesNothing

\* The steps that only look, or set a default branch, or create a repository.
LEMMA TransferTakesNothing ==
    ASSUME GitAssumption, CodeInv, CodeInv', NEW r \in Replicas, Transfer(r)
    PROVE  TakesNothingBack
<1>1. TypeOK /\ TypeOK' /\ Placed(r) /\ Prepared(r)
  BY DEF CodeInv
<1>2. CASE github' = github
  BY <1>2 DEF TakesNothingBack
<1>3. CASE PushBranches(r)
  <2>1. left[r] \in SUBSET Refs /\ pc[r] = "push"
    BY <1>1, <1>3 DEF TypeOK, Refs, PushBranches
  <2>2. \A b \in left[r] : {b} \in SUBSET Refs
    BY <2>1
  <2> QED
    BY <1>1, <1>3, <2>1, <2>2, PushTakesNothing DEF PushBranches
<1>4. CASE PushTags(r)
  <2>1. Tags \in SUBSET Refs /\ pc[r] = "tags"
    BY <1>4 DEF PushTags, Refs
  <2> QED
    BY <1>1, <1>4, <2>1, PushTakesNothing DEF PushTags
<1>5. CASE CreateRepository(r)
  <2>1. PICK k \in Repos : k = At(r)
    BY <1>1, <1>5, AtRepo DEF Placed, CreateRepository
  <2>2. github' = github \/ (~github[k].exists /\ github' = [github EXCEPT ![k] = Created])
    BY <1>5, <2>1 DEF CreateRepository
  <2>3. ~github[k].exists => \A b \in Refs : github[k].refs[b] = Absent
    BY DEF CodeInv, Admitted
  <2>4. \A b \in Refs : Created.refs[b] = Absent
    BY DEF Created, NoRepository, NoRefs
  <2>5. \A j \in Repos, b \in Refs : github'[j].refs[b] = github[j].refs[b]
    <3>1. CASE github' = github
      BY <3>1
    <3>2. CASE ~github[k].exists /\ github' = [github EXCEPT ![k] = Created]
      <4>1. github'[k] = Created /\ \A j \in Repos : j # k => github'[j] = github[j]
        BY <1>1, <3>2 DEF TypeOK
      <4> QED
        BY <2>3, <2>4, <3>2, <4>1
    <3> QED
      BY <2>2, <3>1, <3>2
  <2> QED
    BY <2>5 DEF TakesNothingBack
<1>6. CASE SetDefaultBranch(r) \/ SetDefaultBranchAfter(r)
  <2>1. PICK k \in Repos : k = At(r)
    BY <1>1, <1>6, AtRepo DEF Placed, SetDefaultBranch, SetDefaultBranchAfter
  <2>2. github' = github \/ \E b : github' = [github EXCEPT ![k].default = b]
    BY <1>6, <2>1 DEF SetDefaultBranch, SetDefaultBranchAfter
  <2>3. \A j \in Repos : github'[j].refs = github[j].refs
    <3>1. CASE github' = github
      BY <3>1
    <3>2. ASSUME NEW b, github' = [github EXCEPT ![k].default = b]
          PROVE  \A j \in Repos : github'[j].refs = github[j].refs
      BY <1>1, <3>2 DEF TypeOK, Repository
    <3> QED
      BY <2>2, <3>1, <3>2
  <2> QED
    BY <2>3 DEF TakesNothingBack
<1>7. CASE ~(\/ PushBranches(r) \/ PushTags(r) \/ CreateRepository(r)
             \/ SetDefaultBranch(r) \/ SetDefaultBranchAfter(r))
  <2>1. github' = github
    BY <1>7 DEF Transfer, Validate, FailMigration, ProcessResource, CompleteMigration,
                HandleDefaultBranchSetup, ValidateRepositoryState, CloneRepository,
                PrepareForGitHub, Cleanup, SaveResource, SaveFailure, Save, Overwrite, gitVars
  <2> QED
    BY <1>2, <2>1
<1> QED
  BY <1>3, <1>4, <1>5, <1>6, <1>7

\* Only the repository that is mirrored may lose what it has.
LEMMA SyncTakesNothing ==
    ASSUME CodeInv, NEW r \in Replicas, Synchronize(r)
    PROVE  TakesNothingBack
<1>1. TypeOK
  BY DEF CodeInv
<1>2. CASE github' = github
  BY <1>2 DEF TakesNothingBack
<1>3. CASE SyncPush(r)
  <2>1. pc[r] = "mirror" /\ pc'[r] # "mirror"
    BY <1>1, <1>3 DEF SyncPush, NextRepository, GoTo, TypeOK
  <2>2. Mirrored(syncing[r])
    BY <2>1 DEF Mirrored
  <2>3. github' = github \/ \E h : github' = [github EXCEPT ![syncing[r]] = h]
    BY <1>3 DEF SyncPush
  <2>4. \A j \in Repos : j # syncing[r] => github'[j] = github[j]
    BY <1>1, <2>3 DEF TypeOK
  <2> QED
    BY <2>2, <2>4 DEF TakesNothingBack
<1>4. CASE ~SyncPush(r)
  <2>1. github' = github
    BY <1>4 DEF Synchronize, StartSync, PutOffSync, SyncClone, SyncFetch
  <2> QED
    BY <1>2, <2>1
<1> QED
  BY <1>3, <1>4

\* No step of any replica takes a reference on GitHub back, removes it or overwrites a commit of
\* GitHub's users, but the mirroring of the synchronization.
THEOREM NeverTakenBack ==
    ASSUME GitAssumption, AccessAssumption
    PROVE  Spec => NothingTakenBack
<1>1. ASSUME CodeInv, CodeInv', [Next]_vars
      PROVE  TakesNothingBack
  <2>1. settings.replicas \subseteq Replicas /\ changes \in Nat
    BY <1>1 DEF CodeInv, TypeOK, AccessAssumption
  <2>2. CASE github' = github
    BY <2>2 DEF TakesNothingBack
  <2>3. CASE \E r \in settings.replicas : Transfer(r) /\ UNCHANGED syncVars
    BY <1>1, <2>1, <2>3, TransferTakesNothing
  <2>4. CASE \E r \in settings.replicas : Synchronize(r)
    BY <1>1, <2>1, <2>4, SyncTakesNothing
  <2>5. CASE Users
    <3>1. changes' # changes
      BY <2>1, <2>5 DEF Users, UserChanges, Commit, DeleteBranch, CommitOnGitHub, Change
    <3> QED
      BY <3>1 DEF TakesNothingBack
  <2>6. CASE \/ \E r \in settings.replicas : Crash(r)
             \/ Restart \/ RotateKey \/ UNCHANGED vars
    BY <2>2, <2>6 DEF Crash, Restart, RotateKey, vars, gitVars
  <2> QED
    BY <1>1, <2>3, <2>4, <2>5, <2>6 DEF Next
<1> QED
  BY <1>1, CodeInvariant, PTL DEF Spec, NothingTakenBack
=============================================================================
