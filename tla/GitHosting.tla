------------------------------ MODULE GitHosting ------------------------------
(***************************************************************************)
(* The repositories at both ends of a migration, as git keeps them: a      *)
(* reference has a commit, the commits of a branch follow one another, and *)
(* a push that is not forced only ever moves a branch forward.  A commit   *)
(* is its number on its branch.                                            *)
(***************************************************************************)
EXTENDS Integers, Sequences, FiniteSets

CONSTANTS
    RepoCount,      \* repositories of the migration, taken in this order
    Branches,       \* branch names: <<prefix, separator, rest>>
    Tags,           \* tag names, of the same form
    AdoDefault,     \* AdoDefault[k]: the branch that HEAD names in Azure DevOps
    MaxChanges      \* bound on what the users of both ends commit and delete

Repos == 1 .. RepoCount
Refs == Branches \cup Tags
NoBranch == <<"", "", "">>
Main == <<"main", "", "">>

ASSUME GitAssumption ==
    /\ RepoCount \in Nat \ {0} /\ MaxChanges \in Nat
    /\ Branches \cap Tags = {} /\ NoBranch \notin Refs
    /\ AdoDefault \in [Repos -> Branches]

VARIABLES
    ado,        \* ado[k]: the references in Azure DevOps
    github,     \* github[k]: the repository on GitHub
    changes     \* changes by users so far (bounded by MaxChanges)

gitVars == <<ado, github, changes>>

Absent == 0
Theirs == -1    \* a commit of GitHub's users that Azure DevOps does not have

NoRefs == [b \in Refs |-> Absent]
NoRepository == [exists |-> FALSE, refs |-> NoRefs, default |-> NoBranch]
Created == [NoRepository EXCEPT !.exists = TRUE]

GitInit ==
    /\ ado = [k \in Repos |-> [b \in Refs |-> 1]]
    /\ github \in [Repos -> {NoRepository, Created}]
    /\ changes \in 0 .. MaxChanges

-----------------------------------------------------------------------------
(* Pushes.                                                                 *)

\* Without --force a reference is created or moved forward.
Follows(new, old) == old = Absent \/ (old # Theirs /\ old <= new)

\* Mutant: every push is forced.
TakenAnyway(refs, g, S) == {b \in S : refs[b] # Absent}

Taken(refs, g, S) == {b \in S : refs[b] # Absent /\ Follows(refs[b], g.refs[b])}

\* GitHub makes one of the first branches it gets the default one.
After(g, refs, S) ==
    LET new == [b \in Refs |-> IF b \in S THEN refs[b] ELSE g.refs[b]]
        heads == {b \in Branches : new[b] # Absent}
    IN {[g EXCEPT !.refs = new, !.default = d] :
            d \in IF g.default = NoBranch /\ heads # {} THEN heads ELSE {g.default}}

\* The references of S are pushed; some of the others arrive when it fails.
Push(k, refs, S, ok) ==
    LET taken == Taken(refs, github[k], S) IN
    \E T \in SUBSET taken :
        /\ ok => T = {b \in S : refs[b] # Absent}
        /\ \E g \in After(github[k], refs, T) : github' = [github EXCEPT ![k] = g]

Rejected(k, refs, S) == Taken(refs, github[k], S) # {b \in S : refs[b] # Absent}

\* --mirror forces every reference and removes the others; GitHub does not
\* remove its default branch.
MirrorOf(g, refs) ==
    [b \in Refs |-> IF refs[b] = Absent /\ b = g.default THEN g.refs[b] ELSE refs[b]]

-----------------------------------------------------------------------------
(* The users of Azure DevOps and of GitHub.                                *)

Change == changes < MaxChanges /\ changes' = changes + 1

Commit ==
    /\ Change
    /\ \E k \in Repos, b \in Branches :
          ado[k][b] # Absent /\ ado' = [ado EXCEPT ![k][b] = @ + 1]
    /\ UNCHANGED github

DeleteBranch ==
    /\ Change
    /\ \E k \in Repos : \E b \in Branches \ {AdoDefault[k]} :
          ado[k][b] # Absent /\ ado' = [ado EXCEPT ![k][b] = Absent]
    /\ UNCHANGED github

CommitOnGitHub ==
    /\ Change
    /\ \E k \in Repos, b \in Branches :
          github[k].refs[b] > 0 /\ github' = [github EXCEPT ![k].refs[b] = Theirs]
    /\ UNCHANGED ado

UserChanges == Commit \/ DeleteBranch \/ CommitOnGitHub
=============================================================================
