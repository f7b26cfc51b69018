----------------------------- MODULE BranchFilter -----------------------------
(* The branches that a migration pushes, by the patterns of its settings.  *)
EXTENDS GitHosting

Everything == <<"*", "", "">>

\* prefix/* stands for prefix/... and prefix-...; every other star is a glob,
\* which does not reach over a slash.
MatchBranchPattern(b, p) ==
    \/ b = p
    \/ p = Everything
    \/ p[3] = "*" /\ b[1] = p[1] /\ p[2] = "/" /\ b[2] \in {"/", "-"}
    \/ p[3] = "*" /\ b[1] = p[1] /\ p[2] = b[2] /\ b[2] # ""

MatchesAnyPattern(b, patterns) == \E p \in patterns : MatchBranchPattern(b, p)

FilterBranches(S, include, exclude, default) ==
    {b \in S : \/ b = default
               \/ /\ include = {} \/ MatchesAnyPattern(b, include)
                  /\ ~MatchesAnyPattern(b, exclude)}
=============================================================================
