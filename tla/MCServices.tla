------------------------------ MODULE MCServices ------------------------------
(***************************************************************************)
(* Two creations under one name, three requests to the platform, two       *)
(* browsers, three tracked migrations and two users of a token.            *)
(***************************************************************************)
EXTENDS Services, TLC

\* The requests to the platform differ in their names only.
RequestSymmetry == Permutations(Requests)
=============================================================================
