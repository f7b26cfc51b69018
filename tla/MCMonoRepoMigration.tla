-------------------------- MODULE MCMonoRepoMigration --------------------------
(* Small instances of MonoRepoMigration. *)
EXTENDS MonoRepoMigration

NoRepos == {}
=============================================================================
