--------------------------- MODULE MigrationAccess ---------------------------
(***************************************************************************)
(* How the AdoToGitMigration reconciler comes by its tokens: from a secret *)
(* that it reads at every use, or from a GitHub App whose client it keeps  *)
(* under the App's numbers, whatever key the client was made with.         *)
(***************************************************************************)
EXTENDS BranchFilter

CONSTANTS
    Replicas,
    Settings,       \* [auth, include, exclude, default, shallow, replicas]: what a
                    \* user may choose, and the replicas that are deployed
    MaxMishaps      \* bound on failing calls, crashes and retries

VARIABLES
    settings,   \* the settings of the migration
    appKey,     \* the private key of the App, by version
    appClient,  \* appClient[r]: the key of the client that r keeps; 0: no client
    mishaps     \* mishaps so far (bounded by MaxMishaps)

accessVars == <<settings, appKey, appClient, mishaps>>

ASSUME AccessAssumption ==
    /\ MaxMishaps \in Nat
    /\ Settings \subseteq [auth : {"token", "tokenRef", "appAuth"},
                           include : SUBSET Seq(STRING), exclude : SUBSET Seq(STRING),
                           default : Branches \cup {NoBranch}, shallow : BOOLEAN,
                           replicas : SUBSET Replicas]

AccessInit ==
    /\ settings \in Settings
    /\ appKey = 1
    /\ appClient = [r \in Replicas |-> 0]
    /\ mishaps \in 0 .. MaxMishaps

\* A call gives its answer, or fails.
Call(ok) == IF ok THEN UNCHANGED mishaps ELSE mishaps < MaxMishaps /\ mishaps' = mishaps + 1

\* The old key stops working when the App gets a new one.
RotateKey ==
    /\ Change
    /\ settings.auth = "appAuth"
    /\ appKey' = appKey + 1
    /\ UNCHANGED <<settings, appClient, mishaps, ado, github>>

-----------------------------------------------------------------------------
GetSecretValue(ok) == Call(ok) /\ UNCHANGED appClient

\* The key is read when there is no client yet; a kept client may have the
\* token of its old key still.
GetClientFromApp(r, ok) ==
    IF appClient[r] = 0
    THEN Call(ok) /\ appClient' = [appClient EXCEPT ![r] = IF ok THEN appKey ELSE 0]
    ELSE /\ IF appClient[r] # appKey THEN UNCHANGED mishaps ELSE Call(ok)
         /\ UNCHANGED appClient

\* For the validation: each of the three methods will do.
GetGitHubClient(r, ok) ==
    CASE settings.auth = "token" -> ok /\ UNCHANGED <<appClient, mishaps>>
      [] settings.auth = "appAuth" -> GetClientFromApp(r, ok)
      [] settings.auth = "tokenRef" -> GetSecretValue(ok)

\* For the synchronization: the token of a secret only.
GetGitHubToken(ok) ==
    IF settings.auth = "tokenRef" THEN GetSecretValue(ok)
    ELSE ~ok /\ UNCHANGED <<appClient, mishaps>>

\* For the migration: a token in the spec is not looked at.
GetGitHubTokenUnified(r, ok) ==
    IF settings.auth = "appAuth" THEN GetClientFromApp(r, ok) ELSE GetGitHubToken(ok)

\* A personal token, or the three secrets of a service principal.
GetAzureDevOpsToken(ok) == GetSecretValue(ok)
=============================================================================
