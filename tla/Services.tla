------------------------------- MODULE Services -------------------------------
(***************************************************************************)
(* The parts of the two programs that share nothing with one another: the  *)
(* HTTP services of the operator and of the platform, the hubs, the cache  *)
(* of workspaces and the token of a GitHub App.  Each behaviour is of one. *)
(***************************************************************************)
EXTENDS OperatorApi, PlatformApi, EventHub, MigrationCache, GitHubAppToken

VARIABLE service

vars == <<service, apiVars, platformVars, hubVars, cacheVars, tokenVars>>

Init ==
    /\ service \in {"operator", "platform", "hub", "cache", "token"}
    /\ ApiInit
    /\ PlatformInit /\ (service # "platform" => client)
    /\ HubInit /\ (service # "hub" => hub = "manager")
    /\ CacheInit
    /\ TokenInit

Next ==
    \/ service = "operator" /\ ApiNext /\ UNCHANGED <<service, platformVars, hubVars, cacheVars, tokenVars>>
    \/ service = "platform" /\ PlatformNext /\ UNCHANGED <<service, apiVars, hubVars, cacheVars, tokenVars>>
    \/ service = "hub" /\ HubNext /\ UNCHANGED <<service, apiVars, platformVars, cacheVars, tokenVars>>
    \/ service = "cache" /\ CacheNext /\ UNCHANGED <<service, apiVars, platformVars, hubVars, tokenVars>>
    \/ service = "token" /\ TokenNext /\ UNCHANGED <<service, apiVars, platformVars, hubVars, cacheVars>>

Spec == Init /\ [][Next]_vars
=============================================================================
