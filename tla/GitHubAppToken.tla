---------------------------- MODULE GitHubAppToken ----------------------------
(***************************************************************************)
(* The installation token of a GitHub App, shared by goroutines: each      *)
(* looks at the expiry under the read lock, fetches a new token without a  *)
(* lock when little time is left, and stores it under the write lock.      *)
(* Two that refresh at once both store, in any order.                      *)
(***************************************************************************)
EXTENDS Integers

CONSTANTS
    Users,          \* goroutines that ask for the token
    Lifetime,       \* how long a token is valid, in units of the safety margin
    MaxDelay,       \* assumed bound on the time that a refresh takes
    MaxClock,       \* bound on the clock
    MaxLosses       \* bound on refreshes that fail

\* A refresh is answered long before the token it brings runs out.
ASSUME TokenAssumption ==
    /\ {Lifetime, MaxDelay, MaxClock, MaxLosses} \subseteq Nat
    /\ Lifetime >= MaxDelay + 1

VARIABLES
    expiry,         \* when the stored token expires
    user,           \* user[u]: how far u is, when it began, and the expiry of its token
    time,
    losses

tokenVars == <<expiry, user, time, losses>>

Margin == 1

TokenInit ==
    /\ expiry = Lifetime
    /\ user = [u \in Users |-> [at |-> "idle", began |-> 0, token |-> 0]]
    /\ time = 0
    /\ losses = 0

At(u, at, token) == user' = [user EXCEPT ![u].at = at, ![u].token = token]

\* Mutant: a token is refreshed when it has expired.
RefreshTooLate == expiry < time

NeedsRefresh == expiry - time < Margin

GetClient(u) ==
    /\ user[u].at \in {"idle", "served"}
    /\ user' = [user EXCEPT ![u] = [at |-> IF NeedsRefresh THEN "refresh" ELSE "served", began |-> time,
                                    token |-> IF NeedsRefresh THEN 0 ELSE expiry]]
    /\ UNCHANGED <<expiry, time, losses>>

\* A refresh can also be asked for.
ForceRefresh(u) ==
    /\ user[u].at \in {"idle", "served"}
    /\ user' = [user EXCEPT ![u] = [at |-> "refresh", began |-> time, token |-> 0]]
    /\ UNCHANGED <<expiry, time, losses>>

CreateInstallationToken(u) ==
    /\ user[u].at = "refresh"
    /\ \/ At(u, "issued", time + Lifetime) /\ UNCHANGED losses
       \/ losses < MaxLosses /\ losses' = losses + 1 /\ At(u, "idle", 0)
    /\ UNCHANGED <<expiry, time>>

RefreshToken(u) ==
    /\ user[u].at = "issued"
    /\ expiry' = user[u].token
    /\ At(u, "stored", user[u].token)
    /\ UNCHANGED <<time, losses>>

\* What is stored by now need not be what this goroutine has stored.
GetToken(u) ==
    /\ user[u].at = "stored"
    /\ At(u, "served", expiry)
    /\ UNCHANGED <<expiry, time, losses>>

\* A call to GitHub is assumed to be answered within MaxDelay.
PassTime ==
    /\ time < MaxClock
    /\ \A u \in Users : user[u].at \in {"refresh", "issued", "stored"} => time - user[u].began < MaxDelay
    /\ time' = time + 1
    /\ UNCHANGED <<expiry, user, losses>>

TokenNext ==
    \/ PassTime
    \/ \E u \in Users : GetClient(u) \/ ForceRefresh(u) \/ CreateInstallationToken(u) \/ RefreshToken(u) \/ GetToken(u)

-----------------------------------------------------------------------------

\* A goroutine is served a token that was good for the safety margin when it asked, also
\* when another's older token was stored over the one it has fetched.
TokenGood == \A u \in Users : user[u].at = "served" => user[u].token - user[u].began >= Margin
=============================================================================
