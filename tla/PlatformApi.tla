------------------------------ MODULE PlatformApi ------------------------------
(***************************************************************************)
(* The platform service: an HTTP server over a table of migrations and the *)
(* secrets of a cluster.  A request is a sequence of calls to the two, and *)
(* requests run at the same time; each call may fail.                      *)
(*                                                                         *)
(* The main program gives the orchestrator no client for the cluster, so   *)
(* that it makes no credentials; a deployment inside a cluster would.      *)
(***************************************************************************)
EXTENDS Integers, FiniteSets

CONSTANTS
    Requests,       \* HTTP requests; a creation makes a migration of that id
    Stored,         \* who stored the secrets that were there before
    Absent,         \* in the place of a key that is not there
    MaxRefusals     \* bound on calls that fail

ASSUME PlatformAssumption ==
    /\ Requests \intersect {Stored, Absent} = {} /\ Stored # Absent
    /\ MaxRefusals \in Nat

VARIABLES
    client,         \* whether the orchestrator has a client for the cluster
    vault,          \* vault[n]: the secret n: its type, its last writer, who wrote each key
    rows,           \* rows[m]: the status of migration m in the table, or "none"
    creds,          \* creds[m]: whose tokens the credentials of m are copies of
    job,            \* job[r]: what request r does, and how far it is
    withdrawn,      \* migrations whose deletion has begun
    refusals

platformVars == <<client, vault, rows, creds, job, withdrawn, refusals>>

Names == {"ado", "github"}

\* Users store a credential of Azure DevOps under the one name, of GitHub under the other.
ValidSecretTypes == [ado |-> {"ado_pat", "azure_sp"}, github |-> {"github_token", "github_app"}]

\* A token, or the parts of an app or a service principal: what names it and what proves it.
Keys == {"token", "id", "secret"}

NoData == [k \in Keys |-> Absent]

NoSecret == [type |-> "", writer |-> Stored, data |-> NoData, version |-> 0]

\* What a request has read so far, and the verdict of a validation.
Blank == [secret |-> NoSecret, more |-> NoData, valid |-> FALSE]

Exists(n) == vault[n].type # ""

NoCreds == [ado |-> NoData, github |-> NoData]

Actions == {"pause", "resume", "cancel", "retry"}

\* What a request asks for.
Jobs ==
    (UNION {[op : {"store"}, name : {n}, type : ValidSecretTypes[n], keys : {{"token"}, {"id"}, {"id", "secret"}}] : n \in Names})
        \union [op : {"drop", "validate"}, name : Names]
        \union [op : {"create"}]
        \union [op : Actions \union {"delete"}, target : Requests]

Idle == [op |-> "none"]

PlatformInit ==
    /\ client \in BOOLEAN
    /\ vault = [n \in Names |-> [NoSecret EXCEPT !.type = IF n = "ado" THEN "ado_pat" ELSE "github_token", !.data["token"] = Stored]]
    /\ rows = [m \in Requests |-> "none"]
    /\ creds = [m \in Requests |-> NoCreds]
    /\ job = [r \in Requests |-> [ask |-> Idle, at |-> "new", seen |-> Blank]]
    /\ withdrawn = {}
    /\ refusals = 0

-----------------------------------------------------------------------------

To(r, at) == job' = [job EXCEPT ![r].at = at]

Keep(r, at, x) == job' = [job EXCEPT ![r].at = at, ![r].seen = x]

Does(r, op, at) == job[r].ask.op = op /\ job[r].at = at

Ask(r) == job[r].ask

Accept(r) ==
    /\ job[r].at = "new"
    /\ \E j \in Jobs : job' = [job EXCEPT ![r] = [ask |-> j, at |-> "start", seen |-> Blank]]
    /\ UNCHANGED <<client, vault, rows, creds, withdrawn, refusals>>

\* A call of a request fails; of a deletion of credentials see DeleteCreds.
Refuse(r) ==
    /\ job[r].at \notin {"new", "done", "failed"} /\ ~Does(r, "delete", "found")
    /\ refusals < MaxRefusals
    /\ refusals' = refusals + 1
    /\ To(r, "failed")
    /\ UNCHANGED <<client, vault, rows, creds, withdrawn>>

-----------------------------------------------------------------------------
(* Secrets.                                                                *)

\* The secret is read, and then created or updated.
StoreGet(r) ==
    /\ Does(r, "store", "start")
    /\ Keep(r, "write", [Blank EXCEPT !.secret = vault[Ask(r).name]])
    /\ UNCHANGED <<client, vault, rows, creds, withdrawn, refusals>>

\* New labels, and the new keys over the old ones.
Merged(r, old) ==
    [type |-> Ask(r).type, writer |-> r, version |-> old.version + 1,
     data |-> [k \in Keys |-> IF k \in Ask(r).keys THEN r ELSE old.data[k]]]

StoreSecret(r) ==
    LET n == Ask(r).name
        seen == job[r].seen.secret IN
    /\ Does(r, "store", "write")
    /\ IF (seen.type = "" /\ ~Exists(n)) \/ (seen.type # "" /\ Exists(n) /\ vault[n].version = seen.version)
       THEN vault' = [vault EXCEPT ![n] = Merged(r, vault[n])] /\ To(r, "done")
       ELSE To(r, "failed") /\ UNCHANGED vault
    /\ UNCHANGED <<client, rows, creds, withdrawn, refusals>>

DeleteSecret(r) ==
    /\ Does(r, "drop", "start")
    /\ IF Exists(Ask(r).name)
       THEN /\ vault' = [vault EXCEPT ![Ask(r).name] = [NoSecret EXCEPT !.version = @ + 1]]
            /\ To(r, "done")
       ELSE To(r, "failed") /\ UNCHANGED vault
    /\ UNCHANGED <<client, rows, creds, withdrawn, refusals>>

\* The data is read first and the type, from the list, after it.
ValidateGet(r) ==
    /\ Does(r, "validate", "start")
    /\ IF Exists(Ask(r).name) THEN Keep(r, "type", [Blank EXCEPT !.secret = vault[Ask(r).name]]) ELSE To(r, "failed")
    /\ UNCHANGED <<client, vault, rows, creds, withdrawn, refusals>>

\* A token is tried with its service, which may not accept it, and so are the parts of a
\* service principal; the parts of an app are only looked for.
ValidateADOPAT(data) == IF data["token"] # Absent THEN BOOLEAN ELSE {FALSE}

ValidateGitHubToken(data) == IF data["token"] # Absent THEN BOOLEAN ELSE {FALSE}

ValidateGitHubApp(data) == {Absent \notin {data["id"], data["secret"]}}

ValidateAzureSP(data) == IF Absent \notin {data["id"], data["secret"]} THEN BOOLEAN ELSE {FALSE}

Verdicts(type, data) ==
    CASE type = "ado_pat"      -> ValidateADOPAT(data)
      [] type = "github_token" -> ValidateGitHubToken(data)
      [] type = "github_app"   -> ValidateGitHubApp(data)
      [] type = "azure_sp"     -> ValidateAzureSP(data)

ValidateType(r) ==
    LET type == vault[Ask(r).name].type
        data == job[r].seen.secret.data IN
    /\ Does(r, "validate", "type")
    /\ IF Exists(Ask(r).name)
       THEN \E valid \in Verdicts(type, data) :
               Keep(r, "done", [Blank EXCEPT !.valid = valid])
       ELSE To(r, "failed")
    /\ UNCHANGED <<client, vault, rows, creds, withdrawn, refusals>>

-----------------------------------------------------------------------------
(* Migrations.                                                             *)

\* Both tokens are read, one after the other, before the first write.
ResolveAdo(r) ==
    /\ Does(r, "create", "start")
    /\ IF Exists("ado") THEN Keep(r, "github", [Blank EXCEPT !.secret = vault["ado"]]) ELSE To(r, "failed")
    /\ UNCHANGED <<client, vault, rows, creds, withdrawn, refusals>>

ResolveGitHub(r) ==
    /\ Does(r, "create", "github")
    /\ IF Exists("github")
       THEN Keep(r, "creds", [job[r].seen EXCEPT !.more = vault["github"].data])
       ELSE To(r, "failed")
    /\ UNCHANGED <<client, vault, rows, creds, withdrawn, refusals>>

Copied(r) == [ado |-> job[r].seen.secret.data, github |-> job[r].seen.more]

\* Mutant: a secret that cannot be made is only logged.
EnsureK8sSecretOrLog(r) ==
    /\ Does(r, "create", "creds")
    /\ \E made \in BOOLEAN : creds' = IF client /\ made THEN [creds EXCEPT ![r] = Copied(r)] ELSE creds
    /\ To(r, "row")
    /\ UNCHANGED <<client, vault, rows, withdrawn, refusals>>

EnsureK8sSecret(r) ==
    /\ Does(r, "create", "creds")
    /\ creds' = IF client THEN [creds EXCEPT ![r] = Copied(r)] ELSE creds
    /\ To(r, "row")
    /\ UNCHANGED <<client, vault, rows, withdrawn, refusals>>

CreateMigration(r) ==
    /\ Does(r, "create", "row")
    /\ rows' = [rows EXCEPT ![r] = "Pending"]
    /\ To(r, "done")
    /\ UNCHANGED <<client, vault, creds, withdrawn, refusals>>

GetByID(r) ==
    /\ Ask(r).op \in Actions \union {"delete"} /\ job[r].at = "start"
    /\ To(r, IF rows[Ask(r).target] = "none" THEN "failed" ELSE "found")
    /\ withdrawn' = IF Ask(r).op = "delete" /\ rows[Ask(r).target] # "none"
                    THEN withdrawn \union {Ask(r).target} ELSE withdrawn
    /\ UNCHANGED <<client, vault, rows, creds, refusals>>

StatusFor(action) ==
    CASE action = "pause"  -> "Paused"
      [] action = "resume" -> "Running"
      [] action = "cancel" -> "Cancelled"
      [] action = "retry"  -> "Pending"

\* The status is written whatever it was; a row that is gone is an error.
UpdateStatus(r) ==
    LET m == Ask(r).target IN
    /\ Ask(r).op \in Actions /\ job[r].at = "found"
    /\ IF rows[m] = "none"
       THEN To(r, "failed") /\ UNCHANGED rows
       ELSE rows' = [rows EXCEPT ![m] = StatusFor(Ask(r).op)] /\ To(r, "done")
    /\ UNCHANGED <<client, vault, creds, withdrawn, refusals>>

\* A deletion of the credentials that fails is passed over.
DeleteCreds(r) ==
    /\ Does(r, "delete", "found")
    /\ \/ /\ creds' = [creds EXCEPT ![Ask(r).target] = NoCreds]
          /\ UNCHANGED refusals
       \/ /\ client /\ refusals < MaxRefusals
          /\ refusals' = refusals + 1
          /\ UNCHANGED creds
    /\ To(r, "row")
    /\ UNCHANGED <<client, vault, rows, withdrawn>>

RemoveMigration(r) ==
    /\ Does(r, "delete", "row")
    /\ IF rows[Ask(r).target] = "none"
       THEN To(r, "failed") /\ UNCHANGED rows
       ELSE rows' = [rows EXCEPT ![Ask(r).target] = "none"] /\ To(r, "done")
    /\ UNCHANGED <<client, vault, creds, withdrawn, refusals>>

PlatformNext ==
    \E r \in Requests :
        \/ Accept(r) \/ Refuse(r)
        \/ StoreGet(r) \/ StoreSecret(r) \/ DeleteSecret(r) \/ ValidateGet(r) \/ ValidateType(r)
        \/ ResolveAdo(r) \/ ResolveGitHub(r) \/ EnsureK8sSecret(r) \/ CreateMigration(r)
        \/ GetByID(r) \/ UpdateStatus(r) \/ DeleteCreds(r) \/ RemoveMigration(r)

-----------------------------------------------------------------------------

HasCreds(m) == creds[m] # NoCreds

\* With a client for the cluster, a migration in the table has its credentials until its
\* deletion begins, and credentials outlive their row only when a call has failed: a
\* creation is two writes that nothing undoes.
CredentialsMatch ==
    \A m \in Requests :
        /\ client /\ rows[m] # "none" /\ m \notin withdrawn => HasCreds(m)
        /\ HasCreds(m) /\ rows[m] = "none" => Does(m, "create", "row") \/ refusals > 0

=============================================================================
