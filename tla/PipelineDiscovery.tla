--------------------------- MODULE PipelineDiscovery ---------------------------
(***************************************************************************)
(* How a conversion finds the pipelines of an Azure DevOps project: with a *)
(* personal token, or as a service principal through a connection that the *)
(* process keeps, with the token it was made with, until it restarts.      *)
(*                                                                         *)
(* A pipeline of the project is [id, type, folder], a folder the sequence  *)
(* of the pieces of its path.                                              *)
(***************************************************************************)
EXTENDS StatusObject, SequencesExt

CONSTANT Projects   \* what the project may hold: [build, release]: lists of pipelines

Types == {"build", "release"}

ProjectPipeline == [id : Nat, type : Types, folder : Seq(STRING)]

ASSUME ProjectsAssumption ==
    Projects \subseteq [build : Seq(ProjectPipeline), release : Seq(ProjectPipeline)]

VARIABLE connection \* connection[r]: r's connection as the service principal:
                    \* "none", or the state of its token: "good", "expired"

DiscoveryInit == connection = [r \in Replicas |-> "none"]

-----------------------------------------------------------------------------
(* The filters.  NoFilter is the empty filter for folders.                 *)

NoFilter == [path |-> <<>>, below |-> FALSE]

\* "/Team/*" takes every folder that begins with "/Team", "/Teams" too.
MatchesFolderFilter(folder, filter) ==
    IF filter.below THEN IsPrefix(filter.path, folder) ELSE folder = filter.path

\* config.names: the ids whose names the pattern for names matches.
Matches(p, config) ==
    /\ config.folder = NoFilter \/ MatchesFolderFilter(p.folder, config.folder)
    /\ p.id \in config.names

\* The matching pipelines, in their order.
FilterPipelines(pipelines, config) ==
    LET kept == {i \in DOMAIN pipelines : Matches(pipelines[i], config)}
        place(i) == Cardinality({j \in kept : j <= i})
    IN [n \in 1 .. Cardinality(kept) |-> pipelines[CHOOSE i \in kept : place(i) = n]]

\* The limit is shared out by the lengths of the two lists, the rounding
\* going to the releases.
ApplyMaxLimit(lists, max) ==
    LET b == Len(lists.build)
        l == Len(lists.release)
        quotient == (max * b) \div (b + l)
        builds == IF max - quotient > l THEN max - l ELSE quotient
    IN IF max = 0 \/ b + l <= max THEN lists
       ELSE [build |-> SubSeq(lists.build, 1, builds),
             release |-> SubSeq(lists.release, 1, max - builds)]

ConvertDiscoveredPipelinesToResources(lists) ==
    LET resource(p) == [id |-> p.id, type |-> p.type, named |-> TRUE]
        all == lists.build \o lists.release
    IN [i \in DOMAIN all |-> resource(all[i])]

-----------------------------------------------------------------------------
(* The requests to Azure DevOps.                                           *)

\* One list of the project, asked for three times; each list that is asked
\* for must be given.
DiscoverPipelinesWithPAT(project, config, type) ==
    IF type \in config.types THEN FilterPipelines(project[type], config) ELSE <<>>

\* A connection is made once for the organization, the principal and the
\* first letters of its secret; its token is not looked at again.
GetConnection(r) ==
    connection' = [connection EXCEPT ![r] = IF @ = "none" THEN "good" ELSE @]

\* Azure Active Directory gives no token, or the connection has an old one.
NoConnection(r) ==
    connection[r] \in {"none", "expired"} /\ UNCHANGED connection

\* As with a token: but the connection comes first, if any list is wanted.
Connected(r, config) ==
    IF config.auth = "principal" /\ config.types # {}
    THEN connection[r] # "expired" /\ GetConnection(r)
    ELSE config.auth # "none" /\ UNCHANGED connection

\* The resources that a discovery may come to, asking for one list after the other.
DiscoverPipelines(config) ==
    {ConvertDiscoveredPipelinesToResources(
        ApplyMaxLimit([build |-> DiscoverPipelinesWithPAT(p, config, "build"),
                       release |-> DiscoverPipelinesWithPAT(q, config, "release")], config.max))
        : p, q \in Projects}

\* No credentials, a secret that cannot be read, no connection, or a request that
\* fails three times.
DiscoveryFails(r, config) ==
    \/ config.auth = "none" /\ UNCHANGED connection
    \/ config.auth = "principal" /\ config.types # {} /\ NoConnection(r)
    \/ config.auth # "none" /\ Connected(r, config)

\* Azure DevOps gives its tokens for an hour.
TokenExpires(r) ==
    /\ connection[r] = "good"
    /\ connection' = [connection EXCEPT ![r] = "expired"]
    /\ UNCHANGED objectVars

\* The connections of a process end with it.
ForgetConnection(r) == connection' = [connection EXCEPT ![r] = "none"]
=============================================================================
