------------------------------ MODULE MCControllers ------------------------------
(* A small instance of Controllers: pipelines of both types, two of which  *)
(* share an id, and specs with each of the mistakes a validation looks for. *)
EXTENDS Controllers

Pipeline(i, t) == [id |-> i, type |-> t, named |-> TRUE]

Listed == [enabled |-> FALSE, auth |-> "none", types |-> {}, folder |-> NoFilter,
           names |-> {}, max |-> 0]

All == [enabled |-> TRUE, auth |-> "pat", types |-> {"build", "release"}, folder |-> NoFilter,
        names |-> 1 .. 2, max |-> 0]

Valid == [pipelines |-> <<Pipeline(1, "build")>>, auto |-> Listed, config |-> TRUE,
          settings |-> TRUE, create |-> FALSE]

Team == [path |-> <<"/Team">>, below |-> TRUE]

MCConversionSpecs ==
    {Valid,
     [Valid EXCEPT !.pipelines = <<Pipeline(1, "build"), Pipeline(2, "release")>>, !.create = TRUE],
     [Valid EXCEPT !.pipelines = <<Pipeline(1, "build"), Pipeline(1, "release")>>],
     [Valid EXCEPT !.pipelines = <<Pipeline(3, "build")>>, !.auto = [All EXCEPT !.folder = Team, !.max = 1]],
     [Valid EXCEPT !.pipelines = <<>>, !.auto = [All EXCEPT !.auth = "principal"]],
     [Valid EXCEPT !.pipelines = <<>>, !.auto = [All EXCEPT !.auth = "none"]],
     [Valid EXCEPT !.pipelines = <<>>],
     [Valid EXCEPT !.pipelines[1].named = FALSE],
     [Valid EXCEPT !.config = FALSE],
     [Valid EXCEPT !.settings = FALSE]}

MCProjects ==
    {[build |-> <<>>, release |-> <<>>],
     [build |-> <<[id |-> 1, type |-> "build", folder |-> <<"/Team", "s">>],
                  [id |-> 3, type |-> "build", folder |-> <<"/">>]>>,
      release |-> <<[id |-> 2, type |-> "release", folder |-> <<"/Team">>]>>]}

MCDiscoverySpecs ==
    [config : {TRUE}, scope : {{}, {"projects"}, {"projects", "teams"}}]
        \union {[config |-> FALSE, scope |-> {}]}

MCJobSpecs == [config : BOOLEAN, secrets : BOOLEAN, resources : {0, 2}]
=============================================================================
