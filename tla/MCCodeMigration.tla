---------------------------- MODULE MCCodeMigration ----------------------------
EXTENDS CodeMigration, TLC

CONSTANT First     \* the replica that is deployed alone

Feature == <<"feature", "-", "login">>
Release == <<"v", "", "1">>

MCBranches == {Main, Feature}
MCTags == {Release}
AllMain == [k \in Repos |-> Main]

Plain == [auth |-> "tokenRef", include |-> {}, exclude |-> {}, default |-> NoBranch, shallow |-> FALSE,
          replicas |-> {First}]

MCSettings ==
    {[Plain EXCEPT !.replicas = Replicas],
     [Plain EXCEPT !.default = Feature],
     [Plain EXCEPT !.auth = "appAuth", !.shallow = TRUE],
     [Plain EXCEPT !.auth = "token"],
     [Plain EXCEPT !.exclude = {<<"*", "", "">>}, !.default = Main],
     [Plain EXCEPT !.include = {<<"feature", "/", "*">>}]}

OneSetting == {Plain}

\* The first repository is developed on main, the second one on feature-login.
TwoDefaults == [k \in Repos |-> IF k = 1 THEN Main ELSE Feature]

\* Two replicas have one mishap and one change less to meet than one has.
MCInit ==
    /\ Init
    /\ changes = mishaps
    /\ mishaps = IF settings.replicas = {First} THEN 0 ELSE 1

MCFairSpec == MCInit /\ [][Next]_vars /\ Fairness
=============================================================================
