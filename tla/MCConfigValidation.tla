-------------------------- MODULE MCConfigValidation --------------------------
(***************************************************************************)
(* Documents of up to two stores and two requests, with creds that are     *)
(* right, and creds, entries and stores that are wrong in one way each.    *)
(***************************************************************************)
EXTENDS ConfigValidation, MCConfigs

UnknownStore == [type |-> "vault", name |-> "", cfg |-> NoConfig]

StoreLists == {<< >>, <<One>>, <<Ssm, One>>, <<One, [Ssm EXCEPT !.name = "one"]>>, <<One, UnknownStore>>}

Typed(entry, type) == [entry EXCEPT !.type = type]

CredLists == {
    << >>,
    <<DeployKey("key", Repo)>>,
    <<Randomized("pin"), Randomized("key")>>,
    <<DeployKey("key", Owner)>>,
    <<Cred("aws:sts", "key", Short, 0)>>,
    <<Cred("random", "key", Owner, 0)>>,
    <<Cred("password", "key", NoConfig, 0)>>,
    <<List("aws:sts", <<Entry("role", Role, 0), Entry("key", Role, 0)>>)>>,
    <<List("aws:sts", <<Typed(Entry("role", Role, 0), "aws:sts")>>)>>,
    <<[List("aws:sts", <<Entry("role", Role, 0)>>) EXCEPT !.name = "key"]>>,
    <<Randomized("pin"), List("", <<Entry("role", Role, 0)>>)>> }

RequestLists ==
    LET Requests == [store: {"one", "ssm"}, creds: CredLists]
    IN UNION {[1 .. n -> Requests] : n \in 0 .. 2}

MCDocuments ==
    [version: {1}, strict: {TRUE},
     file: [namespace: {"team"}, stores: StoreLists, requests: RequestLists]]
    \cup
    [version: Versions, strict: BOOLEAN,
     file: [namespace: {"", "team"}, stores: {<< >>, <<One>>}, requests: {<< >>}]]
=============================================================================
