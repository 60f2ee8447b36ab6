------------------------------ MODULE MCConfigs ------------------------------
(***************************************************************************)
(* Small config files, from which the .cfg files choose the constants of   *)
(* the specifications.                                                     *)
(***************************************************************************)
EXTENDS Config

\* Stores.  The ones without a name go by their type; the template of the second
\* renders other paths; the last one lacks the repository it needs.
One == [type |-> "secretsmanager", name |-> "one", cfg |-> NoConfig]
Two == [type |-> "secretsmanager", name |-> "two", cfg |-> [secret_template |-> "prefixed"]]
Ssm == [type |-> "ssm", name |-> "", cfg |-> NoConfig]
Git == [type |-> "github", name |-> "", cfg |-> [repository |-> "org/repo"]]
Bad == [type |-> "github:dependabot", name |-> "", cfg |-> NoConfig]

\* Provider configurations.
Repo   == [owner |-> "org", repository |-> "repo", title |-> "first"]
Repo2  == [owner |-> "org", repository |-> "repo", title |-> "second"]
Owner  == [owner |-> "org"]
Role   == [role_arn |-> "role"]
Short  == [role_arn |-> "role", duration |-> MinDuration - 1]

Cred(type, name, cfg, window) ==
    [type |-> type, name |-> name, cfg |-> cfg, window |-> window, list |-> << >>]

Entry(name, cfg, window) ==
    [type |-> "", name |-> name, cfg |-> cfg, window |-> window]

List(type, entries) ==
    [type |-> type, name |-> "", cfg |-> NoConfig, window |-> NoWindow, list |-> entries]

DeployKey(name, cfg) == Cred("github:deploy-key", name, cfg, NoWindow)
Randomized(name)     == Cred("random", name, NoConfig, NoWindow)
Token(name)          == Cred("github:access-token", name, Owner, NoWindow)
Roles(name)          == List("aws:sts", <<Entry(name, Role, 1)>>)

For(store, creds) == [store |-> Alias(store), creds |-> creds]

File(stores, requests) ==
    [namespace |-> "team", stores |-> stores, requests |-> requests]

-----------------------------------------------------------------------------
(* Config files.                                                           *)

\* A deploy key, and an AWS role in a list.
KeyAndRole == File(<<One, Two>>, <<For(One, <<DeployKey("key", Repo)>>), For(Two, <<Roles("role")>>)>>)

\* The key gets another title, the role goes, a random string comes.
KeyChanged == File(<<One, Two>>, <<For(One, <<DeployKey("key", Repo2), Randomized("pin")>>)>>)

\* The key is requested under another name; its secret keeps its path.
KeyRenamed ==
    File(<<One, Ssm>>, <<For(One, <<DeployKey("other", Repo)>>),
                         For(Ssm, <<Randomized("nonce"), Randomized("")>>)>>)

\* Rejected: two requests with one name in one store.
Duplicated == File(<<One>>, <<For(One, <<DeployKey("key", Repo), Randomized("key")>>)>>)

\* One deploy key.
OneKey  == File(<<One, Ssm>>, <<For(One, <<DeployKey("key", Repo)>>)>>)
Keyless   == File(<<One, Ssm>>, << >>)

OneRole == File(<<Two>>, <<For(Two, <<Roles("role")>>)>>)

\* A key in Github and a token in Secrets Manager; a token in the parameter store
\* and a string where it cannot be written.
Remote == File(<<Git, One>>, <<For(Git, <<DeployKey("key", Repo)>>), For(One, <<Token("token")>>)>>)
Others == File(<<Ssm, Bad>>, <<For(Ssm, <<Token("other")>>), For(Bad, <<Randomized("pin")>>)>>)

\* A key and a string.  The key moves to another store; or its name stands in two
\* stores, beside two requests for one path; or the namespace is another one.
KeyHere  ==
    File(<<One, Two>>, <<For(One, <<DeployKey("key", Repo)>>), For(Two, <<Randomized("pin")>>)>>)
KeyMoved ==
    File(<<Two, Ssm>>, <<For(Ssm, <<DeployKey("key", Repo)>>), For(Two, <<Randomized("pin")>>)>>)
KeyTwice ==
    File(<<One, Ssm>>, <<For(One, <<DeployKey("key", Repo2)>>),
                         For(Ssm, <<DeployKey("key", Repo), Token("a"), Token("b")>>)>>)
Elsewhere ==
    [File(<<Ssm>>, <<For(Ssm, <<Token("a")>>)>>) EXCEPT !.namespace = "other"]

CallsConfigs    == {Remote, Others}
EditedConfigs   == {KeyAndRole, KeyChanged, KeyRenamed, Duplicated}
FaultyConfigs   == {OneKey, KeyChanged}
StaticConfigs   == {KeyAndRole, KeyChanged}
OverlapConfigs  == {OneKey, Keyless, Duplicated}
RoleConfigs     == {OneRole}
DeployedConfigs == {KeyHere, KeyMoved, KeyTwice, Elsewhere}

MCStoreConfigs   == {One, Two, Ssm}
MCRequestConfigs == {NoConfig, Repo, Repo2, Owner, Role, Short}
=============================================================================
