------------------------------- MODULE Requests -------------------------------
(***************************************************************************)
(* The config files that may be submitted, what Process reads of them, and *)
(* what providers and stores make of a request.                            *)
(***************************************************************************)
EXTENDS Config

CONSTANT Configs   \* the config files that may be submitted

\* The second part follows from the definition of WorkItems by induction.
ASSUME ConfigsAssumption ==
    \A c \in Configs :
        /\ WorkItems(c) \in Seq(WorkItem)
        /\ \A w \in ToSet(WorkItems(c)) : \E i \in DOMAIN c.requests : w.store = c.requests[i].store
        /\ ToSet(c.stores) \subseteq StoreConfigs

-----------------------------------------------------------------------------
(* The names of the credentials Create returns, in the order of the slice. *)

RoleNames(r) ==
    << <<r.name, "access-key">>, <<r.name, "secret-key">>, <<r.name, "session-token">> >>

DeployKeyName(cfg) == <<cfg.repository, "deploy-key">>

AccessTokenName(cfg) ==
    IF StringField(cfg, "token_name") # "" THEN <<cfg.token_name>> ELSE <<cfg.owner, "access-token">>

ArtifactoryNames(r) == << <<r.name, "artifactory-user">>, <<r.name, "artifactory-token">> >>

CredentialNames(r) ==
    CASE r.type = "random" -> << <<r.name>> >>
      [] r.type = "aws:sts" -> RoleNames(r)
      [] r.type = "github:deploy-key" -> <<DeployKeyName(r.cfg)>>
      [] r.type = "github:access-token" -> <<AccessTokenName(r.cfg)>>
      [] r.type = "artifactory:access-token" -> ArtifactoryNames(r)

\* The config files Process accepts, and the items it goes through for each.
ValidConfigs == {c \in Configs : Valid(c)}

Work == [c \in Configs |-> WorkItems(c)]

\* Only a deploy key leaves metadata behind; Destroy of the others is a no-op.
Revocable(type) == type = "github:deploy-key"

\* The rendered secret template: it depends on the namespace and the name.
Path(namespace, name) == <<namespace, name>>

\* Where a store with configuration sc keeps a path, in a store that outlives the
\* process (what inprocess holds is lost with it).
Location(sc, path) == <<sc.type, sc.cfg, path>>

Names(c) == UNION {ToSet(CredentialNames(w.request)) : w \in ToSet(Work[c])}

Paths == UNION {{Path(c.namespace, n) : n \in Names(c)} : c \in ValidConfigs}

Locations == {Location(sc, path) : sc \in StoreConfigs, path \in Paths}

Nothing == 0  \* an empty place in a store; serial numbers start at 1

Key == [type: CredentialTypes, id: STRING, store: STRING, cfg: RequestConfigs,
        exp: Nat, live: BOOLEAN]

State == [resources: [ProviderTypes -> Seq(Resource)],
          secrets: [StoreConfigs -> Seq(Secret(Paths))]]

NoRequests == [namespace |-> "", stores |-> << >>, requests |-> << >>]

Deployment == [providers: SUBSET ProviderTypes, stores: SUBSET StoreTypes]
=============================================================================
