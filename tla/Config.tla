-------------------------------- MODULE Config --------------------------------
(***************************************************************************)
(* The configuration file (src/config/config.go, version 1) and what       *)
(* Process reads of it.                                                    *)
(*                                                                         *)
(*   config  [namespace, stores, requests]                                 *)
(*   store   [type, name, cfg]                                             *)
(*   request [store, creds]                                                *)
(*   cred    [type, name, cfg, window, list], where list holds entries     *)
(*           [type, name, cfg, window] that share the type of the cred     *)
(*                                                                         *)
(* "cfg" is the JSON object of a provider or store configuration: a        *)
(* function from the fields that are there to their values.  "" stands for *)
(* an absent string.                                                       *)
(***************************************************************************)
EXTENDS State

CONSTANT NoWindow      \* an absent "rotation_window" field

NoConfig == << >>      \* an absent "config" field: an object without fields

ASSUME NoConfigIsAConfig == NoConfig \in RequestConfigs

StoreTypes == {"inprocess", "secretsmanager", "ssm", "github", "github:dependabot"}

CredentialRequest ==
    [type: CredentialTypes, name: STRING, cfg: RequestConfigs,
     window: Nat \cup {NoWindow}]

\* A work item of Process: a request and the alias of the store it names.
WorkItem == [store: STRING, request: CredentialRequest]

\* A cred without a list is its own request; the entries of a list share its type.
Flatten(cred) ==
    IF cred.list = << >>
    THEN <<[type |-> cred.type, name |-> cred.name, cfg |-> cred.cfg,
            window |-> cred.window]>>
    ELSE [i \in DOMAIN cred.list |-> [cred.list[i] EXCEPT !.type = cred.type]]

CredentialsMap(request) ==
    [store |-> request.store,
     credentials |-> FlattenSeq([i \in DOMAIN request.creds |-> Flatten(request.creds[i])])]

\* The two nested loops of Process over Requests() and their credentials.
WorkItems(c) ==
    FlattenSeq([i \in DOMAIN c.requests |->
        LET m == CredentialsMap(c.requests[i])
        IN [j \in DOMAIN m.credentials |->
                [store |-> m.store, request |-> m.credentials[j]]]])

-----------------------------------------------------------------------------
(* The configuration of a provider, by the type of the credential.         *)

Fields(type) ==
    CASE type = "random" -> {"length"}
      [] type = "aws:sts" -> {"role_arn", "duration"}
      [] type = "github:deploy-key" -> {"owner", "repository", "title", "read_only"}
      [] type = "github:access-token" -> {"owner", "repositories", "permissions", "token_name"}
      [] type = "artifactory:access-token" -> {"user", "group", "duration"}

\* The fields Validate wants; the title of a deploy key is not among them.
Required(type) ==
    CASE type = "random" -> {}
      [] type = "aws:sts" -> {"role_arn"}
      [] type = "github:deploy-key" -> {"owner", "repository"}
      [] type = "github:access-token" -> {"owner"}
      [] type = "artifactory:access-token" -> {"user", "group"}

MinDuration == 900     \* seconds AWS grants at least

StringField(cfg, f) == IF f \in DOMAIN cfg THEN cfg[f] ELSE ""

\* parseProviderConfig decodes strictly, then the config validates itself.
parseProviderConfig(type, cfg) == type \in CredentialTypes /\ DOMAIN cfg \subseteq Fields(type)

ValidProviderConfig(type, cfg) ==
    /\ \A f \in Required(type) : StringField(cfg, f) # ""
    /\ type = "aws:sts" /\ "duration" \in DOMAIN cfg => cfg.duration >= MinDuration

-----------------------------------------------------------------------------
\* credentialRequest.validate: a list leaves name and config to its entries,
\* and the type to the cred itself.
ValidCred(cred) ==
    \/ cred.list = << >>
    \/ /\ cred.name = ""
       /\ cred.cfg = NoConfig
       /\ \A i \in DOMAIN cred.list : cred.list[i].type = ""

UniqueAliases(c) ==
    \A i, j \in DOMAIN c.stores : Alias(c.stores[i]) = Alias(c.stores[j]) => i = j

\* No store receives two requests with one name, whatever their types.
UniqueRequests(c) ==
    \A i, j \in DOMAIN WorkItems(c) :
        /\ WorkItems(c)[i].store = WorkItems(c)[j].store
        /\ WorkItems(c)[i].request.name = WorkItems(c)[j].request.name
        => i = j

\* v1.Validate returns no error.
Valid(c) ==
    /\ c.namespace # ""
    /\ c.stores # << >>
    /\ \A i \in DOMAIN c.stores : c.stores[i].type \in StoreTypes
    /\ UniqueAliases(c)
    /\ \A i \in DOMAIN c.requests :
        /\ \E s \in ToSet(c.stores) : Alias(s) = c.requests[i].store
        /\ \A j \in DOMAIN c.requests[i].creds : ValidCred(c.requests[i].creds[j])
    /\ \A i \in DOMAIN WorkItems(c) :
        /\ parseProviderConfig(WorkItems(c)[i].request.type, WorkItems(c)[i].request.cfg)
        /\ ValidProviderConfig(WorkItems(c)[i].request.type, WorkItems(c)[i].request.cfg)
    /\ UniqueRequests(c)

\* The store a request names; Process runs only with one store per alias.
StoreOf(c, alias) ==
    CHOOSE s \in ToSet(c.stores) : Alias(s) = alias
=============================================================================
