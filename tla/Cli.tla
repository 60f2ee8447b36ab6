---------------------------------- MODULE Cli ----------------------------------
(***************************************************************************)
(* From the flags of the run command to the providers, stores and backend  *)
(* that Process is given (src/internal/cli/cli.go, sidecred.New).          *)
(*                                                                         *)
(* options [flags, backend]: the names of the boolean flags that are set,  *)
(* and the value of --state-backend.                                       *)
(***************************************************************************)
EXTENDS Config

\* The flag that enables a provider; random has none.
ProviderFlag == [aws         |-> "sts-provider-enabled",
                 github      |-> "github-provider-enabled",
                 artifactory |-> "artifactory-provider-enabled"]

\* The flag that enables a store and the store's type; inprocess has none.
StoreFlags == { <<"secrets-manager-store-enabled", "secretsmanager">>,
                <<"ssm-store-enabled", "ssm">>,
                <<"github-store-enabled", "github">>,
                <<"github-dependabot-store-enabled", "github:dependabot">> }

Flags == {ProviderFlag[t] : t \in DOMAIN ProviderFlag} \cup {f[1] : f \in StoreFlags}

\* The maps of sidecred.New, by the Type of each provider and store.
EnabledProviders(options) ==
    {"random"} \cup {t \in DOMAIN ProviderFlag : ProviderFlag[t] \in options.flags}

EnabledStores(options) ==
    {"inprocess"} \cup {f[2] : f \in {g \in StoreFlags : g[1] \in options.flags}}

Enabled(options) == [providers |-> EnabledProviders(options), stores |-> EnabledStores(options)]

\* Any other backend is fatal before a run starts.
KnownBackends == {"file", "s3"}
=============================================================================
