------------------------------ MODULE MCSidecred ------------------------------
(***************************************************************************)
(* Deployments, faults and lifetimes for the runs of Sidecred; the config  *)
(* files are those of MCConfigs.                                           *)
(***************************************************************************)
EXTENDS SidecredProperties, MCConfigs

Everything == [providers |-> ProviderTypes, stores |-> StoreTypes]
NoGithub   == [Everything EXCEPT !.providers = @ \ {"github"}]
NoSsm      == [Everything EXCEPT !.stores = @ \ {"ssm"}]

FullDeployment == {Everything}
AnyDeployment  == {Everything, NoGithub, NoSsm}

OneRun == {"cli"}

CallFaults  == {"create", "write", "destroy", "delete", "torn"}
RetryFaults == {"create", "save", "crash"}

\* With the default window of one tick, a role (window 1) is renewed in
\* the tick after its creation, a deploy key in the tick it expires, and a random
\* string never.
MCLifetime == [t \in CredentialTypes |-> CASE t = "aws:sts" -> 1
                                           [] t = "github:deploy-key" -> 2
                                           [] OTHER -> 3]

\* The conditions of the theorems hold for these runs.  DeployedConfigs disputes some
\* places, but not those of the key, and the others none.
ASSUME RunsMeetTheConditions ==
    /\ OneAtATime /\ DistinctStores
    /\ IF Configs = DeployedConfigs
       THEN \A sc \in {One, Ssm} :
                Location(sc, Path("team", DeployKeyName(Repo))) \in Undisputed
       ELSE \A c \in ValidConfigs : \A w \in ToSet(Work[c]) : Locs(c, w) \subseteq Undisputed
    /\ Deployments = FullDeployment => StoresAreEnabled
=============================================================================
