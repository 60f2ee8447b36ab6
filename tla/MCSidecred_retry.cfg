SPECIFICATION FairSpec
CONSTANTS
    NoWindow = NoWindow
    StoreConfigs <- MCStoreConfigs
    RequestConfigs <- MCRequestConfigs
    Runs <- OneRun
    Configs <- StaticConfigs
    Deployments <- FullDeployment
    RotationWindow = 1
    Lifetime <- MCLifetime
    FaultKinds <- RetryFaults
    MaxNow = 2
    MaxEdits = 0
    MaxFaults = 2
INVARIANTS
    SavedStateIsClean
    KeptCredentialsAreThere
PROPERTIES
    ForgetsOnlyDestroyed
    Converges
    RunsEnd
