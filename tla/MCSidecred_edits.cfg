SPECIFICATION Spec
CONSTANTS
    NoWindow = NoWindow
    StoreConfigs <- MCStoreConfigs
    RequestConfigs <- MCRequestConfigs
    Runs <- OneRun
    Configs <- EditedConfigs
    Deployments <- FullDeployment
    RotationWindow = 1
    Lifetime <- MCLifetime
    FaultKinds = {}
    MaxNow = 2
    MaxEdits = 2
    MaxFaults = 0
INVARIANTS
    TypeOK
    SavedStateIsClean
    NoLeakedKeys
    SecretsAreTracked
    EveryRequestIsServed
    KeptCredentialsAreThere
PROPERTIES
    NoOutage
    RemovesWhatItDestroys
    DestroysOnlyUnneeded
    QuietWhenUpToDate
