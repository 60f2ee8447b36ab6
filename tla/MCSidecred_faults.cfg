SPECIFICATION Spec
CONSTANTS
    NoWindow = NoWindow
    StoreConfigs <- MCStoreConfigs
    RequestConfigs <- MCRequestConfigs
    Runs <- OneRun
    Configs <- FaultyConfigs
    Deployments <- FullDeployment
    RotationWindow = 1
    Lifetime <- MCLifetime
    FaultKinds <- CallFaults
    MaxNow = 1
    MaxEdits = 1
    MaxFaults = 2
INVARIANTS
    SavedStateIsClean
    RecordedKeysExist
PROPERTIES
    RemovesWhatItDestroys
    LosesOnlyWhatFailed
