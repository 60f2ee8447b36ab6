SPECIFICATION Spec
CONSTANTS
    NoWindow = NoWindow
    StoreConfigs <- AwsStoreConfigs
    RequestConfigs <- MCRequestConfigs
    Processes <- TwoProcesses
    Configs <- OverlapConfigs
    Options <- S3Options
    RotationWindow = 1
    Lifetime <- MCLifetime
    FaultKinds = {}
    MaxKeyChanges = 0
    MaxNow = 1
    MaxEdits = 1
    MaxFaults = 0
INVARIANTS
    SavedStateIsClean
    NoHollowSecrets
PROPERTIES
    ImplementsSidecred
