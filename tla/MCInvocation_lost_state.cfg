SPECIFICATION Spec
CONSTANTS
    NoWindow = NoWindow
    StoreConfigs <- AwsStoreConfigs
    RequestConfigs <- MCRequestConfigs
    Processes <- OneProcess
    Configs <- OverlapConfigs
    Options <- FileOptions
    RotationWindow = 0
    Lifetime <- MCLifetime
    FaultKinds = {"torn"}
    MaxKeyChanges = 0
    MaxNow = 0
    MaxEdits = 0
    MaxFaults = 1
PROPERTIES
    ForgetsOnlyDestroyed
