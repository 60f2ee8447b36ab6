SPECIFICATION Spec
CONSTANTS
    NoWindow = NoWindow
    StoreConfigs <- CallsStoreConfigs
    RequestConfigs <- MCRequestConfigs
    Processes <- OneProcess
    Configs <- CallsConfigs
    Options <- CallsOptions
    RotationWindow = 1
    Lifetime <- MCLifetime
    FaultKinds <- CallFaults
    MaxKeyChanges = 1
    MaxNow = 1
    MaxEdits = 1
    MaxFaults = 1
INVARIANTS
    TypeOK
    NoHollowSecrets
PROPERTIES
    ImplementsSidecred
