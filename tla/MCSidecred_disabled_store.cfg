SPECIFICATION Spec
CONSTANTS
    NoWindow = NoWindow
    StoreConfigs <- MCStoreConfigs
    RequestConfigs <- MCRequestConfigs
    Runs <- OneRun
    Configs <- DeployedConfigs
    Deployments <- AnyDeployment
    RotationWindow = 1
    Lifetime <- MCLifetime
    FaultKinds = {}
    MaxNow = 0
    MaxEdits = 1
    MaxFaults = 0
PROPERTIES
    DestroysOnlyUnneeded
