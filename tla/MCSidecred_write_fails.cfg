SPECIFICATION Spec
CONSTANTS
    NoWindow = NoWindow
    StoreConfigs <- MCStoreConfigs
    RequestConfigs <- MCRequestConfigs
    Runs <- OneRun
    Configs <- RoleConfigs
    Deployments <- FullDeployment
    RotationWindow = 1
    Lifetime <- MCLifetime
    FaultKinds = {"write"}
    MaxNow = 0
    MaxEdits = 0
    MaxFaults = 1
INVARIANTS
    KeptCredentialsAreThere
