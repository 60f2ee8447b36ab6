SPECIFICATION Spec
CONSTANTS
    NoWindow = NoWindow
    StoreConfigs <- MCStoreConfigs
    RequestConfigs <- MCRequestConfigs
    Runs <- OneRun
    Configs <- DeployedConfigs
    Deployments <- AnyDeployment
    RotationWindow = 1
    Lifetime <- MCLifetime
    FaultKinds = {}
    MaxNow = 1
    MaxEdits = 3
    MaxFaults = 0
INVARIANTS
    RecordedKeysExist
    NoLeakedKeys
    SecretsAreTracked
    EveryRequestIsServed
    NoSecretOutlivesItsName
    KeptCredentialsHoldTheirPlaces
PROPERTIES
    NoOutage
