SPECIFICATION Spec
CHECK_DEADLOCK FALSE
CONSTANTS
    NoWindow = NoWindow
    StoreConfigs <- MCStoreConfigs
    RequestConfigs <- MCRequestConfigs
    Documents <- MCDocuments
INVARIANTS
    AgreesWithValid
