SPECIFICATION SyncSpec
SYMMETRY Contents
CONSTANTS
    Actions = {1, 2, 3}
    Hashes = {h1, h2}
    MaxChanges = 2
    NumLayers = 2
    LayerOf <- MCLayerOf
    Deps <- MCDeps
    Starts <- OneName
    Coordinators = {}
    Jobs = 2
    Plans <- NoPlans
    Forcings = {{}, {1}}
    Faults = {"fail", "cancel", "crash", "cacheError", "panic"}
INVARIANTS
    WrongSkipHasCause
    RecordedWasBuilt
    SecondSyncIsNoOp
CHECK_DEADLOCK TRUE
