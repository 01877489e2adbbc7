SPECIFICATION SyncSpec
CONSTANTS
    Actions = {1, 2, 3}
    Hashes = {h1, h2}
    MaxChanges = 1
    NumLayers = 2
    LayerOf <- MCLayerOf
    Deps <- MCDeps
    Starts <- OneName
    Coordinators = {}
    Jobs = 2
    Plans <- NoPlans
    Forcings = {{}, {2}}
    Faults = {"fail"}
INVARIANTS
    UpToDateIsFresh
CHECK_DEADLOCK TRUE
