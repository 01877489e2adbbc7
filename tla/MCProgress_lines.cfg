SPECIFICATION FairSpec
CONSTANTS
    Actions = {"a", "b", "c"}
    NumLayers = 2
    LayerOf <- TwoLayers
    MaxTicks = 2
INVARIANTS
    EveryStartAnswered
    HeartbeatIsTimely
PROPERTIES
    SyncReturns
CHECK_DEADLOCK TRUE
