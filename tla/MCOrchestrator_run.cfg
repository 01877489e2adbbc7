SPECIFICATION FairSpec
CONSTANTS
    Actions = {1, 2, 3, 4, 5}
    Hashes = {h1, h2}
    NumLayers = 2
    LayerOf <- WideLayers
    Coordinators = {2}
    Jobs = 2
    Plans <- WidePlans
INVARIANTS
    Inductive
    LayerBarrier
    BatchesAtomic
    OutcomeHonest
    SinkMatchesEvents
PROPERTIES
    ImplementsBuildRun
    CancelStops
    FailFastStops
CHECK_DEADLOCK TRUE
