SPECIFICATION FairSpec
CONSTANTS
    Root = "top"
    Actions = {"a", "toMid", "b", "x", "toLow", "toTop", "y", "toDeep", "z"}
    EntriesOf <- TreeEntries
    Coordinators = {"toMid", "toLow", "toTop", "toDeep"}
    ChildManifest <- TreeChild
    ClonedBy <- TreeClones
    NumLayers <- TreeDepths
    LayerOf <- TreeLayers
    StaleSets <- TreeStale
    Pools = {1, 5}
    MaxDepth = 3
    Faults = {"fail", "plan", "open", "persist", "panic"}
INVARIANTS
    TreePool
    NoOrphanStack
    DoneAllTheWayDown
    LineagesSound
PROPERTIES
    TreeStops
    TreeEnds
CHECK_DEADLOCK TRUE
