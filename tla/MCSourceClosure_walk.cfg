SPECIFICATION FairSpec
CONSTANTS
    Root = "app"
    Dirs = {"app", "lib", "ext"}
    WorkspaceOf <- TwoWorkspaces
    DepChoices <- Graphs
    Sources = {1, 2}
    Manifests <- TwoManifests
    MaxEdits = 2
INVARIANTS
    ClosureExact
    UnmovedMeansSame
PROPERTIES
    WalkEnds
CHECK_DEADLOCK TRUE
