SPECIFICATION FairSpec
CONSTANTS
    Actions = {1, 2, 3}
    Hashes = {h1, h2}
    Problems <- AllProblems
    MaxEdits = 1
INVARIANTS
    LayersSound
    CycleVerdict
    Inductive
    PlanIsFixpoint
    UpstreamMovedHonest
    UpToDateJustified
PROPERTIES
    CancelEndsPlanning
CHECK_DEADLOCK TRUE
