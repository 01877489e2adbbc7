SPECIFICATION FairSpec
CONSTANTS
    Leader = "cargo"
    Helpers = {"rustc", "linker", "daemon"}
    Strays = {"daemon"}
    Holders = {"cargo", "linker", "daemon"}
    Stubborn = {"linker"}
    Caller = "execute"
INVARIANTS
    NoSurvivors
    OutputIsWhole
PROPERTIES
    CancelReturns
CHECK_DEADLOCK TRUE
