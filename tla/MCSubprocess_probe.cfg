SPECIFICATION Spec
CONSTANTS
    Leader = "cargo"
    Helpers = {"rustc", "linker", "daemon"}
    Strays = {"daemon"}
    Holders = {"cargo", "linker", "daemon"}
    Stubborn = {"linker"}
    Caller = "probe"
INVARIANTS
    NobodyStranded
CHECK_DEADLOCK TRUE
