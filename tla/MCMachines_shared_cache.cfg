SPECIFICATION Spec
CONSTANTS
    Actions = {1, 2}
    Hashes = {h1}
    MaxInt = 7
    Machines = {"m1", "m2"}
    Urls = {"u1", "u2"}
    Clock <- MCClock
    Took <- MCTook
    Setups <- Two
INVARIANTS
    NeverSkipsForAnother
