SPECIFICATION Spec
CONSTANTS
    m1 = m1
    Procs = {p1, p2}
    Models = {m1, m2}
    Denials = {d1}
    Allows = {a1}
    BootJob = boot
    CASAttempts = 2
    Founded <- FoundedChain
    MaxCrashes = 1
    MaxErrors = 1
SYMMETRY Symmetry
INVARIANTS
    ChainLinear
    GenesisFirst
    ChainedOnce
CHECK_DEADLOCK FALSE
