SPECIFICATION Spec
CONSTANTS
    k2 = k2
    k1 = k1
    n2 = n2
    n1 = n1
    Nodes <- TwoNodes
    Keys <- TwoKeys
    Watched <- TwoKeys
    None = None
    BatchSize = 2
    MaxWrites = 1
    MaxLag = 2
    MaxFaults = 1
INVARIANTS
    NoChangeSkipped
PROPERTIES
    ImplementsStore
    Converges
CHECK_DEADLOCK FALSE
