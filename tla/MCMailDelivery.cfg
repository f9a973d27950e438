SPECIFICATION Spec
CONSTANTS
    n1 = n1
    m2 = m2
    m1 = m1
    Nodes <- TwoNodes
    Notices <- OneNotice
    None = None
    MAX_ATTEMPTS = 2
    MaxLag = 2
    MaxFaults = 1
INVARIANTS
    DeliveriesAccounted
PROPERTIES
    Settles
CHECK_DEADLOCK FALSE
