SPECIFICATION Spec
CONSTANTS
    n1 = n1
    m1 = m1
    m2 = m2
    Nodes = {m1}
    Notices = {n1}
    None = None
    MAX_ATTEMPTS = 2
    MaxLag = 1
    MaxFaults = 1
PROPERTY
    SentIsTerminal
CHECK_DEADLOCK FALSE
