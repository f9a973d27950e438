SPECIFICATION AllSpec
INVARIANTS
    OnePump
    LossesMarked
PROPERTIES
    ChangesReached
    StopEnds
    RestoredOnce
    KeysStable
    Recovers
    DiesTogether
    EditsBuilt
    BracketCloses
CONSTANTS
    c1 = c1
    c2 = c2
    Controllers <- TwoControllers
    MaxRev = 1
    MaxFaults = 2
    Backups = {b1, b2}
    None = None
    Torn = Torn
    Tearable = {"marker"}
    MaxRequests = 3
    MaxTries = 2
    MaxChanges = 1
    Contents = {A, B}
    Pids = {a1, a2}
    Polling = TRUE
    MaxEdits = 2
    MaxStuck = 1
    Procs = {p1}
    Models = {m1}
    Denials = {d1, d2}
    Allows = {e1}
    BootJob = boot
    CASAttempts = 3
    MaxCrashes = 2
    MaxErrors = 1
CHECK_DEADLOCK FALSE
