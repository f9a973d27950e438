SPECIFICATION Spec
INVARIANTS
    SkewVisible
    NeverSilentlyStale
PROPERTY
    RestoreHolds
CONSTANTS
    Absent = Absent
    MaxWrites = 1
    MaxVerbs = 2
    MaxFaults = 1
CHECK_DEADLOCK FALSE
