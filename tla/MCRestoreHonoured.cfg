SPECIFICATION Spec
PROPERTY RestoreHonoured
CONSTANTS
    Absent = Absent
    MaxWrites = 1
    MaxVerbs = 3
    MaxFaults = 0
CHECK_DEADLOCK FALSE
