SPECIFICATION Spec
CONSTANTS
    Keys = {a, b}
    MaxRemoved = 3
    MaxValues = 5
INVARIANTS TypeOK BagDifference KeepsLatest RecursiveFormAgrees
CHECK_DEADLOCK FALSE
