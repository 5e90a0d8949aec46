CONSTANTS
    Inst = {p1, p2, p3}
    Absent = Absent
    Empty = Empty
    StopPoints <- AfterSetup
    OpenMayFail = FALSE
    Sequential = TRUE
SPECIFICATION Spec
PROPERTY LockRefinement
CHECK_DEADLOCK FALSE
