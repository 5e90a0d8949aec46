CONSTANTS
    Inst = {p1, p2, p3}
    Absent = Absent
    Empty = Empty
    StopPoints <- AfterSetup
    OpenMayFail = TRUE
    Sequential = TRUE
SPECIFICATION Spec
PROPERTY NoFalseRefusal Progress
CHECK_DEADLOCK FALSE
