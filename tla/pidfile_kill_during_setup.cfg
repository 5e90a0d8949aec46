CONSTANTS
    Inst = {p1, p2}
    Absent = Absent
    Empty = Empty
    StopPoints <- AnyPoint
    OpenMayFail = TRUE
    Sequential = TRUE
SPECIFICATION Spec
PROPERTY NoFalseRefusal
CHECK_DEADLOCK FALSE
