CONSTANTS
    Inst = {p1, p2, p3}
    Absent = Absent
    Empty = Empty
    StopPoints <- AnyPoint
    OpenMayFail = FALSE
    Sequential = TRUE
SPECIFICATION Spec
INVARIANT MutualExclusion
CHECK_DEADLOCK FALSE
