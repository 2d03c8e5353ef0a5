SPECIFICATION SessionSpec
CONSTANTS
    Conn = {c1, c2, c3, c4}
    None = None
SYMMETRY Symmetry
INVARIANTS
    OpenIsRegistered
    NobodyIsForgotten
    AbsentIsNotActive
    RunningTimerIsInTheMap
CHECK_DEADLOCK FALSE
