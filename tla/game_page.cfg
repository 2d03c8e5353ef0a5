SPECIFICATION Spec
CONSTANTS
    Humans = {0, 1}
    LLMs = {2}
    Viewer = 0
    TurnTicks = 2
    GraceTicks = 2
    MaxTime = 3
    MaxTurns = 2
    MaxAway = 2
    MaxInFlight = 2
INVARIANT PageIsTrue
PROPERTY ResultArrives
CHECK_DEADLOCK FALSE
