SPECIFICATION Spec
CONSTANTS
    MAX_RECONNECT_ATTEMPTS = 2
    MaxTurns = 3
    MaxLosses = 1
    MaxLimited = 1
    MaxInFlight = 2
INVARIANT ViewIsCurrent
PROPERTY PlayerIsNotStuck
CHECK_DEADLOCK FALSE
