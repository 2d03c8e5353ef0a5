SPECIFICATION FairSpec
CONSTANTS
    N <- MCN
    AISeat <- MCTwoAI
    MaxTurns = 5
    AbsentLimit = 2
    ForceDrawLimit = 2
    TimerId <- MCTimerId
    MaxRestarts = 1
    None = None
INVARIANTS
    TurnIsDriven
    NoTimerAfterTheGame
    LimitsExclude
PROPERTIES
    TurnEventuallyEnds
CHECK_DEADLOCK FALSE
