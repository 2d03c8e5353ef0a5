SPECIFICATION MCSpec
CONSTANTS
    Scenarios = {"S1", "S2", "S3", "S4", "S5"}
    MAX_TURNS = 3
    CHECKPOINT_INTERVAL = 2
    LONG_GAME = 2
    MaxGameTurns = 3
    Tabs = {t1, t2}
    ScenarioIds = {s1}
    MAX_HISTORY = 2
    MaxRuns = 3
INVARIANTS
    PlaysInItsTurn
    ReportsAreKept
PROPERTY
    ScriptsReport
CHECK_DEADLOCK FALSE
