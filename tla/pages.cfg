SPECIFICATION MCSpec
CONSTANTS
    Fetches = {f1, f2}
    MaxRequests = 1
    Window = 2
    AiCooldown = 2
    Types = {"PLACE_TILES", "CONFIRM_TURN"}
    TypeMax = 1
    GlobalMax = 2
    DecayThreshold = 2
    ThrottleTicks = 1
    MaxInputs = 4
    Tiers = {"GOLD", "SILVER"}
    StartLadder <- MCLadder
    Limit = 1
    MaxPromotions = 1
    MaxLoads = 4
    Stages <- FirstStages
    MaxDrops = 4
INVARIANTS
    WarnedBeforeClosed
    ChosenPageIsShown
PROPERTIES
    LimitsAllLetGo
    LoadsEnd
    PracticeIsKept
CHECK_DEADLOCK FALSE
