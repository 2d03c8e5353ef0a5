SPECIFICATION Spec
CONSTANTS
    Slots = {s1, s2}
    Games = {g1}
    DailyLimit = 1
    HourlyLimit = 1
    MaxCost = 1
    MaxRetries = 1
    OllamaRetries = 2
    RateLimit = 1
    LastHour = 1
    HoursPerDay = 1
    MaxBlind = 1
INVARIANTS
    OverrunIsWhatWasUnderWay
    PlacementIsReadable
PROPERTY
    EveryRequestEnds
