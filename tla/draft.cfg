SPECIFICATION Spec
CONSTANT Starts <- Turns
INVARIANTS
    OnlyMarkedGroupsChange
    SentIsExact
PROPERTY
    MovesTilesOnly
