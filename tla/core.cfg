SPECIFICATION Spec
CONSTANTS
    N <- MCN
    AISeat <- MCAISeat
    Tile <- MCTile
    Joker <- MCJoker
    Group <- MCGroup
    Meld <- MCMeld
    MeldScore <- MCMeldScore
    InitialMeldMin = 30
    TileScore <- MCTileScore
    PenaltyCount = 3
    MaxTurns = 5
    Deals <- MCDeals
    AIAnswers <- MCAIAnswers
    FlakySeat = {1}
    TurnCap = 5
    NoSnapshot = NoSnapshot
    NoRequest = NoRequest
INVARIANTS
    TilesAreConserved
    TurnHolderIsActive
    SnapshotIsTurnStart
    TurnLimitHolds
PROPERTIES
    PlayedTilesStay
    PenaltyRollsBack
    EndingsAreFair
CHECK_DEADLOCK FALSE
