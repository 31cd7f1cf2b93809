CONSTANTS
    Players = {p1}
    NoPlayer = NoPlayer
    PlayModes <- MCPlayModes
    PenaltyModes <- MCPenaltyModes
    Versions <- MCVersions
    SerializerVersions <- MCSerializerVersions
    TackleCycles = 2
    CatchBanCycle = 2
    GoalieMaxMoves = 2

SPECIFICATION Spec

INVARIANT OneCatchDrawPerCycle
