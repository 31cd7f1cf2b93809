CONSTANTS
    Types = {0, 1}
    BadType = BadType
    KickRand <- MCKickRand
    ServerKickRand = 1
    PlayerRand = 1
    TeamActuatorNoise = TRUE
    KickRandFactor = 2
    PrandFactor = 3
    Unset = Unset
    MaxInits = 2

SPECIFICATION Spec

INVARIANT KickRandScaledOnce
