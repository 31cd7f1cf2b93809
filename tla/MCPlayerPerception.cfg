CONSTANTS
    l1 = l1
    l2 = l2
    r1 = r1
    NoPlayer = NoPlayer
    DefAngle = 6
    Players <- MCPlayers
    side <- MCSide
    unum <- MCUnum
    TeamNames <- MCTeamNames

SPECIFICATION Spec

INVARIANT TypeOK
INVARIANT ViewConsistent
INVARIANT EarSideAsAttention
