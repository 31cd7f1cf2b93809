CONSTANTS
    AngleSteps = 8
    TurnSteps <- MCTurnSteps
    MinNeckMoment <- MCMinNeckMoment
    MaxNeckMoment = 4
    MinNeckAngle <- MCMinNeckAngle
    MaxNeckAngle = 2
    NeckMoments <- MCNeckMoments
    SideDirection = 4
    NoAngle = NoAngle

SPECIFICATION Spec

PROPERTY PlacedAngleKept
