CONSTANTS
    AngleSteps = 8
    TurnSteps <- MCTurnSteps
    MinNeckMoment <- MCMinNeckMoment
    MaxNeckMoment = 3
    MinNeckAngle <- MCMinNeckAngle
    MaxNeckAngle = 2
    NeckMoments <- MCNeckMoments
    SideDirection = 4
    NoAngle = NoAngle

SPECIFICATION Spec

INVARIANT TypeOK
PROPERTY NeckStepBounded
