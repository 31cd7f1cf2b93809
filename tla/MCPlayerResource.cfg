CONSTANTS
    StaminaMax = 8
    RecoverInit = 4
    RecoveryOne = 4
    RecoverDecThr = 2
    RecoverDec = 2
    RecoverMin = 1
    EffortDecThr = 3
    EffortIncThr = 6
    EffortDec = 2
    EffortInc = 3
    HearMax = 3
    HearInc = 1
    HearDecay = 2
    Types = {0, 1}
    DefaultType = 0
    BadType = BadType
    EffortMin <- MCEffortMin
    EffortMax <- MCEffortMax
    ExtraStamina <- MCExtraStamina
    StaminaIncMax <- MCStaminaIncMax
    MinPower <- MCMinPower
    MaxPower = 6
    DashPowers <- MCDashPowers

SPECIFICATION Spec

INVARIANT TypeOK
INVARIANT StaminaBound
INVARIANT EffortWithinType
INVARIANT RecoveryFloor
INVARIANT HearCapacityBounds
