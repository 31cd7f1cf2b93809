CONSTANTS
    Lengths <- MCLengths
    Default <- MCDefault
    HalfTimes = {0, 1, 300}
    SimStep = 150
    SlowDown = 2

SPECIFICATION Spec

INVARIANT DerivedLengthsConsistent
INVARIANT HalfTimesMatchSeconds
