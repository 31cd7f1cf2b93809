CONSTANTS
    Scale2 = 65536
    ConfigSets <- MCConfigSets

SPECIFICATION Spec

INVARIANT ScaledRoundsToNearest
