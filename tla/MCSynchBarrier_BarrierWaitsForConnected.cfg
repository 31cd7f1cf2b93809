CONSTANTS
    Players = {p1, p2}
    CoachConnected = TRUE
    MaxReconnects = 3

SPECIFICATION Spec

PROPERTY BarrierWaitsForConnected
