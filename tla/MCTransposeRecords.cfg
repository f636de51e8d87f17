CONSTANTS
    MaxDepth = 2
    MaxInline = 1
    MaxUnits = 4
    MaxPairUnits = 2
    MaxTreeUnits = 3
    Inputs <- MCInputs
SPECIFICATION Spec
INVARIANTS
    RoundTrip
    ProjectionExact
    NeverStarved
CHECK_DEADLOCK FALSE
