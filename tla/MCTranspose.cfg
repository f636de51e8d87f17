CONSTANTS
    Headers <- MCHeaders
    MaxTransition = 1
    MinCountForState = 2
    MaxRepeat = 3
    MaxTags = 8
    MaxStates = 3
    MaxBytes = 2
SPECIFICATION Spec
INVARIANTS
    LoopCheckExact
    BytesAtExplicitNodes
    NoSilentLap
    ReplaysTags
PROPERTY WalkTerminates
CHECK_DEADLOCK FALSE
