CONSTANTS
    Bits = 2
    MaxLen = 3
    RecordLengths = {0, 1, 3, 4, 5}
    MaxRecords = 3
    Alphabet = {0, 1, 2, 3, 4}
    MaxPayload = 6
    MaxValues = 4
    Claims = {0, 1, 2}
SPECIFICATION Spec
INVARIANTS
    RoundTrip
    AcceptsFormat
    OutputBounded
CHECK_DEADLOCK FALSE
