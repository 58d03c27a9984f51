SPECIFICATION Spec
CONSTANTS
    MaxTracks = 1
    MaxExtra = 0
INVARIANT
    WaitsForRest
CHECK_DEADLOCK FALSE
