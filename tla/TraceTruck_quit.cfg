SPECIFICATION FairSpec
CONSTANTS
    a1 = a1
    a2 = a2
    Truck = Truck
    Stopper = Stopper
    NoOne = NoOne
    Tracers <- MCTracers
    MaxLines = 2
    Builds <- OnlyWindows
PROPERTY
    StopReturns
CHECK_DEADLOCK FALSE
