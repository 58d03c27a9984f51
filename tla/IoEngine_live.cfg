SPECIFICATION FairSpec
CONSTANTS
    x1 = x1
    x2 = x2
    Client = Client
    NoOne = NoOne
    Executors <- OneExecutor
    Classes <- AllClasses
    MaxOvls = 5
    MaxFailures = 1
PROPERTIES
    HandledUnlessLost
    ClientWaitEnds
    ShutdownEnds
CHECK_DEADLOCK FALSE
