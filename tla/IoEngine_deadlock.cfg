SPECIFICATION FairSpec
CONSTANTS
    x1 = x1
    x2 = x2
    Client = Client
    NoOne = NoOne
    Executors <- OneExecutor
    Classes <- OnlyConnection
    MaxOvls = 3
    MaxFailures = 1
PROPERTY
    CompletionHandled
CHECK_DEADLOCK FALSE
