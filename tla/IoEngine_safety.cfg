SPECIFICATION BoundedSpec
CONSTANTS
    x1 = x1
    x2 = x2
    Client = Client
    NoOne = NoOne
    Executors <- TwoExecutors
    Classes <- AllClasses
    MaxOvls = 6
    MaxFailures = 1
INVARIANTS
    TypeOK
    OnePlace
    CallbackSeesLiveBlock
    OneReceiver
    StopFindsStarted
    NotificationKeepsObject
    SessionOutlivesExecutors
    SocketClosedBeforeDelete
CHECK_DEADLOCK FALSE
