SPECIFICATION PartsSpec
CONSTANTS
    Parts <- AllParts
    a1 = a1
    a2 = a2
    Truck = Truck
    Stopper = Stopper
    NoOne = NoOne
    Tracers <- MCTracers
    MaxLines = 2
    Builds <- AllBuilds
    NULL = NULL
    Nodes = {1, 2, 3, 4}
    Data = {"x", "y"}
    t1 = t1
    t2 = t2
    b1 = b1
    b2 = b2
    b3 = b3
    AllocThreads <- MCThreads
    Blocks <- MCBlocks
    Keys = {1, 2}
    KeyOf <- MCKeyOf
    TheList = 0
    Alignment = 2
    UIntRange = 8
    Sizes = {0, 3}
    MaxCalls = 4
    Msgs = {"request", "response"}
    DEF_MAX_KEY_VALUE = 2
    TOP_MAX_KEY_VALUE = 3
    HeaderValues <- MCHeaderValues
    LongValues = {"s:t"}
    UptoColon <- MCUptoColon
    MaxHeaders = 4
    MaxSdpLines = 4
    RtpPackets <- MCPackets
    H264_MAX_FRAME_SIZE = 14
    SizeRange = 256
    MaxDatagrams = 5
    MaxMediaTracks = 2
    UdpExecutors = {1, 2}
INVARIANTS
    TypeOK
    PrintedInOrder
    ExitPrintsAll
    ListIsSequence
    TrackedExactly
    OccupiedExact
    LeaksReported
    HeadersKept
    ValuesOwned
    LinesBelong
    DeleteFreesAll
    KeepsReceiving
    MediaComplete
CHECK_DEADLOCK FALSE
