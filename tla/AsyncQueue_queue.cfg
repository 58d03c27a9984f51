SPECIFICATION FairSpec
CONSTANTS
    p1 = p1
    p2 = p2
    c1 = c1
    c2 = c2
    d1 = d1
    NoOne = NoOne
    Producers <- MCProducers
    Consumers <- MCConsumers
    Drainers <- MCDrainers
    MaxPush = 2
INVARIANTS
    TypeOK
    IInv
    NoLostWakeup
PROPERTIES
    EventQueueSpec
    SpuriousWakeupEnds
CHECK_DEADLOCK FALSE
