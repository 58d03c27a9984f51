SPECIFICATION FairSpec
CONSTANTS
    MinPort = 4
    MaxPort = 10
INVARIANTS
    TypeOK
    PairsAligned
    NoSharedPort
    MarkedIsHeld
    CountsExact
PROPERTY
    OrdinaryCallReturns

