SPECIFICATION FairSpec
CONSTANTS
    MinPort = 4
    MaxPort = 8
PROPERTY
    CallReturns

