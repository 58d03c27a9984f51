SPECIFICATION FairSpec
CONSTANTS
    MaxTracks = 2
    MaxExtra = 1
INVARIANTS
    TypeOK
    RequestsInOrder
    OnlyAnswered
    DescribeFindsNoMedia
PROPERTY
    AnswerLeadsOn
CHECK_DEADLOCK FALSE
