SPECIFICATION Spec
CONSTANTS
    PublishCalls = {p1}
    InitializeCalls = {i1}
    SubscribeCalls = {s1}
    MessageCount = 2
    Configs <- Pairs
    DeadLetters = TRUE
    MaxOther = 2
    MaxFailures = 1
INVARIANTS
    TypeOK
    PublishedInOrder
    FailedPublishHeals
    RedriveHasTarget
    CheckedQueueExisted
    NotFoundIsTrue
    NilUrlNeedsDeletion
PROPERTIES
    OnlyAllowedCreate
