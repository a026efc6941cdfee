SPECIFICATION Spec
CONSTANTS
    PublishCalls = {}
    InitializeCalls = {}
    SubscribeCalls = {s1}
    MessageCount = 1
    Configs <- AllUnknowing
    DeadLetters = FALSE
    MaxOther = 0
    MaxFailures = 0
INVARIANTS
    ReadyQueueExisted
