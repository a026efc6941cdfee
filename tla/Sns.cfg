SPECIFICATION Spec
CONSTANTS
    Arns <- Topics
    OwnArn <- OwnTopic
    Queues = {"ordersQueue"}
    QueueOf <- QueueOfName
    PublishCalls = {p1, p2}
    InitializeCalls = {i1}
    SubscribeCalls = {s1}
    MessageCount = 2
    TopicChoices <- OneElsewhere
    Configs <- OneOff
    MaxOther = 1
    MaxFailures = 1
SYMMETRY Symmetry
INVARIANTS
    TypeOK
    PublishedOnce
    PublishSucceeds
    SubscribedIsReady
    NoMessageRefused
    SubscriberReached
