SPECIFICATION FairSpec
CONSTANTS
    MessageCount = 2
    MaxReceives = 2
    MaxNumberOfMessages = 2
    Subscriptions = {s1}
    ConsumeWorkers = 1
    Closers = {c1}
    Poison <- FirstIsPoison
    Configs <- NotDraining
PROPERTIES
    CloseTerminates
    EveryMessageEnds
