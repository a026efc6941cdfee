SPECIFICATION FairSpec
CONSTANTS
    MessageCount = 1
    MaxReceives = 1
    MaxNumberOfMessages = 1
    Subscriptions = {s1, s2}
    ConsumeWorkers = 1
    Closers = {c1}
    Poison <- NoPoison
    Configs <- DrainingBatched
INVARIANTS
    CloseQuiesces
PROPERTIES
    CloseTerminates
