SPECIFICATION FairSpec
CONSTANTS
    MessageCount = 1
    MaxReceives = 1
    MaxNumberOfMessages = 2
    Subscriptions = {s1}
    ConsumeWorkers = 1
    Closers = {c1}
    Poison <- NoPoison
    Configs <- NotDraining
PROPERTIES
    DeleteNeverStalls
