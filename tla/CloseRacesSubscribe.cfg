SPECIFICATION Spec
CONSTANTS
    MessageCount = 1
    MaxReceives = 1
    MaxNumberOfMessages = 2
    Subscriptions = {s1}
    ConsumeWorkers = 1
    Closers = {c1}
    Poison <- NoPoison
    Configs <- DrainingOnly
INVARIANTS
    CloseStopsEverything
