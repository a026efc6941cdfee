SPECIFICATION Spec
CONSTANTS
    MessageCount = 2
    MaxReceives = 2
    MaxNumberOfMessages = 2
    Subscriptions = {s1}
    ConsumeWorkers = 2
    Closers = {c1, c2}
    Poison <- NoPoison
    Configs <- DrainingOrFifo
SYMMETRY Symmetry
CONSTRAINT NoCloseOnFifo
INVARIANTS
    TypeOK
    CloseQuiesces
    NoAckWasted
    NoLoss
    FIFOOrder
PROPERTIES
    DrainShieldsHandler
