SPECIFICATION FairSpec
CONSTANTS
    Handles = {h1, h2, h3}
    Workers = {w1, w2}
    Flusher = flusher
    Closers = {c1, c2}
    ConfiguredMaxSize = 5
    SqsMaxBatchSize = 2
INVARIANTS
    TypeOK
    ExactlyOnce
    NoLostWakeup
    CloseFlushesPending
PROPERTIES
    ImplementsSink
    SizeTriggersFlush
    EveryHandleSettles
    CloseTerminates
