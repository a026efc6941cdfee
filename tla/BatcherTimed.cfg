SPECIFICATION TimedSpec
CONSTANTS
    Handles = {h1, h2, h3, h4}
    Workers = {w1, w2}
    Flusher = flusher
    Closers = {c1, c2}
    ConfiguredMaxSize = 2
    SqsMaxBatchSize = 3
    Linger = 3
    FlushTimeout = 2
SYMMETRY Symmetry
INVARIANTS
    WaitBound
    CloseBound
