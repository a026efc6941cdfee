SPECIFICATION TimedSpec
CONSTANTS
    Handles = {h1, h2, h3}
    Workers = {w1}
    Flusher = flusher
    Closers = {}
    ConfiguredMaxSize = 2
    SqsMaxBatchSize = 3
    Linger = 1
    FlushTimeout = 3
INVARIANTS
    LingerIsLongest
