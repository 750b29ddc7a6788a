\* Two events, flushes that fail only once the signal has cancelled them: the
\* gauge is read, then set.
SPECIFICATION SpecDepth
CONSTANTS
    e1 = e1  e2 = e2  w1 = w1  c1 = c1
    Events <- MCEvents
    Workers <- MCWorkers
    Closers <- MCClosers
    Capacity = 2
    BatchSize = 1
    TriggerCap = 1
    FlushRetries = 1
    FlushInterval = 1
    DbFaults = FALSE
INVARIANTS DepthIsCurrent
