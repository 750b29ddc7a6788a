\* Every queue has one place and there is one worker: all of them fill up.
SPECIFICATION Spec
CONSTANTS
    e1 = e1  e2 = e2  e3 = e3  e4 = e4  e5 = e5
    w1 = w1  w2 = w2  c1 = c1  c2 = c2
    Events <- MCEvents5
    Workers <- MCWorker
    Closers <- MCCloser
    Capacity = 1
    BatchSize = 1
    TriggerCap = 1
    FlushRetries = 0
    FlushInterval = 1
    DbFaults = TRUE
SYMMETRY Symmetry5
INVARIANTS BoundedMemory
