\* A database that never fails by itself, and a shutdown with time enough.
SPECIFICATION AppSpec
CONSTANTS
    e1 = e1  e2 = e2  e3 = e3  w1 = w1  w2 = w2  c1 = c1
    Events <- MCEvents2
    Workers <- MCWorkers
    Closers <- MCCloser
    Capacity = 2
    BatchSize = 1
    TriggerCap = 1
    FlushRetries = 1
    FlushInterval = 1
    DbFaults = FALSE
INVARIANTS ShutdownLosesNoData
