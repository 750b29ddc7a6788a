\* Three requests, a signal at any time, a deadline that may cut shutdown short.
SPECIFICATION AppFairSpec
CONSTANTS
    e1 = e1  e2 = e2  e3 = e3  w1 = w1  w2 = w2  c1 = c1
    Events <- MCEvents3
    Workers <- MCWorkers
    Closers <- MCCloser
    Capacity = 2
    BatchSize = 2
    TriggerCap = 1
    FlushRetries = 1
    FlushInterval = 1
    DbFaults = TRUE
INVARIANTS CleanShutdownLeavesNothing RepoOutlivesWorkers
PROPERTIES SignalTerminates
