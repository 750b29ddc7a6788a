\* No symmetry: liveness and the refinement of Delivery.
SPECIFICATION FairSpec
CONSTANTS
    e1 = e1  e2 = e2  e3 = e3  e4 = e4  e5 = e5
    w1 = w1  w2 = w2  c1 = c1  c2 = c2
    Events <- MCEvents3
    Workers <- MCWorker
    Closers <- MCCloser
    Capacity = 1
    BatchSize = 2
    TriggerCap = 1
    FlushRetries = 2
    FlushInterval = 1
    DbFaults = TRUE
INVARIANTS BoundedDuplicates
PROPERTIES DrainTerminates ImplementsDelivery
