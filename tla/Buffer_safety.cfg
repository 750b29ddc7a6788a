\* Four events, batches of two, two workers, two racing calls of Close.
SPECIFICATION Spec
CONSTANTS
    e1 = e1  e2 = e2  e3 = e3  e4 = e4  e5 = e5
    w1 = w1  w2 = w2  c1 = c1  c2 = c2
    Events <- MCEvents4
    Workers <- MCWorkers
    Closers <- MCClosers
    Capacity = 2
    BatchSize = 2
    TriggerCap = 1
    FlushRetries = 0
    FlushInterval = 1
    DbFaults = TRUE
SYMMETRY Symmetry4
INVARIANTS
    TypeOK NothingVanishes InOrder OneHolder NoPanic
    CloseMeansSettled Lifecycle CloseProtocol
