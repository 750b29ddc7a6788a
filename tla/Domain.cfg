\* Eight-bit timestamps: 4 ms to the second, and a window from 40 to 53 or so.
SPECIFICATION Spec
CONSTANTS
    Raws <- MCRaws
    Asked <- MCAsked
    Width = 8
    MsPerSecond = 4
    MsThreshold = 31
    MaxFuture = 4
    MaxPast = 8
    Start = 47
    MaxTicks = 2
    MaxAccepted = 2
INVARIANTS StoredWithinWindow RetriesShareAKey OccurrencesKeptApart RangeAsAsked
