\* Three requests at once, one place in the channel, one request per tick.
SPECIFICATION Spec
CONSTANTS
    b1 = b1  b2 = b2  s1 = s1
    v1 = v1  v2 = v2  v3 = v3  v4 = v4  x1 = x1  x2 = x2
    Requests <- MCRequests
    Items <- MCItems
    Payload <- MCPayload
    Route <- MCRoute
    Shape <- MCShape
    Verdict <- MCVerdict
    Limit <- MCLimit
    Capacity = 1
    MaxTries = 2
INVARIANTS TypeOK NoDuplicateIfHeard NoValidItemAbandoned
