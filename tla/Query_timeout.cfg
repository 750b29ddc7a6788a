\* One request with groups, whose deadline may pass between two rows.
SPECIFICATION Spec
CONSTANTS
    e1 = e1  e2 = e2  e3 = e3  u1 = u1  u2 = u2  g1 = g1  g2 = g2
    q1 = q1  q2 = q2  q3 = q3
    Events <- MCEvents
    Time <- MCTime
    User <- MCUser
    Group <- MCGroup
    Params <- MCParams
    Queries <- MCQuery
    DbFaults = FALSE
    MaxCopies <- MCOne
INVARIANTS TimeoutIs504
