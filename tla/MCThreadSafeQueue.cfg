CONSTANTS
    p1 = p1
    p2 = p2
    c1 = c1
    c2 = c2
    m = m
    Nobody = Nobody
    NoItem = NoItem
    Items = {i1, i2}
    Capacity = 2
    Threads <- MCThreads
    Calls <- MCCalls
SPECIFICATION Spec
INVARIANTS TypeOK Bounded NoStrandedItem NoStrandedRoom NobodyWaitsAfterShutdown
PROPERTY ImplementsBoundedQueue
