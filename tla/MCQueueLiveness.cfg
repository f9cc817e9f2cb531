CONSTANTS
    p = p
    c1 = c1
    c2 = c2
    m = m
    Nobody = Nobody
    NoItem = NoItem
    Items = {i1}
    Capacity = 1
    Threads <- MCThreads
    Calls <- MCCalls
SPECIFICATION FairSpec
PROPERTIES TimedPopReturns ReturnAfterShutdown
