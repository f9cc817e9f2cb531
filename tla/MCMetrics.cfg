CONSTANTS
    s1 = s1
    s2 = s2
    Workers = {0, 1}
    Packets = 1
    Kinds <- MCKinds
    CLEANUP_INTERVAL = 1
    MAX_WORKERS = 1
    QueueSizes = {3}
    Clients = {s1, s2}
    Impatient = {s2}
    NoClient = NoClient
    NoPacket = NoPacket
SPECIFICATION FairSpec
INVARIANTS TypeOK CountersInStep PageConsistent
PROPERTY EveryScrapeAnswered
