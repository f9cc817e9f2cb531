CONSTANTS
    f1 = f1
    f2 = f2
    f3 = f3
    other = other
    NumWorkers = 2
    NotTcpUdp = other
    Tuples <- MCTuples
    Hash <- MCHash
    Capture <- MCCapture
    InputCap = 1
    WorkerCap = 1
    OutputCap = 1
SPECIFICATION FairSpec
INVARIANTS TypeOK NoRefusedPush FlowOrder OnlyQueuedIsLost ReportConsistent InFlightBound NoCircularWait
PROPERTIES ImplementsFlowFilter Termination
