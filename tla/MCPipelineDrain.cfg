CONSTANTS
    f1 = f1
    f2 = f2
    f3 = f3
    other = other
    NumWorkers = 2
    NotTcpUdp = other
    Tuples <- MCTuples
    Hash <- MCHash
    Capture <- MCSmallCapture
    InputCap = 1
    WorkerCap = 1
    OutputCap = 1
SPECIFICATION Spec
INVARIANT Drained
