CONSTANTS
    NumWorkers = 1
    Tuples <- MCTuples
    Hash <- MCHash
    Names <- MCNames
    NoName = NoName
    EmptyName = ""
    AppOf <- MCAppOf
    Payloads <- MCPayloads
    BlockedIPs = {4}
    BlockedPorts = {5000}
    BlockedApps = {"YOUTUBE"}
    BlockedNames = {"news"}
    CleanupInterval = 2
    Timeout = 2
    NoConn = NoConn
SPECIFICATION Spec
INVARIANT OneEntryPerConnection
