SPECIFICATION FairPingSpec
CONSTANTS
    Accounts = {1, 2}
    Addresses = {addr}
    None = None
    Ports = {80}
    TaskData = {}
    FirstByte <- MCFirstByte
    IdSpace = 2
    MaxBlock = 2
    Nodes = {n1}
    SigningNodes = {n1}
    IndexingNodes = {n1}
    OcwAccount = 9
    Verifiers = {}
    MaxNonce = 0
    MaxRestarts = 0
PROPERTIES
    EveryPingReported
CHECK_DEADLOCK FALSE
