SPECIFICATION PingSpec
CONSTANTS
    Accounts = {1, 2}
    Addresses = {addr}
    None = None
    Ports = {80}
    TaskData = {}
    FirstByte <- MCFirstByte
    IdSpace = 2
    MaxBlock = 2
    Nodes = {n1, n2}
    SigningNodes = {n1, n2}
    IndexingNodes = {n1, n2}
    OcwAccount = 2
    Verifiers = {2}
    MaxNonce = 2
    MaxRestarts = 1
INVARIANTS
    PingTypeOK
    UpOnlyIfVouched
    NoNonceGap
    OneReportPerBlock
    ReportsOwnBlock
CHECK_DEADLOCK FALSE
