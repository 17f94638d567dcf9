SPECIFICATION OracleSpec
CONSTANTS
    Users = {"u", "a", "b"}
    None = None
    ConnectionIds = {7}
    Texts = {"reply"}
    LongTexts = {}
    CommandTexts = {"ping"}
    MaxCommand = 1
    MaxResponses = 2
    UnsignedInterval = 3
    MaxBlock = 4
    MaxSubmissions = 20
    Nodes = {"a", "b"}
    Runs <- MCRuns
    NodeOf <- MCNodeOf
    NumberOf <- MCNumberOf
    Keys <- MCKeys
    GracePeriod = 3
    BlockHashCount = 2400
    BlockNumberBits = 16
INVARIANTS
    UnsignedSpaced
CHECK_DEADLOCK FALSE
