SPECIFICATION OracleSpec
CONSTANTS
    Users = {"u", "a", "b"}
    None = None
    ConnectionIds = {7}
    Texts = {"reply"}
    LongTexts = {}
    CommandTexts = {"ping"}
    MaxCommand = 1
    MaxResponses = 2
    UnsignedInterval = 3
    MaxBlock = 5
    MaxSubmissions = 20
    Nodes = {"a", "b"}
    Runs <- MCRunsTwo
    NodeOf <- MCNodeOfTwo
    NumberOf <- MCNumberOfTwo
    Keys <- MCKeysTwo
    GracePeriod = 3
    BlockHashCount = 2400
    BlockNumberBits = 16
INVARIANTS
    OracleTypeOK
    CooldownObserved
    UnsignedDeduplicated
CHECK_DEADLOCK FALSE
