SPECIFICATION ForkSpec
CONSTANTS
    BlockHashCount = 2400
    BlockNumberBits = 16
    Nodes = {n1, n2}
    Accounts = {alice, bob}
    MaxNumber = 3
    MaxBlocks = 5
SYMMETRY Symmetry
INVARIANTS
    ForkTypeOK
    OwnChainReports
    OnlyFromNextDoor
    OneReportPerChain
CHECK_DEADLOCK FALSE
