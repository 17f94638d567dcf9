SPECIFICATION ForkSpec
CONSTANTS
    BlockHashCount = 2400
    BlockNumberBits = 16
    Nodes = {n1, n2}
    Accounts = {alice, bob}
    MaxNumber = 3
    MaxBlocks = 4
SYMMETRY Symmetry
INVARIANTS
    UpFromOwnConnection
CHECK_DEADLOCK FALSE
