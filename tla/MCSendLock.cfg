SPECIFICATION FairLockSpec
CONSTANTS
    Nodes = {"a", "b"}
    Runs <- MCRuns
    NodeOf <- MCNodeOf
    NumberOf <- MCNumberOf
    GracePeriod = 3
INVARIANTS
    LockTypeOK
    GrantsSpaced
    LastSendIsNewest
    RefusedForAnother
PROPERTIES
    ImplementsGrace
    SomeoneSends
CHECK_DEADLOCK FALSE
