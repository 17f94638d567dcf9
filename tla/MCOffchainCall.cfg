SPECIFICATION FairCallSpec
CONSTANTS
    Nodes = {"a", "b", "c"}
    EdgeNodes = {"a", "b"}
    FirstBlock = 4
    MaxBlock = 8
    Runs <- MCRuns
    NodeOf <- MCNodeOf
    NumberOf <- MCNumberOf
    GracePeriod = 3
INVARIANTS
    CallTypeOK
    GapOnlyIfReplaced
    SecondReportBehindResponse
PROPERTIES
    PingReportedOrOvertaken
CHECK_DEADLOCK FALSE
