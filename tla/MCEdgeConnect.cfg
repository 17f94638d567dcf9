SPECIFICATION Spec
CONSTANTS
    Users = {u1, u2}
    None = None
    ConnectionIds = {7, 8}
    Texts <- MCTexts
    LongTexts <- MCLongTexts
    CommandTexts = {"ping", "reboot"}
    MaxCommand = 2
    MaxResponses = 2
    UnsignedInterval = 3
    MaxBlock = 3
    MaxSubmissions = 4
INVARIANTS
    TypeOK
    FirstFittingKept
    EventMatchesList
PROPERTIES
    CooldownMonotone
CHECK_DEADLOCK FALSE
