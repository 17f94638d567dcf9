SPECIFICATION ServiceSpec
CONSTANTS
    KeyTypes <- MCKeyTypes
    MaxHeight = 2
    MaxStarts = 2
INVARIANTS
    ServiceTypeOK
    KeyBeforeWorkers
    NetworkLast
PROPERTIES
    EssentialTakesDown
CHECK_DEADLOCK FALSE
