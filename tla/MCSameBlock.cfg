\* Two accounts fill the id space of 2 exactly, so NextClusterId wraps.
SPECIFICATION Spec
CONSTANTS
    Accounts = {1, 2}
    Addresses = {addr}
    None = None
    Ports = {0, 80}
    TaskData = {"even", "odd"}
    FirstByte <- MCFirstByte
    IdSpace = 2
    MaxBlock = 2
INVARIANTS
    EveryRegistrationIndexed
CHECK_DEADLOCK FALSE
