CONSTANTS
    a = a
    b = b
    c = c
    d = d
    Nodes = {a, b}
    Requests <- Keygen2
    Rounds = 2
    Sends <- BothThenCast
    MsgCap = 3
    Faults = {}
SPECIFICATION FairSpec
PROPERTIES
    AllPartiesComplete
CHECK_DEADLOCK FALSE
