SPECIFICATION FairSpec
CONSTANTS
    Nodes = {"a", "b"}
    Calls = {"first"}
    Req <- MCReq
    Threshold = 2
    Holders = {"a", "b"}
    Rounds = 1
    Joining = FALSE
    Fragile = {}
    Faults = {}
PROPERTIES
    ReshareCompletes
CHECK_DEADLOCK FALSE
