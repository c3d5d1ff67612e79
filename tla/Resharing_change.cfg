SPECIFICATION FairSpec
CONSTANTS
    Nodes = {"a", "b", "c"}
    Calls = {"change"}
    Req <- MCReq
    Threshold = 2
    Holders = {"a", "b"}
    Rounds = 1
    Joining = TRUE
    Fragile = {}
    Faults = {"save", "result", "timeout"}
INVARIANTS
    TypeOK
    OnlyCompletionReplaces
    SuccessIsJoint
PROPERTIES
    SuccessGetsStored
    SessionsSettle
CHECK_DEADLOCK FALSE
