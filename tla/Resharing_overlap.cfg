SPECIFICATION Spec
CONSTANTS
    Nodes = {"a", "b"}
    Calls = {"first", "second"}
    Req <- MCReq
    Threshold = 2
    Holders = {"a", "b"}
    Rounds = 1
    Joining = TRUE
    Fragile = {"a"}
    Faults = {}
INVARIANTS
    WalletMatchesShare
    WritesInv
CHECK_DEADLOCK FALSE
