CONSTANTS
    a = a
    b = b
    c = c
    d = d
    Nodes = {a, b, c}
    Requests <- Keygen3
    Rounds = 2
    Sends <- TwoKinds
    MsgCap = 4
    Faults = {}
SPECIFICATION FairSpec
INVARIANTS
    TypeOK
    StartOnlyAfterAllPrepared
    RoundMessageFindsSession
    CompletionNeedsEveryone
PROPERTIES
    StartedCompletes
CHECK_DEADLOCK FALSE
