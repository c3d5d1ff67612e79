CONSTANTS
    a = a
    b = b
    c = c
    d = d
    Nodes = {a, b}
    Requests <- Keygen2
    Rounds = 3
    Sends <- KeygenSends
    MsgCap = 4
    Faults = {"loss", "timeout", "cancel", "send", "save", "result", "tss"}
SPECIFICATION FairSpec
INVARIANTS
    MsgChanNeverFull
    OutChanNeverFull
PROPERTIES
    CallsReturn
    PreparedSessionsSettle
CHECK_DEADLOCK FALSE
