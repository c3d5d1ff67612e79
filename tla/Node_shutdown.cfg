CONSTANTS
    p = p
    p1 = p1
    Topics = {"broadcast"}
    Messages <- OneMessage
    IncomingCap = 1
    MsgChanCap = 1
    Remote = {p}
    Conns = {p1}
    PeerOf <- Ends
    Early = {}
    Bootstrap = {}
    Finders = {"dht"}
    PeerChanCap = 1
    EventChanCap = 1
SPECIFICATION Spec
INVARIANTS
    StopDoesNotPanic
CHECK_DEADLOCK FALSE
