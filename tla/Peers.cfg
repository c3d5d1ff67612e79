CONSTANTS
    p = p
    q = q
    p1 = p1
    p2 = p2
    Remote = {p, q}
    Conns = {p1, p2}
    PeerOf <- Ends
    Early = {p1}
    Bootstrap = {p}
    Finders = {"dht", "mdns"}
    PeerChanCap = 1
    EventChanCap = 1
SPECIFICATION FairSpec
INVARIANTS
    TypeOK
    PeerTableInv
PROPERTIES
    CallbacksReturn
    StopEndsGoroutines
CHECK_DEADLOCK FALSE
