CONSTANTS
    Topics <- BothTopics
    Messages <- FourMessages
    IncomingCap = 2
    MsgChanCap = 1
SPECIFICATION FairSpec
INVARIANTS
    TypeOK
PROPERTIES
    LostOnlyUnderBacklog
    ImplementsDelivery
    AcceptedGetsHandled
    StopEndsGoroutines
CHECK_DEADLOCK FALSE
