CONSTANTS
    a = a
    b = b
    c = c
    d = d
    Nodes = {a, b}
    Requests <- Sign2
    Rounds = 1
    Sends <- OneCast
    MsgCap = 2
    Faults = {"crash", "dup", "timeout", "save"}
SPECIFICATION Spec
INVARIANTS
    BarrierInv
    ContributionInv
    CallerSuccessIsJoint
    RecordFollowsSession
PROPERTIES
    SettledStaysSettled
    ImplementsBarrier
CHECK_DEADLOCK FALSE
