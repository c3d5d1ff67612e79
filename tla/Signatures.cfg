CONSTANTS
    Nibble = 2
    Width = 3
    RecoveryIds = {0, 1}
SPECIFICATION Spec
INVARIANTS
    TypeOK
    AnswerIsSignature
    TransactionNeverMisread
CHECK_DEADLOCK FALSE
