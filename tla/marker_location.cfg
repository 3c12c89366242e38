SPECIFICATION Spec
CONSTANTS
    Words <- ChainOfLines
    MaxLength = 5
INVARIANTS
    TypeOK
    EndsFollowTheirLines
    TouchedIsFlagged
    StaysInOrder
CHECK_DEADLOCK FALSE
