SPECIFICATION Spec
CONSTANTS
    OK = OK
    ERR = ERR
    MaxBytes = 3
CHECK_DEADLOCK FALSE
INVARIANTS
    TypeOK
    DeliveredInOrder
    EndsDrained
PROPERTIES
    SessionEnds
