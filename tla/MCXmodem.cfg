CONSTANTS
    M = 8
    SOH = 1
    EOT = 4
    ACK = 6
    NAK = 5
    CAN = 7
    Payload <- MCPayload
    RETRY_MAX = 2
    Losses = 1
    Stalls = 2
SPECIFICATION Spec
INVARIANTS TypeOK StoredInOrder AckedStored
PROPERTIES LoadEnds Delivered
CHECK_DEADLOCK FALSE
