CONSTANTS
    M = 8
    SOH = 1
    EOT = 4
    ACK = 6
    NAK = 5
    CAN = 7
    Payload <- MCBinary
    RETRY_MAX = 2
    Losses = 0
    Stalls = 1
SPECIFICATION Spec
INVARIANTS AcceptedWhole
CHECK_DEADLOCK FALSE
