CONSTANTS
    b0 = b0
    b1 = b1
    r0 = r0
    r1 = r1
    c0 = c0
    Closed = Closed
    HiZ = HiZ
    Bank <- MCBank
    Row <- MCRow
    Col <- MCCol
    Byte = {0}
    PowerUpByte = 0
    TRP = 2
    TRC = 4
    TRCD = 2
    TWR = 2
    TMRD = 2
    INIT_CYCLES = 40
    REF_INTERVAL = 26
    Requests <- MCTimedRequests
    XBUS_TIMEOUT = 38
    EarlyAccess = TRUE
SPECIFICATION Spec
INVARIANTS BusLegal
PROPERTIES NoLateTimeout
