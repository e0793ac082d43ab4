SPECIFICATION Spec
CONSTANTS
    NumBlocks = 3
    BLOCK = 2
    W = 8
    RESP_LIMIT = 2
    TOKEN_LIMIT = 2
    BUSY_LIMIT = 2
    INIT_TRIES = 2
    SWAPS = 1
    old = old
    new = new
    Garbled = garbled
    Blocks <- MCBlocks
INVARIANTS TypeOK
PROPERTIES Refinement CallReturns
CHECK_DEADLOCK FALSE
