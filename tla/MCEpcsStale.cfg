\* No fault: a slot 1 that holds an older image is enough.
SPECIFICATION Spec
CONSTANTS
    BITS = 2
    SIZE = 16
    SECTOR = 4
    PAGE = 2
    FAULTS = 0
    LEN = 5
    EPCS_TPU_BASE = 8
    VERIFY = 1
    WIP_LIMIT = 3
    FRAMES <- MCFrames
    EDIT <- MCEdit
    EDIT_AT = 2
    Source <- MCSource
    Flashes <- MCFlashes
    RUNS = 1
INVARIANT EraseWaits
CHECK_DEADLOCK FALSE
