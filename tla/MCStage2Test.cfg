SPECIFICATION Spec
CONSTANTS
    Layout <- MCLayout
    Scripts <- TestScripts
    NumBlocks = 6
    TEST_LBA = 2
    BLOCK = 2
    KERNEL = 0
    DTB = 4
    INITRD = 6
    MEM_END = 8
    MAX_SEGS = 2
    MAX_SECS = 3
    MAX_DUMP = 2
    DEFAULT_BAUD = 2
    MIN_BAUD = 1
    MAX_BAUD = 3
    FAULTS = 0
    SESSIONS = 2
    CYCLES = 1
INVARIANT BootsWhole
CHECK_DEADLOCK FALSE
