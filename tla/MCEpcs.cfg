\* One fault of the chip, and a power cut at any step; no symmetry.
SPECIFICATION Spec
CONSTANTS
    BITS = 2
    SIZE = 16
    SECTOR = 4
    PAGE = 2
    FAULTS = 1
    LEN = 5
    EPCS_TPU_BASE = 8
    VERIFY = 1
    WIP_LIMIT = 3
    FRAMES <- MCFrames
    EDIT <- MCEdit
    EDIT_AT = 2
    Source <- MCSource
    Flashes <- MCFlashes
    RUNS = 2
INVARIANTS TypeOK StagedRight Bootable
PROPERTIES PulsesTaken Returns
CHECK_DEADLOCK FALSE
