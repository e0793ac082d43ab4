\* No symmetry: the rows and columns of the array are not alike.
CONSTANTS
    N = 4
    Byte <- MCByte
    AccMod = 4
    LutSize = 16
    Requests <- MCRequests
    PowerUpWords <- MCPowerUpWords
    None = None
SPECIFICATION Spec
INVARIANTS TypeOK NothingLost QuietArray
PROPERTIES Refinement PollEnds
