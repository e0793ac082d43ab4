CONSTANTS
    N = 4
    Byte <- MCByte
    AccMod = 65536
    LutSize = 16
    PowerUpWords <- MCPowerUpWords
    Files <- MCFiles
    PollLimit = 4
SPECIFICATION Spec
INVARIANTS PredictionRight OnlyTrusted NoTimeout
PROPERTIES Returns
