CONSTANTS
    Reg <- MCReg
    Volatile <- MCVolatile
    Datum = {0, 1, 2, 3, 4, 5, 6, 7}
    ArbCap = TRUE
    NoReg = none
    Radix <- MCRadix
    Starts = {3}
    LastTick = 4
    BootData = {5}
    Ldos <- MCLdos
    Bucks <- MCBucks
    Voltages = {1800, 3500}
    Word = 10000
    Drv <- MCDrv
    RPins <- MCRPins
    Timeout = 2
    Buttons = {5, 7}
    FirstCardPin = 71
    LastCardPin = 76
    KeyPin = 66
    OtherPins = {8, 72}
    MaxCalls = 2
SPECIFICATION BoardSpec
INVARIANT GetReturnsState
CHECK_DEADLOCK FALSE
