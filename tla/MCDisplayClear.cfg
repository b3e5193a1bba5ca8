SPECIFICATION DisplaySpec
CONSTANTS
    Platforms = {"emerald"}
    ConsoleScreens <- SmallestScreen
    Modules = {"DxeCore"}
    TopTpl = 0
    Width = 2
    Height = 2
    Colours = {"colour"}
    MaxDraws = 1
INVARIANTS ClearStaysInFrameBuffer
CHECK_DEADLOCK FALSE
