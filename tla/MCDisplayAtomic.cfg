SPECIFICATION DisplaySpec
CONSTANTS
    Platforms = {"emerald"}
    ConsoleScreens <- SmallestScreen
    Modules = {"DxeCore"}
    TopTpl = 0
    Width = 2
    Height = 2
    Colours = {"colour"}
    MaxDraws = 2
INVARIANTS BltIsAtomic
CHECK_DEADLOCK FALSE
