SPECIFICATION DisplaySpec
CONSTANTS
    Platforms = {"t1100", "t1", "emerald", "roo"}
    ConsoleScreens <- SmallestScreen
    Modules = {DxeCore, WatchDogDxe}
    TopTpl = 1
    Width = 2
    Height = 2
    Colours = {"colour"}
    MaxDraws = 3
INVARIANTS FramesAreKept NextGlyphFits DrawnIsOpaque ShowsLastDrawn
PROPERTIES InterruptsAsFound
\* The draws stop at their bound.
CHECK_DEADLOCK FALSE
SYMMETRY Symmetric
