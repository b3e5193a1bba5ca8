CONSTANTS
    DebounceTime = 1
    RepeatTime = 2
    LongpressTime = 3
    Deltas = {0, 1, 3}
    TimeCap = 3
SPECIFICATION FairSpec
PROPERTIES OwnButtonOnly ComboIsCurrent ImplementsKeyGesture PressIsAnswered ReleasedSettles
