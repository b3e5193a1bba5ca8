SPECIFICATION InputFairSpec
CONSTANTS
    Capacity = 1
    Inputs <- DeviceInputs
    Registrable <- PowerTap
    Functions = {f1}
    Nodes = {n1}
    ListHead = head
    Free = free
    SelfRemoval = FALSE
    DebounceTime = 1
    RepeatTime = 1
    LongpressTime = 1
    TimeCap = 1
    Buttons = {"Power"}
INVARIANT OnlyWholeKeys
PROPERTIES ImplementsDriver HoldsAreTimed PolledFairly NotifyIsHandled
