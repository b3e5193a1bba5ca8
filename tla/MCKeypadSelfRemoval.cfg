CONSTANTS
    Capacity = 2
    Inputs <- KeyInputs
    Registrable <- KeyRegistrable
    Functions = {f1, f2}
    Nodes = {n1, n2}
    ListHead = head
    Free = free
    SelfRemoval = TRUE
SPECIFICATION Spec
INVARIANT CursorIsLive
