CONSTANTS
    Capacity = 2
    Inputs <- KeyInputs
    Registrable <- KeyRegistrable
    Functions = {f1, f2}
    Nodes = {n1, n2}
    ListHead = head
    Free = free
    SelfRemoval = FALSE
SPECIFICATION Spec
PROPERTY OnePressOneNotification
