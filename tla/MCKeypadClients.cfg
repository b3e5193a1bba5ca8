CONSTANTS
    Capacity = 3
    Inputs <- AllInputs
    Registrable <- DistinctKeys
    Functions = {f1, f2}
    Nodes = {n1, n2, n3}
    ListHead = head
    Free = free
    SelfRemoval = FALSE
SPECIFICATION ClientSpec
SYMMETRY Symmetric
INVARIANTS ClientTypeOK ListIsPool NoLostNotify CursorIsLive PassIsComplete SignalledHasKey RegistrationHolds
