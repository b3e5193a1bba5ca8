CONSTANTS
    Keys = {k1, k2, k3}
    ZeroKey = zero
    NotReady = notReady
    KEYPAD_EFI_KEY_MAX_COUNT = 4
SPECIFICATION Spec
INVARIANT PendingArePushed
PROPERTY ImplementsKeyFifo
