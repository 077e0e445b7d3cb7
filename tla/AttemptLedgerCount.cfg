SPECIFICATION Spec
CONSTANTS
    MaxAttempts = 2
    Slices = 1
    Caps = {0, 1}
    MaxSent = 2
    MaxSnapshots = 2
    MaxBoots = 1
CHECK_DEADLOCK FALSE
INVARIANTS
    EthereumCountedOnce
