SPECIFICATION Spec
CONSTANTS
    MaxAttempts = 2
    Slices = 2
    Caps = {1}
    MaxSent = 2
    MaxSnapshots = 3
    MaxBoots = 2
VIEW MCView
CHECK_DEADLOCK FALSE
INVARIANTS
    TypeOK
    LedgerAddsUp
PROPERTIES
    UndoneIsUndone
