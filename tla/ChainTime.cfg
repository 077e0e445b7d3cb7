SPECIFICATION Spec
CONSTANTS
    NANOS_PER_SEC = 2
    I64_MAX = 3
    Nows <- MCNows
    Seconds <- MCSeconds
    Pins <- MCPins
    Counts <- MCCounts
    MaxBlocks = 2
    MaxRecords = 2
    MaxStampSecs = 1
INVARIANTS
    TypeOK
    BlockTimesNeverBack
    StampsIdentify
PROPERTIES
    PinHonoured
    ImplementsLog
