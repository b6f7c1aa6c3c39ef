SPECIFICATION Spec
CONSTANTS
    kPageSize = 4096
    kPageShift = 12
    kSpanHeadSize = 64
    kSpanMaxSize = 129
    kThreadCacheMaxSize = 65536
    kMinSize = 16
    kSmallAlign = 4
    kAlign = 64
    kFetchPages = 128
    kFetchBlocks = 8
    kIntMax = 2147483647
    Negative = 200
    MaxRequest = 530000
INVARIANTS
    BlockFits
    IndexInArray
    CentralSpanHoldsOneBlock
    ThreadSpanHoldsBlocks
    MisroutedWindows
    AssertionFailsAtThreshold
PROPERTY SlotsSeparateSizes
CHECK_DEADLOCK FALSE
