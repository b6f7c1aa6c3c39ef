SPECIFICATION Spec
CONSTANTS
    Thread = {t1, t2}
    nobody = nobody
    null = null
    NPages = 4
    MaxForeign = 0
    PageNums = {1, 2}
    MaxLent = 9
    kPCSpanListNum = 3
    kSpanMaxListSize = 1
    kPageSize = 15
    kPageShift = 2
    kSpanHeadSize = 3
    kSpanMaxSize = 3
    kThreadCacheMaxSize = 3
    kMinSize = 3
    kSmallAlign = 3
    kAlign = 3
    kFetchPages = 1
    kIntMax = 127
    kFetchBlocks = 1
    Requests = {6, 15, 27}
    MaxBlocks = 3
    kNodePages = 4
    CrossThreadFree = TRUE
SYMMETRY ThreadSymmetry
INVARIANTS
    LookupFindsBlock
    AllReturned
PROPERTY ImplementsMemoryService
