SPECIFICATION Spec
CONSTANTS
    Thread = {t1, t2}
    nobody = nobody
    null = null
    NPages = 4
    MaxForeign = 0
    PageNums = {1, 2, 3, 4}
    MaxLent = 9
    kPCSpanListNum = 5
    kSpanMaxListSize = 1
    kPageSize = 12
    kPageShift = 2
    kSpanHeadSize = 3
    kSpanMaxSize = 5
    kThreadCacheMaxSize = 12
    kMinSize = 3
    kSmallAlign = 3
    kAlign = 3
    kFetchPages = 1
    kIntMax = 127
    kFetchBlocks = 4
    Requests = {5, 12}
    MaxBlocks = 3
    kNodePages = 4
    CrossThreadFree = FALSE
INVARIANTS
    HeapTypeOK
    BlocksInOnePlace
    SpansListedOnce
    CutWhileLent
    AllReturned
    CentralMutexMatchesCalls
    NothingUndefined
PROPERTIES
    HeaderStable
    CallsReturn
    ImplementsMemoryService
