SPECIFICATION PCSpec
CONSTANTS
    Thread = {t1, t2}
    NPages = 4
    MaxForeign = 1
    PageNums = {1, 2, 4}
    MaxLent = 2
    kPCSpanListNum = 3
    kSpanMaxListSize = 1
    nobody = nobody
    null = null
INVARIANTS
    PCTypeOK
    SpanInOnePlace
    SpansPartitionMapped
    RegisteredWhole
    ListsBounded
    MutexesMatchCalls
PROPERTIES
    StableWhileLent
    PageCallsReturn
    ImplementsSpanPool
