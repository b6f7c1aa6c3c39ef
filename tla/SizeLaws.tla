------------------------------ MODULE SizeLaws ------------------------------
(***************************************************************************)
(* What the size arithmetic must guarantee for every request: the state is *)
(* one request, a step asks for one byte more.                             *)
(***************************************************************************)
EXTENDS AllocatorSizes

CONSTANTS Negative, MaxRequest   \* a caller asks for -Negative .. MaxRequest bytes

VARIABLE size

\* util.h declares the number twice.
kPCSpanListNum == kSpanMaxSize

ASSUME PageFitsAssumption == kPageSize <= kThreadCacheMaxSize

\* What a thread cache asks for is at least three of its longest blocks, the
\* header and a page, and at most the longest span; its sizes are more than
\* the smallest step.
ASSUME FetchAssumption ==
    /\ kFetchBlocks * kThreadCacheMaxSize <= kFetchPages * kPageSize
    /\ 3 * kThreadCacheMaxSize + kSpanHeadSize + kPageSize <= kFetchPages * kPageSize
    /\ kPageShift <= kPageSize
    /\ kFetchPages < kSpanMaxSize
    /\ kAlign < kThreadCacheMaxSize

ASSUME RequestsAssumption == Negative \in Nat /\ MaxRequest \in Nat

Init == size \in -Negative .. MaxRequest

OneByteMore == size < MaxRequest /\ size' = size + 1

Spec == Init /\ [][OneByteMore]_size

-----------------------------------------------------------------------------
Block == CeilMemSize(size)
Route == MallocRoute(size)
Pages == SpanPages(Route, Block)

\* The block is long enough for the request and for the two links that are
\* stored in it while it is free, and rounding its size again changes nothing.
BlockFits == Block >= size /\ Block >= kMinSize /\ CeilMemSize(Block) = Block

\* The literals of util.h make the arrays long enough: the slot of every size
\* that is routed to a cache is an index of that cache's array, and the page
\* number a cache asks for is one of the page cache's, although DistributeSpan
\* refuses only what is greater than kPCSpanListNum (page-cache.cpp:14).
IndexInArray ==
    /\ Route = "thread"  => Size2Slot(Block) \in 0 .. kTCSpanListNum - 1
    /\ Route = "central" => Size2Slot(Block) \in 0 .. kCCSpanListNum - 1
    /\ Route \in {"thread", "central"} => Pages \in 1 .. kPCSpanListNum - 1

\* A span of the central cache holds exactly one block, so the search for a
\* span with a free block (central-cache.cpp:23-26) never finds one and every
\* block that comes back empties its span.
CentralSpanHoldsOneBlock == Route = "central" => BlockNum(Pages, Block) = 1

\* A span of a thread cache holds at least two blocks although its length is
\* rounded with the wrong constant: TakeBackMem (thread-cache.cpp:68-73) puts
\* the first block back by inserting the span and never releases it then, so
\* a span of one block would stay in the thread cache for ever.
ThreadSpanHoldsBlocks == Route = "thread" => BlockNum(Pages, Block) >= 2

\* Blocks of different sizes never share a slot: a longer request is in the
\* same slot exactly when it has the same block size.
SlotsSeparateSizes ==
    [][/\ Size2Slot(Block') >= Size2Slot(Block)
       /\ (Size2Slot(Block') = Size2Slot(Block)) = (Block' = Block)]_size

\* Exactly the requests of the last step below a threshold are given back to
\* another place than the one they came from, because MyMalloc compares the
\* request and MyFree the rounded size.
MisroutedWindows ==
    ~RoutesAgree(size)
      <=> \/ size > kThreadCacheMaxSize - kAlign /\ size < kThreadCacheMaxSize
          \/ size > kCentralCacheMaxSize - kAlign /\ size < kCentralCacheMaxSize

\* "The prototypes are those of malloc and free" (heap-allocator/README.md:9):
\* if a block of the system is mapped at all, it is as long as the request.  Its
\* page number is an int (heap-allocator.cpp:51).  (Not so where that overflows.)
SystemBlockIsLong ==
    Route = "system" /\ Pages > 0
      => Pages * kPageSize >= size + kSpanHeadSize

\* The assertion of CentralCache::DistributeMemBlock (central-cache.cpp:17),
\* "size % 4 == 0 && size > 64 * 1024", holds of every size routed there but
\* one: it excludes the threshold itself, which MyMalloc sends there.
AssertionFailsAtThreshold ==
    (Route = "central" /\ ~(Block % kSmallAlign = 0 /\ Block > kThreadCacheMaxSize))
      <=> size = kThreadCacheMaxSize
=============================================================================
