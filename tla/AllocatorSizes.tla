--------------------------- MODULE AllocatorSizes ---------------------------
(***************************************************************************)
(* The size arithmetic of heap-allocator/src: how a request is rounded to  *)
(* a block size, which slot that size has, which cache hands the block out *)
(* and which cache takes it back, how many pages a span of the size has    *)
(* and how many blocks are cut from it.                                    *)
(*                                                                         *)
(* The numbers of util/util.h and the literals of the code are CONSTANTS,  *)
(* so that the same operators are checked on the real values and used,     *)
(* scaled down, by the state machines.                                     *)
(***************************************************************************)
EXTENDS Integers

CONSTANTS
    kPageSize,            \* bytes of a page                        (4096)
    kPageShift,           \* bits of an offset in a page            (12)
    kSpanHeadSize,        \* bytes of the header of a span          (64)
    kSpanMaxSize,         \* one more than the pages of a span      (129)
    kThreadCacheMaxSize,  \* requests below it: thread cache        (65536)
    kMinSize,             \* smallest block, room for two links     (16)
    kSmallAlign,          \* alignment of the blocks below kAlign   (4)
    kAlign,               \* alignment of the other blocks          (64)
    kFetchPages,          \* pages a thread cache asks for          (128)
    kFetchBlocks,         \* blocks it asks for at the least        (8)
    kIntMax               \* greatest int                           (2^31 - 1)

\* requests below it and not of the thread cache: central cache (524224)
kCentralCacheMaxSize == kPageSize * (kSpanMaxSize - 1) - kSpanHeadSize

kTCSpanListNum == kThreadCacheMaxSize \div kAlign + kAlign \div kSmallAlign

kCCSpanListNum == kCentralCacheMaxSize \div kAlign + kAlign \div kSmallAlign

\* What every use of the module needs of the numbers; the values of the code
\* and the scaled ones of the state machines all satisfy it.
ASSUME SizesAssumption ==
    /\ {kPageSize, kPageShift, kSpanHeadSize, kSpanMaxSize,
        kThreadCacheMaxSize, kMinSize, kSmallAlign, kAlign,
        kFetchPages, kFetchBlocks, kIntMax} \subseteq Nat \ {0}
    /\ kSmallAlign <= kMinSize
    /\ kMinSize <= kAlign
    /\ kThreadCacheMaxSize < kCentralCacheMaxSize
    /\ kMinSize % kSmallAlign = 0
    /\ kAlign % kSmallAlign = 0
    /\ kThreadCacheMaxSize % kAlign = 0
    /\ kCentralCacheMaxSize % kAlign = 0

-----------------------------------------------------------------------------
(* util.cpp *)

\* (mutant) rounds down
RoundDown(n, unit) == (n \div unit) * unit

RoundUp(n, unit) == ((n + unit - 1) \div unit) * unit

\* (mutant) one alignment for all sizes
CeilMemSizeFine(mem_size) ==
    IF mem_size < kMinSize THEN kMinSize ELSE RoundUp(mem_size, kSmallAlign)

CeilMemSize(mem_size) ==
    IF mem_size < kMinSize
      THEN kMinSize
      ELSE RoundUp(mem_size, IF mem_size < kAlign THEN kSmallAlign ELSE kAlign)

\* (mutant) the number of small slots is one too many
Size2SlotNext(size) ==
    IF size < kAlign
      THEN size \div kSmallAlign
      ELSE size \div kAlign + kAlign \div kSmallAlign

Size2Slot(size) ==
    IF size < kAlign
      THEN size \div kSmallAlign
      ELSE size \div kAlign + (kAlign - kSmallAlign) \div kSmallAlign

-----------------------------------------------------------------------------
(* The two dispatches.  The code compares a signed size with a size_t: a   *)
(* negative one becomes a huge number and is below no threshold.           *)

\* (mutant) the threshold itself is below it
BelowOrAt(size, limit) == 0 <= size /\ size <= limit

Below(size, limit) == 0 <= size /\ size < limit

Dispatch(size, otherwise) ==
    IF Below(size, kThreadCacheMaxSize) THEN "thread"
    ELSE IF Below(size, kCentralCacheMaxSize) THEN "central"
    ELSE otherwise

\* MyMalloc looks at the size the caller asked for ...
MallocRoute(size) == Dispatch(size, "system")

\* ... MyFree at the size of the blocks of the span it finds.
FreeRoute(mem_block_size) == Dispatch(mem_block_size, "nothing")

\* The routes agree: what one cache hands out is given back to that cache.
\* A block of the system has no span, MyFree recognises it by that.
RoutesAgree(size) ==
    MallocRoute(size) = "system"
      \/ FreeRoute(CeilMemSize(size)) = MallocRoute(size)

-----------------------------------------------------------------------------
(* Pages and blocks *)

\* (mutant) min for max
Smaller(a, b) == IF a < b THEN a ELSE b

Larger(a, b) == IF a < b THEN b ELSE a

\* ThreadCache::DistributeMem and fetchSpanFromPageCache.  The code rounds
\* with kPageShift, not with kPageSize.
FetchBlocks(size) == Larger((kFetchPages * kPageSize) \div size, kFetchBlocks)

ThreadPages(size) == (size * FetchBlocks(size) + kPageShift - 1) \div kPageSize

\* (mutant) forgets the header
PagesWithoutHead(size) == (size + kPageSize - 1) \div kPageSize

\* CentralCache::DistributeMemBlock: room for the header and one block.  The
\* quotient is taken in float, exactly: the operands are below 2^24 and the
\* divisor is a power of two.
CentralPages(size) == (size + kSpanHeadSize + kPageSize - 1) \div kPageSize

\* What is left of a number, not negative, that is stored in an int.
ToInt(n) ==
    IF n <= kIntMax THEN n
    ELSE ((n + kIntMax + 1) % (2 * (kIntMax + 1))) - (kIntMax + 1)

\* MyMalloc, third branch: the header, then the block.  The quotient is a long
\* long, its variable and the parameter of SysMallocPage are ints.
PagesWithHead(size) == (size + kSpanHeadSize + kPageSize - 1) \div kPageSize

SystemPages(size) == ToInt(PagesWithHead(size))

SpanPages(route, size) ==
    CASE route = "thread"  -> ThreadPages(size)
      [] route = "central" -> CentralPages(size)
      [] route = "system"  -> SystemPages(size)

\* Span::Split: the blocks that fit behind the header.
BlockNum(page_num, size) == (page_num * kPageSize - kSpanHeadSize) \div size

\* The span starts at page s, its i-th block at this address.
BlockAddr(s, size, i) == s * kPageSize + kSpanHeadSize + i * size

PageOf(addr) == addr \div kPageSize
=============================================================================
