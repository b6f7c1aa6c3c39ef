--------------------------- MODULE HeapAllocator ---------------------------
(***************************************************************************)
(* heap-allocator/src: MyMalloc and MyFree over the thread caches, the     *)
(* central cache and the page cache, called by several threads.            *)
(*                                                                         *)
(* A block is named by its address.  A call is cut where another thread    *)
(* can come between: at the mutexes, at the lookup without a lock, and     *)
(* inside the page cache as module PageCache cuts its calls.  What a       *)
(* thread does on its own cache between two of these points is one step.   *)
(* Lists of spans and of blocks are sets, as in PageCache.                 *)
(*                                                                         *)
(* Where the code's behaviour is undefined (a null pointer or memory that  *)
(* is not a span is used as one) the call stops at "undefined" and with it *)
(* the model.                                                              *)
(***************************************************************************)
EXTENDS AllocatorSizes, PageCache

CONSTANTS
    Requests,         \* the sizes that callers ask for
    MaxBlocks,        \* blocks callers hold or ask for (bound of the model)
    kNodePages,       \* pages that one last node of the radix tree maps
    CrossThreadFree   \* a thread may free what another one allocated

ASSUME HeapAssumption ==
    /\ Requests \subseteq Int
    /\ MaxBlocks \in Nat
    /\ kNodePages \in Nat \ {0}
    /\ CrossThreadFree \in BOOLEAN
    /\ kPCSpanListNum = kSpanMaxSize
    /\ kSpanHeadSize < kPageSize
    /\ NPages # 0

\* The page cache has a list for every length that the caches ask for; with the
\* real numbers this is IndexInArray of module SizeLaws.
ASSUME PagesAssumption ==
    \A r \in Requests :
        /\ MallocRoute(r) = "thread" => ThreadPages(CeilMemSize(r)) \in PageNums \cap Lists
        /\ MallocRoute(r) = "central" => CentralPages(CeilMemSize(r)) \in PageNums \cap Lists

VARIABLES
    mem_block_size_,     \* first page -> size of the span's blocks, -1: whole
    mem_block_num_,      \* first page -> number of its blocks
    mem_block_list_,     \* first page -> its free blocks
    tls_thread_cache,    \* thread -> it has a thread cache
    tc_span_lists_,      \* thread -> slot -> spans of its cache
    cc_span_lists_,      \* slot -> spans of the central cache
    cc_latch,            \* slot -> who holds the mutex of that list
    system_pages,        \* page -> pages of the system block there, 0: none
    live,                \* the blocks that callers hold
    op                   \* thread -> its MyMalloc or MyFree and its locals

spanVars == <<mem_block_size_, mem_block_num_, mem_block_list_>>
cacheVars == <<tls_thread_cache, tc_span_lists_, cc_span_lists_, cc_latch>>
heapVars == <<spanVars, cacheVars, system_pages, live, op>>
vars == <<pageCacheVars, heapVars>>

Slots == {Size2Slot(CeilMemSize(r)) : r \in Requests}

NoOp == [at |-> "idle", size |-> 0, block |-> 0, span |-> null]

OpAt(t, label) == op[t].at = label
OpGoTo(t, label) == op' = [op EXCEPT ![t].at = label]

Init ==
    /\ PCInit
    /\ mem_block_size_ = [s \in Page |-> -1]
    /\ mem_block_num_ = [s \in Page |-> 0]
    /\ mem_block_list_ = [s \in Page |-> {}]
    /\ tls_thread_cache = [t \in Thread |-> FALSE]
    /\ tc_span_lists_ = [t \in Thread |-> [slot \in Slots |-> {}]]
    /\ cc_span_lists_ = [slot \in Slots |-> {}]
    /\ cc_latch = [slot \in Slots |-> nobody]
    /\ system_pages = [p \in Page |-> 0]
    /\ live = {}
    /\ op = [t \in Thread |-> NoOp]

-----------------------------------------------------------------------------
(* util.h: class Span *)

\* The addresses of num blocks of a size in span s.
Blocks(s, size, num) == {BlockAddr(s, size, i) : i \in 0 .. num - 1}

BlocksOf(s) == Blocks(s, mem_block_size_[s], mem_block_num_[s])

\* (mutant) one block too early, or never
IsFreeEarly(s, free) == Cardinality(free) + 1 >= mem_block_num_[s]
IsFreeNever(s, free) == Cardinality(free) > mem_block_num_[s]

IsFree(s, free) == Cardinality(free) = mem_block_num_[s]

\* (mutant) the block stays in the list
KeepBlock(free, b) == free

RemoveBlock(free, b) == free \ {b}

\* Split cuts the span into blocks of the size unless it is cut already, and
\* the caller then takes one block out; used is what its list becomes.
FreeAfterSplit(s, size) ==
    IF mem_block_size_[s] # -1
      THEN mem_block_list_[s]
      ELSE Blocks(s, size, BlockNum(page_num_[s], size))

SplitAndKeep(s, size, used) ==
    /\ mem_block_list_' = [mem_block_list_ EXCEPT ![s] = used]
    /\ IF mem_block_size_[s] # -1
         THEN UNCHANGED <<mem_block_size_, mem_block_num_>>
         ELSE /\ mem_block_size_' = [mem_block_size_ EXCEPT ![s] = size]
              /\ mem_block_num_' =
                   [mem_block_num_ EXCEPT ![s] = BlockNum(page_num_[s], size)]

\* (mutant) leaves the block size
MergeKeepsSize(s) ==
    /\ mem_block_list_' = [mem_block_list_ EXCEPT ![s] = {}]
    /\ mem_block_num_' = [mem_block_num_ EXCEPT ![s] = 0]
    /\ UNCHANGED mem_block_size_

\* Merge makes it one piece again.
Merge(s) ==
    /\ mem_block_list_' = [mem_block_list_ EXCEPT ![s] = {}]
    /\ mem_block_num_' = [mem_block_num_ EXCEPT ![s] = 0]
    /\ mem_block_size_' = [mem_block_size_ EXCEPT ![s] = -1]

-----------------------------------------------------------------------------
(* MyMalloc *)

\* (mutant) makes none
MakeNoThreadCache(t) == UNCHANGED tls_thread_cache

\* newThreadCacheBySystem, if the thread has none; its memory, which is never
\* unmapped, is not one of the pages of the model.
MakeThreadCache(t) == tls_thread_cache' = [tls_thread_cache EXCEPT ![t] = TRUE]

\* MyMalloc returns block addr.
GiveOut(t, addr) ==
    /\ live' = live \cup {[addr |-> addr, size |-> op[t].size, by |-> t]}
    /\ op' = [op EXCEPT ![t] = NoOp]

MyMalloc(t, size) ==
    /\ OpAt(t, "idle")
    /\ MakeThreadCache(t)
    /\ op' = [op EXCEPT ![t] =
         [NoOp EXCEPT !.at = CASE MallocRoute(size) = "thread" -> "thread malloc"
                               [] MallocRoute(size) = "central" -> "central malloc"
                               [] MallocRoute(size) = "system" -> "system malloc",
                      !.size = size]]
    /\ UNCHANGED <<pageCacheVars, spanVars, tc_span_lists_, cc_span_lists_,
                   cc_latch, system_pages, live>>

(* ThreadCache::DistributeMem *)

TcList(t, size) == tc_span_lists_[t][Size2Slot(size)]

\* A span leaves the list when its last block is taken.
KeepIfBlocksLeft(t, size, s, used) ==
    tc_span_lists_' = [tc_span_lists_ EXCEPT ![t][Size2Slot(size)] =
                         IF used = {} THEN @ \ {s} ELSE @ \cup {s}]

DistributeMem(t) ==
    LET size == CeilMemSize(op[t].size) IN
    /\ OpAt(t, "thread malloc")
    /\ \E s \in TcList(t, size) : \E b \in mem_block_list_[s] :
         LET used == RemoveBlock(mem_block_list_[s], b) IN
         /\ mem_block_list_' = [mem_block_list_ EXCEPT ![s] = used]
         /\ KeepIfBlocksLeft(t, size, s, used)
         /\ GiveOut(t, b)
    /\ UNCHANGED <<pageCacheVars, mem_block_size_, mem_block_num_,
                   tls_thread_cache, cc_span_lists_, cc_latch, system_pages>>

FetchSpanFromPageCache(t) ==
    LET size == CeilMemSize(op[t].size) IN
    /\ OpAt(t, "thread malloc")
    /\ TcList(t, size) = {}
    /\ DistributeSpan(t, ThreadPages(size))
    /\ OpGoTo(t, "thread fetch")
    /\ UNCHANGED <<spanVars, cacheVars, system_pages, live>>

\* The span has come: split it, put it into the list, take the block.  That
\* the span is not null is PagesAssumption.
SpanFetched(t) ==
    LET size == CeilMemSize(op[t].size)
        s == call[t].span IN
    /\ OpAt(t, "thread fetch")
    /\ At(t, "distributed")
    /\ Return(t)
    /\ \E b \in FreeAfterSplit(s, size) :
         LET used == RemoveBlock(FreeAfterSplit(s, size), b) IN
         /\ SplitAndKeep(s, size, used)
         /\ KeepIfBlocksLeft(t, size, s, used)
         /\ GiveOut(t, b)
    /\ UNCHANGED <<tls_thread_cache, cc_span_lists_, cc_latch, system_pages>>

(* CentralCache::DistributeMemBlock *)

\* (mutant) the mutex stays locked
KeepCentralLocked(slot) == UNCHANGED cc_latch

LockSlot(slot, t) ==
    /\ cc_latch[slot] = nobody
    /\ cc_latch' = [cc_latch EXCEPT ![slot] = t]

UnlockSlot(slot) == cc_latch' = [cc_latch EXCEPT ![slot] = nobody]

LockCentral(t) ==
    /\ OpAt(t, "central malloc")
    /\ LockSlot(Size2Slot(CeilMemSize(op[t].size)), t)
    /\ OpGoTo(t, "central search")
    /\ UNCHANGED <<pageCacheVars, spanVars, tls_thread_cache, tc_span_lists_,
                   cc_span_lists_, system_pages, live>>

\* The first span with a free block gives it; the span stays in the list.
SearchFinds(t) ==
    LET slot == Size2Slot(CeilMemSize(op[t].size)) IN
    /\ OpAt(t, "central search")
    /\ \E s \in cc_span_lists_[slot] : \E b \in mem_block_list_[s] :
         /\ mem_block_list_' = [mem_block_list_ EXCEPT ![s] = RemoveBlock(@, b)]
         /\ GiveOut(t, b)
    /\ UnlockSlot(slot)
    /\ UNCHANGED <<pageCacheVars, mem_block_size_, mem_block_num_,
                   tls_thread_cache, tc_span_lists_, cc_span_lists_, system_pages>>

\* No span has one: ask the page cache, with the list locked.
SearchFails(t) ==
    LET size == CeilMemSize(op[t].size) IN
    /\ OpAt(t, "central search")
    /\ \A s \in cc_span_lists_[Size2Slot(size)] : mem_block_list_[s] = {}
    /\ DistributeSpan(t, CentralPages(size))
    /\ OpGoTo(t, "central fetch")
    /\ UNCHANGED <<spanVars, cacheVars, system_pages, live>>

CentralFetched(t) ==
    LET size == CeilMemSize(op[t].size)
        slot == Size2Slot(size)
        s == call[t].span IN
    /\ OpAt(t, "central fetch")
    /\ At(t, "distributed")
    /\ Return(t)
    /\ \E b \in FreeAfterSplit(s, size) :
         /\ SplitAndKeep(s, size, RemoveBlock(FreeAfterSplit(s, size), b))
         /\ GiveOut(t, b)
    /\ cc_span_lists_' = [cc_span_lists_ EXCEPT ![slot] = @ \cup {s}]
    /\ UnlockSlot(slot)
    /\ UNCHANGED <<tls_thread_cache, tc_span_lists_, system_pages>>

(* The third branch: pages of the system, with their number in front. *)

SystemMalloc(t) ==
    LET n == SystemPages(CeilMemSize(op[t].size)) IN
    /\ OpAt(t, "system malloc")
    /\ n > 0
    /\ \E s \in MapPlaces(n) :
         /\ foreign' = foreign \cup PagesFrom(s, n)
         /\ system_pages' = [system_pages EXCEPT ![s] = n]
         /\ GiveOut(t, s * kPageSize + kSpanHeadSize)
    /\ UNCHANGED <<pc_span_lists_, list_latch, latch_, radix_tree_, page_num_,
                   mapped, lent, call, spanVars, cacheVars>>

\* mmap fails, as it does for a length of 0 or a negative one, which is huge as
\* a size_t; the number is written to MAP_FAILED.
SystemMallocFails(t) ==
    LET n == SystemPages(CeilMemSize(op[t].size)) IN
    /\ OpAt(t, "system malloc")
    /\ n <= 0 \/ MapPlaces(n) = {}
    /\ OpGoTo(t, "killed")
    /\ UNCHANGED <<pageCacheVars, spanVars, cacheVars, system_pages, live>>

-----------------------------------------------------------------------------
(* MyFree *)

\* The radix tree has a node for a page once a page next to it is registered;
\* it never loses one.
HasNode(page) ==
    \E p \in Page : /\ p \div kNodePages = page \div kNodePages
                   /\ radix_tree_[p] # null

\* A caller gives the block up and PageId2Span is called.  GetValue follows
\* the null pointer of a missing node (util.h:238-248).
MyFree(t, b) ==
    LET page == PageOf(b.addr)
        span == radix_tree_[page] IN
    /\ OpAt(t, "idle")
    /\ CrossThreadFree \/ b.by = t
    /\ live' = live \ {b}
    /\ op' = [op EXCEPT ![t] =
         [NoOp EXCEPT !.at = IF ~HasNode(page) THEN "undefined"
                             ELSE IF span = null THEN "system free" ELSE "found",
                      !.size = b.size, !.block = b.addr, !.span = span]]
    /\ UNCHANGED <<pageCacheVars, spanVars, cacheVars, system_pages>>

\* (mutant) one page
UnmapBlockOne(s, n) == foreign' = foreign \ {s}

UnmapBlock(s, n) == foreign' = foreign \ PagesFrom(s, n)

\* munmap of as many pages as the number in front of the block says.
SystemFree(t) ==
    LET s == PageOf(op[t].block) IN
    /\ OpAt(t, "system free")
    /\ UnmapBlock(s, system_pages[s])
    /\ system_pages' = [system_pages EXCEPT ![s] = 0]
    /\ op' = [op EXCEPT ![t] = NoOp]
    /\ UNCHANGED <<pc_span_lists_, list_latch, latch_, radix_tree_, page_num_,
                   mapped, lent, call, spanVars, cacheVars, live>>

\* The size in the header decides, read without a lock.  What the tree found
\* may be no span, or none with this block: nothing can be said of the sequel.
\* Nor if the block is to go to a thread cache and the thread has none.
FoundSpan(t) ==
    LET s == op[t].span
        route == FreeRoute(mem_block_size_[s])
        defined == /\ page_num_[s] # 0
                   /\ op[t].block \in BlocksOf(s)
                   /\ route = "thread" => tls_thread_cache[t] IN
    /\ OpAt(t, "found")
    /\ op' = [op EXCEPT ![t] =
         IF ~defined THEN [@ EXCEPT !.at = "undefined"]
         ELSE CASE route = "thread" -> [@ EXCEPT !.at = "thread free"]
                [] route = "central" -> [@ EXCEPT !.at = "central free",
                                                  !.size = mem_block_size_[s]]
                [] route = "nothing" -> NoOp]
    /\ UNCHANGED <<pageCacheVars, spanVars, cacheVars, system_pages, live>>

(* ThreadCache::TakeBackMem *)

BlocksBack(t) == mem_block_list_[op[t].span] \cup {op[t].block}

\* (mutant) forgets the span that was used up
ForgetSpan(t, s, free) == UNCHANGED tc_span_lists_

ListSpanAgain(t, s, free) ==
    tc_span_lists_' = [tc_span_lists_ EXCEPT ![t][Size2Slot(mem_block_size_[s])] =
                         IF Cardinality(free) = 1 THEN @ \cup {s} ELSE @]

\* The block goes back, and the span into the list if it was used up.
TakeBackMem(t) ==
    LET s == op[t].span
        free == BlocksBack(t) IN
    /\ OpAt(t, "thread free")
    /\ Cardinality(free) = 1 \/ ~IsFree(s, free)
    /\ mem_block_list_' = [mem_block_list_ EXCEPT ![s] = free]
    /\ ListSpanAgain(t, s, free)
    /\ op' = [op EXCEPT ![t] = NoOp]
    /\ UNCHANGED <<pageCacheVars, mem_block_size_, mem_block_num_,
                   tls_thread_cache, cc_span_lists_, cc_latch, system_pages, live>>

\* The last block is back: releaseSpanToPageCache.
ReleaseSpanToPageCache(t) ==
    LET s == op[t].span
        free == BlocksBack(t) IN
    /\ OpAt(t, "thread free")
    /\ Cardinality(free) # 1 /\ IsFree(s, free)
    /\ tc_span_lists_' =
         [tc_span_lists_ EXCEPT ![t][Size2Slot(mem_block_size_[s])] = @ \ {s}]
    /\ Merge(s)
    /\ TakeBackSpan(t, s)
    /\ OpGoTo(t, "thread release")
    /\ UNCHANGED <<tls_thread_cache, cc_span_lists_, cc_latch, system_pages, live>>

SpanReleased(t) ==
    /\ OpAt(t, "thread release")
    /\ At(t, "taken back")
    /\ Return(t)
    /\ op' = [op EXCEPT ![t] = NoOp]
    /\ UNCHANGED <<spanVars, cacheVars, system_pages, live>>

(* CentralCache::TakeBackMemBlock *)

\* The slot comes from the size that was read before the lock.
LockCentralToFree(t) ==
    /\ OpAt(t, "central free")
    /\ LockSlot(Size2Slot(op[t].size), t)
    /\ OpGoTo(t, "central put")
    /\ UNCHANGED <<pageCacheVars, spanVars, tls_thread_cache, tc_span_lists_,
                   cc_span_lists_, system_pages, live>>

TakeBackMemBlock(t) ==
    LET s == op[t].span
        free == BlocksBack(t) IN
    /\ OpAt(t, "central put")
    /\ ~IsFree(s, free)
    /\ mem_block_list_' = [mem_block_list_ EXCEPT ![s] = free]
    /\ UnlockSlot(Size2Slot(op[t].size))
    /\ op' = [op EXCEPT ![t] = NoOp]
    /\ UNCHANGED <<pageCacheVars, mem_block_size_, mem_block_num_,
                   tls_thread_cache, tc_span_lists_, cc_span_lists_, system_pages,
                   live>>

RemoveFromSlot(slot, s) ==
    cc_span_lists_' = [cc_span_lists_ EXCEPT ![slot] = @ \ {s}]

\* The list stays locked while the page cache takes the span back.
ReleaseCentralSpan(t) ==
    LET s == op[t].span IN
    /\ OpAt(t, "central put")
    /\ IsFree(s, BlocksBack(t))
    /\ RemoveFromSlot(Size2Slot(op[t].size), s)
    /\ Merge(s)
    /\ TakeBackSpan(t, s)
    /\ OpGoTo(t, "central release")
    /\ UNCHANGED <<tls_thread_cache, tc_span_lists_, cc_latch, system_pages, live>>

CentralReleased(t) ==
    /\ OpAt(t, "central release")
    /\ At(t, "taken back")
    /\ Return(t)
    /\ UnlockSlot(Size2Slot(op[t].size))
    /\ op' = [op EXCEPT ![t] = NoOp]
    /\ UNCHANGED <<spanVars, tls_thread_cache, tc_span_lists_, cc_span_lists_,
                   system_pages, live>>

-----------------------------------------------------------------------------
\* The steps of a MyMalloc or MyFree under way.  The page cache leaves the
\* blocks alone: it unmaps spans that are merged, and the constructor of a
\* new one writes the same values.
Continue(t) ==
    \/ Inside(t) /\ UNCHANGED heapVars
    \/ DistributeMem(t) \/ FetchSpanFromPageCache(t) \/ SpanFetched(t)
    \/ LockCentral(t) \/ SearchFinds(t) \/ SearchFails(t) \/ CentralFetched(t)
    \/ SystemMalloc(t) \/ SystemMallocFails(t)
    \/ SystemFree(t) \/ FoundSpan(t)
    \/ TakeBackMem(t) \/ ReleaseSpanToPageCache(t) \/ SpanReleased(t)
    \/ LockCentralToFree(t) \/ TakeBackMemBlock(t)
    \/ ReleaseCentralSpan(t) \/ CentralReleased(t)

\* A call that allocates is under way.
Allocating == {t \in Thread : op[t].at \in {"thread malloc", "thread fetch",
                 "central malloc", "central search", "central fetch",
                 "system malloc"}}

MayMalloc == Cardinality(live) + Cardinality(Allocating) < MaxBlocks

\* The process is killed, or nothing can be said of it any more.
Stopped == Killed \/ \E t \in Thread : op[t].at \in {"killed", "undefined"}

StayStopped == Stopped /\ UNCHANGED vars

Step ==
    /\ ~Stopped
    /\ \E t \in Thread :
         \/ \E r \in Requests : MayMalloc /\ MyMalloc(t, r)
         \/ \E b \in live : MyFree(t, b)
         \/ Continue(t)

Next == Step \/ StayStopped

\* A call goes on as long as it can; nobody has to call.
Fairness == \A t \in Thread : WF_vars(~Stopped /\ Continue(t))

Spec == Init /\ [][Next]_vars /\ Fairness
=============================================================================
