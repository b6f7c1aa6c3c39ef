----------------------------- MODULE HeapBlocks -----------------------------
(***************************************************************************)
(* Why no block is given out twice: what the spans, their free blocks, the *)
(* lists of the caches, the blocks that callers hold and the calls under   *)
(* way know of each other.                                                 *)
(***************************************************************************)
EXTENDS HeapProperties

\* Callers ask for no size that is given back to another place than it came
\* from, and a thread frees no other thread's block of a thread cache.
ASSUME CallersAssumption ==
    /\ \A r \in Requests : RoutesAgree(r)
    /\ CrossThreadFree => \A r \in Requests : MallocRoute(r) # "thread"

\* What a thread cache asks for is cut into two blocks at the least; with the
\* real numbers this is ThreadSpanHoldsBlocks of module SizeLaws.
ASSUME SpansAssumption ==
    \A r \in Requests : MallocRoute(r) = "thread" =>
        BlockNum(ThreadPages(CeilMemSize(r)), CeilMemSize(r)) >= 2

\* The pages of a block of the system can be counted in an int; with the real
\* numbers, nobody asks for 8 TB.
ASSUME IntAssumption == \A r \in Requests : PagesWithHead(CeilMemSize(r)) <= kIntMax

\* The sizes of the blocks that a cache hands out.
BlockSizes == {CeilMemSize(r) : r \in {q \in Requests : MallocRoute(q) # "system"}}

IsCut(s) == mem_block_size_[s] # -1

OpRecord == [at : OpLabels, size : Int, block : Addr, span : Page \cup {null}]
Holding == [addr : Addr, size : Requests, by : Thread]

HeapTyped ==
    /\ mem_block_size_ \in [Page -> BlockSizes \cup {-1}]
    /\ mem_block_num_ \in [Page -> Int]
    /\ mem_block_list_ \in [Page -> SUBSET Addr]
    /\ tls_thread_cache \in [Thread -> BOOLEAN]
    /\ tc_span_lists_ \in [Thread -> [Slots -> SUBSET Page]]
    /\ cc_span_lists_ \in [Slots -> SUBSET Page]
    /\ cc_latch \in [Slots -> Thread \cup {nobody}]
    /\ system_pages \in [Page -> Nat]
    /\ live \in SUBSET Holding
    /\ op \in [Thread -> OpRecord]

-----------------------------------------------------------------------------
(* What a call of MyMalloc or MyFree knows *)

Fetching(t) == op[t].at \in {"thread fetch", "central fetch"}
Releasing(t) == op[t].at \in {"thread release", "central release"}

Asking == {"lock list", "take span", "lock to map", "map", "killed", "register",
           "distributed"}
GivingBack == {"lock list to take back", "put back", "push", "unmap", "unlock list",
               "taken back"}

\* The call of the page cache inside it.
CallsPageCache(t) ==
    /\ Fetching(t) => call[t].at \in Asking
    /\ Releasing(t) => call[t].at \in GivingBack
    /\ ~Fetching(t) /\ ~Releasing(t) => call[t].at = "idle"

\* The request, and the cache that it was sent to.
Asks(t, route) == op[t].size \in Requests /\ MallocRoute(op[t].size) = route

SizeKnown(t) ==
    /\ op[t].at \in {"thread malloc", "thread fetch"} => Asks(t, "thread")
    /\ op[t].at \in {"central malloc", "central search", "central fetch"}
         => Asks(t, "central")
    /\ op[t].at = "system malloc" => Asks(t, "system")
    /\ op[t].at \in {"central free", "central put", "central release"}
         => op[t].size \in BlockSizes

\* The span that has come from the page cache.
Fetched(t) == Fetching(t) /\ At(t, "distributed")

FetchedWhole ==
    /\ \A t \in Thread : Fetched(t) => call[t].span \in lent /\ ~IsCut(call[t].span)
    /\ \A t, u \in Thread :
         Fetched(t) /\ Fetched(u) /\ t # u => call[t].span # call[u].span

-----------------------------------------------------------------------------
(* Spans and blocks *)

SpansCut ==
    \A s \in Page :
        IF IsCut(s)
          THEN /\ s \in lent
               /\ mem_block_num_[s] = BlockNum(page_num_[s], mem_block_size_[s])
               /\ mem_block_list_[s] \subseteq BlocksOf(s)
          ELSE mem_block_list_[s] = {} /\ mem_block_num_[s] = 0

\* A lent span is cut, or the call that it was lent to will cut it.
LentSpansKnown ==
    \A s \in lent : IsCut(s) \/ \E t \in Thread : Fetched(t) /\ call[t].span = s

\* The block addr, not free, was cut from s.
CutFrom(addr, s) == s \in Page /\ IsCut(s) /\ addr \in BlocksOf(s) \ mem_block_list_[s]

\* A call has taken a block from its caller and has not put it back yet.
Frees(t) == Freeing(t) \/ OpAt(t, "system free")

SystemAddr(p) == p * kPageSize + kSpanHeadSize

\* The lookup without a lock finds the span of a block.
Lookup(addr) == radix_tree_[PageOf(addr)]

\* A held block has the size that its request is rounded to.
HeldBlock(b) ==
    LET size == CeilMemSize(b.size) IN
    IF InNoSystemBlock(b.addr)
      THEN CutFrom(b.addr, Lookup(b.addr)) /\ mem_block_size_[Lookup(b.addr)] = size
      ELSE /\ b.addr = SystemAddr(PageOf(b.addr))
           /\ system_pages[PageOf(b.addr)] = SystemPages(size)

HeldBlocks == \A b \in live : HeldBlock(b)

FreedBlock(t) ==
    /\ OpAt(t, "found") =>
         /\ op[t].span \in Page
         /\ IF InNoSystemBlock(op[t].block) THEN CutFrom(op[t].block, op[t].span)
            ELSE op[t].block = SystemAddr(PageOf(op[t].block))
    /\ OpAt(t, "system free") =>
         ~InNoSystemBlock(op[t].block) /\ op[t].block = SystemAddr(PageOf(op[t].block))
    /\ op[t].at \in {"thread free", "central free", "central put"}
         => CutFrom(op[t].block, op[t].span)
    /\ OpAt(t, "thread free") => FreeRoute(mem_block_size_[op[t].span]) = "thread"
    /\ op[t].at \in {"central free", "central put"} =>
         /\ FreeRoute(mem_block_size_[op[t].span]) = "central"
         /\ op[t].size = mem_block_size_[op[t].span]

HeldOnce ==
    /\ \A b, c \in live : b.addr = c.addr => b = c
    /\ \A t \in Thread : Frees(t) => op[t].block \notin LiveAddrs
    /\ \A t, u \in Thread : Frees(t) /\ Frees(u) /\ t # u => op[t].block # op[u].block

NoneLost ==
    \A s \in Page : IsCut(s) =>
        BlocksOf(s) \subseteq mem_block_list_[s] \cup LiveAddrs \cup BlocksBeingFreed

\* The pages of a system block are its own.
SystemBlocks ==
    \A p \in Page : system_pages[p] # 0 =>
        /\ PagesFrom(p, system_pages[p]) \subseteq foreign
        /\ \A q \in Page \ {p} : system_pages[q] # 0 =>
             PagesFrom(p, system_pages[p]) \cap PagesFrom(q, system_pages[q]) = {}

BlockInv ==
    /\ FetchedWhole /\ SpansCut /\ LentSpansKnown
    /\ HeldBlocks /\ HeldOnce /\ NoneLost /\ SystemBlocks
    /\ \A t \in Thread : FreedBlock(t)

-----------------------------------------------------------------------------
(* The lists of the caches *)

\* The blocks of s are in the hands of t alone.
OnlyIn(s, t) ==
    /\ \A b \in live : b.addr \in BlocksOf(s) => b.by = t
    /\ \A u \in Thread : Freeing(u) /\ op[u].block \in BlocksOf(s) => u = t

SpanListed(s) ==
    LET slot == Size2Slot(mem_block_size_[s])
        route == FreeRoute(mem_block_size_[s])
    IN  /\ route \in {"thread", "central"}
        /\ route = "central" => s \in cc_span_lists_[slot]
        /\ route = "thread" =>
             \E t \in Thread :
                /\ OnlyIn(s, t)
                /\ s \in tc_span_lists_[t][slot] <=> mem_block_list_[s] # {}
                /\ \A u \in Thread \ {t} : s \notin tc_span_lists_[u][slot]

ListInv ==
    /\ \A s \in Page : IsCut(s) => SpanListed(s)
    /\ \A t \in Thread, slot \in Slots : \A s \in tc_span_lists_[t][slot] :
         /\ IsCut(s) /\ FreeRoute(mem_block_size_[s]) = "thread"
         /\ slot = Size2Slot(mem_block_size_[s])
    /\ \A slot \in Slots : \A s \in cc_span_lists_[slot] :
         /\ IsCut(s) /\ FreeRoute(mem_block_size_[s]) = "central"
         /\ slot = Size2Slot(mem_block_size_[s])

\* Where a thread frees its own blocks only, whoever has one or calls has a
\* thread cache.
CachesMade ==
    CrossThreadFree \/ \A t \in Thread :
        (~OpAt(t, "idle") \/ \E b \in live : b.by = t) => tls_thread_cache[t]

HeapInv ==
    /\ HeapTyped /\ CachesMade
    /\ \A t \in Thread : CallsPageCache(t) /\ SizeKnown(t)
    /\ CentralMutexMatchesCalls
    /\ BlockInv
    /\ ListInv

-----------------------------------------------------------------------------
(* Why everything is given back in the end *)

\* TakeBackMem never releases the span of a thread cache when its first block
\* comes back, so such a span must have another one.
SpansOut ==
    \A s \in Page : IsCut(s) =>
        /\ mem_block_list_[s] # BlocksOf(s)
        /\ FreeRoute(mem_block_size_[s]) = "thread" => mem_block_num_[s] >= 2

\* The span that a thread cache has asked for is as long as it asked.
FetchedLength(t) ==
    OpAt(t, "thread fetch") =>
        /\ call[t].page_num = ThreadPages(CeilMemSize(op[t].size))
        /\ At(t, "distributed") => page_num_[call[t].span] = call[t].page_num

\* Somebody has the system block of page p.
HasSystemBlock(p) ==
    \/ SystemAddr(p) \in LiveAddrs
    \/ \E t \in Thread :
         op[t].at \in {"found", "system free"} /\ op[t].block = SystemAddr(p)

\* Every page that is mapped for others is in a system block, and somebody has
\* that block.
SystemOut ==
    /\ \A q \in foreign : \E p \in Page :
         system_pages[p] # 0 /\ q \in PagesFrom(p, system_pages[p])
    /\ \A p \in Page : system_pages[p] # 0 => HasSystemBlock(p)

ReturnInv ==
    /\ SpansOut
    /\ \A t \in Thread : FetchedLength(t)
    /\ Stopped \/ SystemOut
=============================================================================
