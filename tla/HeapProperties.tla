--------------------------- MODULE HeapProperties ---------------------------
(***************************************************************************)
(* What must hold of heap-allocator/src as a whole.                        *)
(***************************************************************************)
EXTENDS HeapAllocator

OpLabels ==
    {"idle", "thread malloc", "thread fetch", "central malloc",
     "central search", "central fetch", "system malloc", "killed",
     "system free", "found", "undefined", "thread free", "thread release",
     "central free", "central put", "central release"}

Addr == 0 .. NPages * kPageSize - 1

\* The type of every variable.
HeapTypeOK ==
    /\ PCTypeOK
    /\ mem_block_size_ \in [Page -> Nat \cup {-1}]
    /\ mem_block_num_ \in [Page -> Nat]
    /\ mem_block_list_ \in [Page -> SUBSET Addr]
    /\ tls_thread_cache \in [Thread -> BOOLEAN]
    /\ tc_span_lists_ \in [Thread -> [Slots -> SUBSET Page]]
    /\ cc_span_lists_ \in [Slots -> SUBSET Page]
    /\ cc_latch \in [Slots -> Thread \cup {nobody}]
    /\ system_pages \in [Page -> Nat]
    /\ live \subseteq [addr : Addr, size : Requests, by : Thread]
    /\ op \in [Thread -> [at : OpLabels, size : Int, block : Addr,
                          span : Page \cup {null}]]

-----------------------------------------------------------------------------
\* Spans that are cut into blocks.
Cut == {s \in Spans : mem_block_size_[s] # -1}

\* A MyFree has the block and has not yet put it back.
Freeing(t) ==
    op[t].at \in {"found", "thread free", "central free", "central put"}

BlocksBeingFreed == {op[t].block : t \in {u \in Thread : Freeing(u)}}

LiveAddrs == {b.addr : b \in live}

InNoSystemBlock(addr) == system_pages[PageOf(addr)] = 0

\* Each block of a span is in exactly one place: free in the list of its span,
\* held by a caller, or in a MyFree that has not put it back yet.  None is
\* lost, none is given out twice; IsFree is true only when no caller holds one.
BlocksInOnePlace ==
    \A s \in Cut :
        /\ mem_block_num_[s] = BlockNum(page_num_[s], mem_block_size_[s])
        /\ BlocksOf(s) \subseteq
             mem_block_list_[s] \cup LiveAddrs \cup BlocksBeingFreed
        /\ mem_block_list_[s] \subseteq BlocksOf(s)
        /\ mem_block_list_[s] \cap (LiveAddrs \cup BlocksBeingFreed) = {}
        /\ LiveAddrs \cap BlocksBeingFreed = {}

\* Where the spans with a free block are: each is in the list of one cache,
\* under the slot of its block size, and a thread cache lists no others.
Listings(s) ==
    {l \in Thread \X Slots : s \in tc_span_lists_[l[1]][l[2]]}
      \cup {l \in {nobody} \X Slots : s \in cc_span_lists_[l[2]]}

\* A cut span is listed by at most one cache, in the slot of its size; one with
\* a free block is listed by exactly one; a span listed by a thread cache has a
\* free block.  DistributeMem takes the first block of the first span without
\* a test (thread-cache.cpp:50-51) and relies on it.
SpansListedOnce ==
    /\ \A s \in Cut :
         /\ \A l, k \in Listings(s) : l = k
         /\ \A l \in Listings(s) : l[2] = Size2Slot(mem_block_size_[s])
         /\ mem_block_list_[s] # {} => Listings(s) # {}
    /\ \A t \in Thread, slot \in Slots : \A s \in tc_span_lists_[t][slot] :
         s \in Cut \cap lent /\ mem_block_list_[s] # {}
    /\ \A slot \in Slots : cc_span_lists_[slot] \subseteq Cut \cap lent

\* A span is cut exactly while a cache has it: what is in the page cache or on
\* the way there is whole, so that Split always cuts it anew for the next size.
CutWhileLent ==
    \A s \in Spans :
        IF s \in lent
          THEN s \in Cut \/ \E t \in Thread : At(t, "distributed") /\ call[t].span = s
          ELSE s \notin Cut /\ mem_block_num_[s] = 0 /\ mem_block_list_[s] = {}

\* For every block a caller holds the lookup of MyFree, which takes no lock,
\* finds the span the block was cut from: the page in which the block begins
\* may be any page of the span and may have been of other spans before.
LookupFindsBlock ==
    \A b \in live : InNoSystemBlock(b.addr) =>
        LET s == radix_tree_[PageOf(b.addr)] IN
        s \in Cut /\ s \in lent /\ b.addr \in BlocksOf(s)

\* No block is lost for good: when callers hold none and no call is under way,
\* the caches have given all spans back and the system has its pages.
AllReturned ==
    live = {} /\ ~Stopped /\ (\A t \in Thread : OpAt(t, "idle"))
      => lent = {} /\ foreign = {}

\* The mutex of a central list is held exactly by the call between its lock
\* and its unlock, over the whole call of the page cache.
CentralMutexMatchesCalls ==
    \A t \in Thread, slot \in Slots :
        cc_latch[slot] = t <=>
          \/ /\ op[t].at \in {"central search", "central fetch"}
             /\ slot = Size2Slot(CeilMemSize(op[t].size))
          \/ /\ op[t].at \in {"central put", "central release"}
             /\ slot = Size2Slot(op[t].size)

\* No call follows a null pointer or takes other memory for a span.
NothingUndefined == \A t \in Thread : ~OpAt(t, "undefined")

\* MyFree finds a span only for a block that was cut from it: "if there is no
\* span for it the system releases it" (heap-allocator.cpp:65).
SpanFoundIsTheBlocks ==
    \A t \in Thread : OpAt(t, "found") =>
        page_num_[op[t].span] # 0 /\ op[t].block \in BlocksOf(op[t].span)

\* While a caller holds a block of a span the header MyFree will read does not
\* change: the span keeps its pages, its block size and its number of blocks.
HeaderStable ==
    [][\A b \in live \cap live' : InNoSystemBlock(b.addr) =>
         LET s == radix_tree_[PageOf(b.addr)] IN
         /\ mem_block_size_'[s] = mem_block_size_[s]
         /\ mem_block_num_'[s] = mem_block_num_[s]
         /\ page_num_'[s] = page_num_[s]]_vars

\* The mutexes are taken in one order, central list, page list, latch_, and
\* each is given back: once no more calls begin, all that are under way return,
\* unless the process runs out of memory.
NoCallBegins == \A t \in Thread : OpAt(t, "idle") => op'[t].at = "idle"

CallsReturn ==
    <>[][NoCallBegins]_vars
      => <>[](Stopped \/ \A t \in Thread : OpAt(t, "idle"))

-----------------------------------------------------------------------------
(* What callers see: module MemoryService *)

Service == INSTANCE MemoryService WITH
    MemorySize <- NPages * kPageSize,
    calls <- [t \in Thread |->
                IF OpAt(t, "idle") THEN [kind |-> "nothing", size |-> 0]
                ELSE IF t \in Allocating \/ OpAt(t, "killed")
                  THEN [kind |-> "malloc", size |-> op[t].size]
                  ELSE [kind |-> "free", size |-> 0]]

\* MyMalloc and MyFree do what malloc and free promise: no two blocks that
\* callers hold overlap, each is as long as was asked for.
ImplementsMemoryService == Service!Spec
=============================================================================
