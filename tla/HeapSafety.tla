----------------------------- MODULE HeapSafety -----------------------------
(***************************************************************************)
(* Proofs about the whole allocator: where the blocks of a span are, that  *)
(* its page cache makes the steps of module PageCache alone, who holds the *)
(* mutexes of the central cache, and that every step keeps BlockInv: which *)
(* block is free in its list, held by a caller or in a call.  So HeapInv   *)
(* is an invariant.  Then what that means for the callers and the caches,  *)
(* that the allocator implements MemoryService, and that nothing is kept   *)
(* when nothing is held.                                                   *)
(***************************************************************************)
EXTENDS HeapBlocks, SizeProofs, PageCacheProofs

(* Sizes *)

LEMMA SizesTyped ==
  /\ kPageSize \in Nat \ {0} /\ kSpanHeadSize \in Nat \ {0} /\ kMinSize \in Nat \ {0}
  /\ kSmallAlign \in Nat \ {0} /\ kAlign \in Nat \ {0}
  /\ kThreadCacheMaxSize \in Nat /\ kCentralCacheMaxSize \in Int
  /\ kSpanHeadSize < kPageSize /\ NPages \in Nat \ {0} /\ Requests \subseteq Int
<1>1. kCentralCacheMaxSize \in Int
  BY SizesAssumption DEF SizesAssumption, kCentralCacheMaxSize
<1> QED
  BY <1>1, SizesAssumption, HeapAssumption, PageCacheAssumption
     DEF SizesAssumption, HeapAssumption, PageCacheAssumption

\* A block is as long as the request, and not empty.
LEMMA BlockSize ==
  ASSUME NEW r \in Requests
  PROVE  /\ CeilMemSize(r) \in Nat \ {0} /\ CeilMemSize(r) >= r
         /\ MallocRoute(r) # "system" => CeilMemSize(r) \in BlockSizes
         /\ Size2Slot(CeilMemSize(r)) \in Slots
<1>1. r \in Int
  BY SizesTyped
<1>2. CeilMemSize(r) \in Int /\ CeilMemSize(r) >= r /\ CeilMemSize(r) >= kMinSize
  BY <1>1, SizesTyped, RoundUpAtLeast DEF CeilMemSize
<1> QED
  BY <1>2, SizesTyped DEF BlockSizes, Slots

\* Two block sizes have two slots.
LEMMA SlotOfOneSize ==
  ASSUME NEW r \in Requests, NEW q \in Requests,
         Size2Slot(CeilMemSize(r)) = Size2Slot(CeilMemSize(q))
  PROVE  CeilMemSize(r) = CeilMemSize(q)
<1> DEFINE b == CeilMemSize(r)
           c == CeilMemSize(q)
<1>1. IsBlockSize(b) /\ IsBlockSize(c) /\ b \in Int /\ c \in Int
  BY SizesTyped, CeilIsBlockSize, BlockSize
<1> HIDE DEF b, c
<1>2. ASSUME NEW m, NEW n, IsBlockSize(m), IsBlockSize(n),
             Size2Slot(m) = Size2Slot(n)
      PROVE  ~ m < n
  BY <1>2, SlotMonotone
<1>3. ~ b < c /\ ~ c < b
  BY <1>1, <1>2 DEF b, c
<1> QED
  BY <1>1, <1>3 DEF b, c

LEMMA BlockSizesTyped ==
  /\ BlockSizes \subseteq Nat \ {0}
  /\ \A n \in BlockSizes : Size2Slot(n) \in Slots
  BY BlockSize DEF BlockSizes, Slots

\* What a cache cuts is taken back by it.
LEMMA RouteBack ==
  ASSUME NEW r \in Requests, MallocRoute(r) \in {"thread", "central"}
  PROVE  FreeRoute(CeilMemSize(r)) = MallocRoute(r)
  BY CallersAssumption DEF CallersAssumption, RoutesAgree

LEMMA PagesAsked ==
  ASSUME NEW r \in Requests
  PROVE  /\ MallocRoute(r) = "thread" => ThreadPages(CeilMemSize(r)) \in PageNums \cap Lists
         /\ MallocRoute(r) = "central" => CentralPages(CeilMemSize(r)) \in PageNums \cap Lists
  BY PagesAssumption DEF PagesAssumption

-----------------------------------------------------------------------------
(* Addresses *)

\* A block lies in the pages of its span.
LEMMA BlockInSpan ==
  ASSUME NEW s \in Page, NEW n \in Nat, s + n <= NPages, NEW size \in Nat \ {0},
         NEW i \in 0 .. BlockNum(n, size) - 1
  PROVE  LET addr == BlockAddr(s, size, i)
         IN  /\ addr \in Int /\ s * kPageSize + kSpanHeadSize <= addr
             /\ addr + size <= (s + n) * kPageSize
             /\ addr \in Addr /\ PageOf(addr) \in PagesFrom(s, n)
<1> DEFINE P == kPageSize
           H == kSpanHeadSize
           q == BlockNum(n, size)
           addr == BlockAddr(s, size, i)
<1>1. P \in Nat \ {0} /\ H \in Nat /\ s \in Nat /\ NPages \in Nat
  BY SizesTyped DEF Page
<1>2. n * P - H \in Int
  BY <1>1
<1>3. q \in Int /\ size * q <= n * P - H
  BY <1>2, DivBounds DEF BlockNum
<1>4. i \in Nat /\ i < q
  BY <1>3 DEF q
<1>5. addr = s * P + H + i * size
  BY DEF BlockAddr
<1> HIDE DEF q, addr, P, H
<1>6. size * i + size <= size * q
  BY <1>3, <1>4, NextMultiple
<1>7. i * size = size * i /\ i * size \in Nat
  BY <1>4
<1>8. (s + n) * P = s * P + n * P /\ s * P \in Nat /\ n * P \in Nat
  BY <1>1
<1>9. addr \in Nat /\ s * P + H <= addr /\ addr + size <= (s + n) * P
  BY <1>1, <1>3, <1>5, <1>6, <1>7, <1>8
<1>10. (s + n) * P <= NPages * P
  <2>1. P * (s + n) <= P * NPages
    BY <1>1, MultipleMonotone
  <2>2. P * (s + n) = (s + n) * P /\ P * NPages = NPages * P
    BY <1>1
  <2> QED
    BY <2>1, <2>2
<1>11. addr \in Addr
  BY <1>1, <1>8, <1>9, <1>10 DEF Addr, P
<1>12. PageOf(addr) \in Int /\ s <= PageOf(addr) /\ PageOf(addr) < s + n
  <2>1. P * s <= addr /\ addr < P * (s + n)
    BY <1>1, <1>8, <1>9
  <2>2. s \in Int /\ s + n \in Int /\ addr \in Int
    BY <1>1, <1>9
  <2>3. addr \div P \in Int /\ s <= addr \div P /\ addr \div P < s + n
    BY <1>1, <2>1, <2>2, DivIn
  <2> QED
    BY <2>3 DEF PageOf, P
<1> QED
  BY <1>1, <1>9, <1>11, <1>12 DEF PagesFrom, addr, P, H

\* Two blocks of a span do not overlap.
LEMMA BlocksApart ==
  ASSUME NEW s \in Page, NEW size \in Nat \ {0}, NEW i \in Int, NEW j \in Int, i < j
  PROVE  BlockAddr(s, size, i) + size <= BlockAddr(s, size, j)
<1>1. size * i + size <= size * j
  BY NextMultiple
<1>2. i * size = size * i /\ j * size = size * j
  OBVIOUS
<1>3. s * kPageSize + kSpanHeadSize \in Int
  BY SizesTyped DEF Page
<1> QED
  BY <1>1, <1>2, <1>3 DEF BlockAddr

LEMMA SystemAddrFacts ==
  ASSUME NEW p \in Page
  PROVE  SystemAddr(p) \in Addr /\ PageOf(SystemAddr(p)) = p
<1> DEFINE P == kPageSize
           a == SystemAddr(p)
<1>1. P \in Nat \ {0} /\ kSpanHeadSize \in Nat /\ kSpanHeadSize < P /\ p \in Nat
      /\ NPages \in Nat /\ p + 1 <= NPages
  BY SizesTyped DEF Page
<1>2. a = p * P + kSpanHeadSize
  BY DEF SystemAddr
<1> HIDE DEF P, a
<1>3. p * P \in Nat /\ P * p = p * P /\ P * (p + 1) = p * P + P
  BY <1>1
<1>4. P * p <= a /\ a < P * (p + 1) /\ a \in Nat
  BY <1>1, <1>2, <1>3
<1>5. PageOf(a) \in Int /\ p <= PageOf(a) /\ PageOf(a) < p + 1
  <2>1. a \div P \in Int /\ p <= a \div P /\ a \div P < p + 1
    BY <1>1, <1>4, DivIn
  <2> QED
    BY <2>1 DEF PageOf, P
<1>6. P * (p + 1) <= P * NPages
  BY <1>1, MultipleMonotone
<1>7. a \in Addr
  <2>1. P * NPages = NPages * P /\ NPages * P \in Nat
    BY <1>1
  <2> QED
    BY <1>1, <1>4, <1>6, <2>1 DEF Addr, P
<1> QED
  BY <1>1, <1>5, <1>7 DEF a

\* A page of an address is a page.
LEMMA PageOfAddr ==
  ASSUME NEW addr \in Addr
  PROVE  PageOf(addr) \in Page
<1>1. kPageSize \in Nat \ {0} /\ NPages \in Nat /\ NPages * kPageSize = kPageSize * NPages
      /\ kPageSize * 0 = 0
  BY SizesTyped
<1>2. addr \in Int /\ kPageSize * 0 <= addr /\ addr < kPageSize * NPages
  BY <1>1 DEF Addr
<1> QED
  BY <1>1, <1>2, DivIn DEF PageOf, Page

-----------------------------------------------------------------------------
(* How the steps change op and call *)

OpStays(t) == \A u \in Thread \ {t} : op'[u] = op[u]

\* The operation of t and its call of the page cache are t's own.
Moves(t, from, to) ==
    /\ op[t].at = from /\ op'[t].at = to
    /\ OpStays(t) /\ OthersStay(t)
    /\ op' \in [Thread -> OpRecord] /\ call' \in [Thread -> CallRecord]

LEMMA OpGoToStep ==
  ASSUME op \in [Thread -> OpRecord], NEW t \in Thread, NEW label \in OpLabels,
         OpGoTo(t, label)
  PROVE  /\ op' \in [Thread -> OpRecord] /\ OpStays(t)
         /\ op'[t].at = label /\ op'[t].size = op[t].size
         /\ op'[t].block = op[t].block /\ op'[t].span = op[t].span
  BY DEF OpGoTo, OpRecord, OpStays

LEMMA OpSetStep ==
  ASSUME op \in [Thread -> OpRecord], NEW t \in Thread, NEW r \in OpRecord,
         op' = [op EXCEPT ![t] = r]
  PROVE  op' \in [Thread -> OpRecord] /\ OpStays(t) /\ op'[t] = r
  BY DEF OpStays

LEMMA NoOpTyped == NoOp \in OpRecord /\ NoOp.at = "idle" /\ NoOp.size = 0
<1>1. 0 \in Addr
  <2>1. NPages * kPageSize \in Nat \ {0}
    <3>1. kPageSize * 0 + kPageSize <= kPageSize * NPages
      BY SizesTyped, NextMultiple
    <3> QED
      BY <3>1, SizesTyped
  <2> QED
    BY <2>1 DEF Addr
<1> QED
  BY <1>1 DEF NoOp, OpRecord, OpLabels

LEMMA InsideStep ==
  ASSUME TypeInv, NEW t \in Thread, Inside(t)
  PROVE  /\ OthersStay(t) /\ call' \in [Thread -> CallRecord]
         /\ call[t].at \notin {"idle", "distributed", "taken back"}
         /\ call[t].at \in Asking => call'[t].at \in Asking
         /\ call[t].at \in GivingBack => call'[t].at \in GivingBack
         /\ foreign' = foreign
<1> USE DEF TypeInv, At, CallLabels, Asking, GivingBack
<1>1. ASSUME LockListToDistribute(t) \/ ListIsEmpty(t) \/ LockToMap(t) \/ MapFails(t)
             \/ LockListToTakeBack(t) \/ ListHasRoom(t) \/ PutBack(t) \/ LockToUnmap(t)
             \/ UnmapSpan(t)
      PROVE  /\ foreign' = foreign
             /\ \/ call[t].at = "lock list" /\ GoTo(t, "take span")
                \/ call[t].at = "take span" /\ GoTo(t, "lock to map")
                \/ call[t].at = "lock to map" /\ GoTo(t, "map")
                \/ call[t].at = "map" /\ GoTo(t, "killed")
                \/ call[t].at = "lock list to take back" /\ GoTo(t, "put back")
                \/ call[t].at = "put back" /\ GoTo(t, "push")
                \/ call[t].at = "push" /\ GoTo(t, "unlock list")
                \/ call[t].at = "put back" /\ GoTo(t, "unmap")
                \/ call[t].at = "unmap" /\ GoTo(t, "unlock list")
  BY <1>1 DEF LockListToDistribute, ListIsEmpty, LockToMap, MapFails,
              LockListToTakeBack, ListHasRoom, PutBack, LockToUnmap, UnmapSpan
<1>2. CASE LockListToDistribute(t) \/ ListIsEmpty(t) \/ LockToMap(t) \/ MapFails(t)
           \/ LockListToTakeBack(t) \/ ListHasRoom(t) \/ PutBack(t) \/ LockToUnmap(t)
           \/ UnmapSpan(t)
  BY <1>1, <1>2, GoToStep
<1>3. CASE TakeSpan(t)
  <2>1. PICK s \in pc_span_lists_[call[t].page_num] :
          call' = [call EXCEPT ![t].at = "distributed", ![t].span = s]
    BY <1>3 DEF TakeSpan
  <2>2. call[t].at = "take span" /\ foreign' = foreign /\ s \in Page
    BY <1>3 DEF TakeSpan, SharedTyped, LocalsTyped, Working
  <2> QED
    BY <2>1, <2>2, TakeSpanStep
<1>4. CASE MapSpan(t)
  <2>1. PICK s \in MapPlaces(call[t].page_num) :
          call' = [call EXCEPT ![t].at = "register", ![t].span = s, ![t].i = 0]
    BY <1>4 DEF MapSpan
  <2>2. call[t].at = "map" /\ foreign' = foreign /\ s \in Page /\ 0 \in Nat
    BY <1>4 DEF MapSpan, MapPlaces
  <2> QED
    BY <2>1, <2>2, NewSpanStep
<1>5. CASE Register(t)
  <2>1. foreign' = foreign
    BY <1>5 DEF Register
  <2> QED
    BY <1>5, <2>1, RegisterStep
<1>6. CASE EndTakeBack(t)
  <2>1. call[t].at = "unlock list" /\ foreign' = foreign
        /\ call' = [call EXCEPT ![t] = NewCall("taken back", 0, null)]
    BY <1>6 DEF EndTakeBack
  <2> QED
    BY <2>1, NewCallStep
<1> QED
  BY <1>2, <1>3, <1>4, <1>5, <1>6 DEF Inside

LEMMA ReturnStep ==
  ASSUME call \in [Thread -> CallRecord], NEW t \in Thread, Return(t)
  PROVE  /\ OthersStay(t) /\ call' \in [Thread -> CallRecord] /\ call'[t].at = "idle"
         /\ call[t].at \in {"distributed", "taken back"}
  BY NewCallStep DEF Return, Returned, Idle, CallLabels

LEMMA DistributeStep ==
  ASSUME call \in [Thread -> CallRecord], NEW t \in Thread,
         NEW n \in PageNums \cap Lists, DistributeSpan(t, n)
  PROVE  /\ OthersStay(t) /\ call' \in [Thread -> CallRecord]
         /\ call[t].at = "idle" /\ call'[t].at = "lock list"
<1>1. n \in Nat /\ ~ n > kPCSpanListNum
  BY PageCacheAssumption DEF Lists, PageCacheAssumption
<1>2. /\ call[t].at = "idle"
      /\ call' = [call EXCEPT ![t] = NewCall("lock list", n, null)]
  BY <1>1 DEF DistributeSpan, At
<1> QED
  BY <1>1, <1>2, NewCallStep DEF CallLabels

LEMMA TakeBackStep ==
  ASSUME TypeInv, NEW t \in Thread, NEW s, TakeBackSpan(t, s)
  PROVE  /\ OthersStay(t) /\ call' \in [Thread -> CallRecord] /\ s \in lent
         /\ call[t].at = "idle" /\ call'[t].at = "lock list to take back"
<1>1. s \in lent /\ s \in Page \cup {null} /\ page_num_[s] \in Nat /\ call[t].at = "idle"
  <2>1. s \in lent /\ s \in Page /\ page_num_[s] \in Lists /\ call[t].at = "idle"
    BY DEF TakeBackSpan, TypeInv, SharedTyped, At
  <2>2. Lists \subseteq Nat
    BY PageCacheAssumption DEF Lists, PageCacheAssumption
  <2> QED
    BY <2>1, <2>2
<1>2. call' = [call EXCEPT ![t] = NewCall("lock list to take back", page_num_[s], s)]
  BY DEF TakeBackSpan
<1> DEFINE n == page_num_[s]
<1> HIDE DEF n
<1> QED
  BY <1>1, <1>2, NewCallStep DEF CallLabels, TypeInv, n

\* The two ways to change op and nothing else in it.
LEMMA LabelMoves ==
  ASSUME HeapTyped, NEW t \in Thread, NEW from, NEW to \in OpLabels,
         OpAt(t, from), OpGoTo(t, to), OthersStay(t), call' \in [Thread -> CallRecord]
  PROVE  /\ Moves(t, from, to) /\ op'[t].size = op[t].size
         /\ op'[t].block = op[t].block /\ op'[t].span = op[t].span
  BY OpGoToStep DEF HeapTyped, Moves, OpAt

LEMMA EndMoves ==
  ASSUME HeapTyped, NEW t \in Thread, NEW from, OpAt(t, from),
         op' = [op EXCEPT ![t] = NoOp], OthersStay(t), call' \in [Thread -> CallRecord]
  PROVE  Moves(t, from, "idle")
  BY OpSetStep, NoOpTyped DEF HeapTyped, Moves, OpAt

LEMMA CallStays ==
  ASSUME TypeInv, NEW t \in Thread, UNCHANGED call
  PROVE  OthersStay(t) /\ call' \in [Thread -> CallRecord]
  BY DEF TypeInv, OthersStay

Keeps(t) ==
    /\ op'[t].size = op[t].size /\ op'[t].block = op[t].block
    /\ op'[t].span = op[t].span

LEMMA ControlStep ==
  ASSUME TypeInv, HeapTyped, NEW t \in Thread, SizeKnown(t)
  PROVE
  /\ DistributeMem(t) => Moves(t, "thread malloc", "idle") /\ UNCHANGED call
  /\ FetchSpanFromPageCache(t) =>
       /\ Moves(t, "thread malloc", "thread fetch") /\ Keeps(t)
       /\ call[t].at = "idle" /\ call'[t].at = "lock list"
  /\ SpanFetched(t) =>
       /\ Moves(t, "thread fetch", "idle")
       /\ call[t].at = "distributed" /\ call'[t].at = "idle"
  /\ LockCentral(t) =>
       Moves(t, "central malloc", "central search") /\ Keeps(t) /\ UNCHANGED call
  /\ SearchFinds(t) => Moves(t, "central search", "idle") /\ UNCHANGED call
  /\ SearchFails(t) =>
       /\ Moves(t, "central search", "central fetch") /\ Keeps(t)
       /\ call[t].at = "idle" /\ call'[t].at = "lock list"
  /\ CentralFetched(t) =>
       /\ Moves(t, "central fetch", "idle")
       /\ call[t].at = "distributed" /\ call'[t].at = "idle"
  /\ SystemMalloc(t) => Moves(t, "system malloc", "idle") /\ UNCHANGED call
  /\ SystemMallocFails(t) =>
       Moves(t, "system malloc", "killed") /\ Keeps(t) /\ UNCHANGED call
  /\ SystemFree(t) => Moves(t, "system free", "idle") /\ UNCHANGED call
  /\ TakeBackMem(t) => Moves(t, "thread free", "idle") /\ UNCHANGED call
  /\ ReleaseSpanToPageCache(t) =>
       /\ Moves(t, "thread free", "thread release") /\ Keeps(t)
       /\ call[t].at = "idle" /\ call'[t].at = "lock list to take back"
  /\ SpanReleased(t) =>
       /\ Moves(t, "thread release", "idle")
       /\ call[t].at = "taken back" /\ call'[t].at = "idle"
  /\ LockCentralToFree(t) =>
       Moves(t, "central free", "central put") /\ Keeps(t) /\ UNCHANGED call
  /\ TakeBackMemBlock(t) => Moves(t, "central put", "idle") /\ UNCHANGED call
  /\ ReleaseCentralSpan(t) =>
       /\ Moves(t, "central put", "central release") /\ Keeps(t)
       /\ call[t].at = "idle" /\ call'[t].at = "lock list to take back"
  /\ CentralReleased(t) =>
       /\ Moves(t, "central release", "idle")
       /\ call[t].at = "taken back" /\ call'[t].at = "idle"
<1> USE DEF Keeps
<1> DEFINE Typed == call' \in [Thread -> CallRecord]
<1>0. call \in [Thread -> CallRecord]
  BY DEF TypeInv
<1>1. ASSUME DistributeMem(t) PROVE Moves(t, "thread malloc", "idle") /\ UNCHANGED call
  BY <1>1, CallStays, EndMoves DEF DistributeMem, GiveOut, pageCacheVars
<1>2. ASSUME FetchSpanFromPageCache(t)
      PROVE  /\ Moves(t, "thread malloc", "thread fetch") /\ Keeps(t)
             /\ call[t].at = "idle" /\ call'[t].at = "lock list"
  <2> DEFINE n == ThreadPages(CeilMemSize(op[t].size))
  <2>1. /\ OpAt(t, "thread malloc") /\ OpGoTo(t, "thread fetch")
        /\ DistributeSpan(t, n)
    BY <1>2 DEF FetchSpanFromPageCache
  <2>2. n \in PageNums \cap Lists
    BY <2>1, PagesAsked DEF SizeKnown, Asks, OpAt
  <2> HIDE DEF n
  <2>3. OthersStay(t) /\ Typed /\ call[t].at = "idle" /\ call'[t].at = "lock list"
    BY <1>0, <2>1, <2>2, DistributeStep
  <2> QED
    BY <2>1, <2>3, LabelMoves DEF OpLabels
<1>3. ASSUME SpanFetched(t)
      PROVE  /\ Moves(t, "thread fetch", "idle")
             /\ call[t].at = "distributed" /\ call'[t].at = "idle"
  <2>1. OpAt(t, "thread fetch") /\ At(t, "distributed") /\ Return(t)
        /\ op' = [op EXCEPT ![t] = NoOp]
    BY <1>3 DEF SpanFetched, GiveOut
  <2>2. OthersStay(t) /\ Typed /\ call'[t].at = "idle"
    BY <1>0, <2>1, ReturnStep
  <2> QED
    BY <2>1, <2>2, EndMoves DEF At
<1>4. ASSUME LockCentral(t)
      PROVE  Moves(t, "central malloc", "central search") /\ Keeps(t) /\ UNCHANGED call
  <2>1. OpAt(t, "central malloc") /\ OpGoTo(t, "central search") /\ UNCHANGED call
    BY <1>4 DEF LockCentral, pageCacheVars
  <2> QED
    BY <2>1, CallStays, LabelMoves DEF OpLabels
<1>5. ASSUME SearchFinds(t) PROVE Moves(t, "central search", "idle") /\ UNCHANGED call
  BY <1>5, CallStays, EndMoves DEF SearchFinds, GiveOut, pageCacheVars
<1>6. ASSUME SearchFails(t)
      PROVE  /\ Moves(t, "central search", "central fetch") /\ Keeps(t)
             /\ call[t].at = "idle" /\ call'[t].at = "lock list"
  <2> DEFINE n == CentralPages(CeilMemSize(op[t].size))
  <2>1. /\ OpAt(t, "central search") /\ OpGoTo(t, "central fetch")
        /\ DistributeSpan(t, n)
    BY <1>6 DEF SearchFails
  <2>2. n \in PageNums \cap Lists
    BY <2>1, PagesAsked DEF SizeKnown, Asks, OpAt
  <2> HIDE DEF n
  <2>3. OthersStay(t) /\ Typed /\ call[t].at = "idle" /\ call'[t].at = "lock list"
    BY <1>0, <2>1, <2>2, DistributeStep
  <2> QED
    BY <2>1, <2>3, LabelMoves DEF OpLabels
<1>7. ASSUME CentralFetched(t)
      PROVE  /\ Moves(t, "central fetch", "idle")
             /\ call[t].at = "distributed" /\ call'[t].at = "idle"
  <2>1. OpAt(t, "central fetch") /\ At(t, "distributed") /\ Return(t)
        /\ op' = [op EXCEPT ![t] = NoOp]
    BY <1>7 DEF CentralFetched, GiveOut
  <2>2. OthersStay(t) /\ Typed /\ call'[t].at = "idle"
    BY <1>0, <2>1, ReturnStep
  <2> QED
    BY <2>1, <2>2, EndMoves DEF At
<1>8. ASSUME SystemMalloc(t) PROVE Moves(t, "system malloc", "idle") /\ UNCHANGED call
  BY <1>8, CallStays, EndMoves DEF SystemMalloc, GiveOut
<1>9. ASSUME SystemMallocFails(t)
      PROVE  Moves(t, "system malloc", "killed") /\ Keeps(t) /\ UNCHANGED call
  <2>1. OpAt(t, "system malloc") /\ OpGoTo(t, "killed") /\ UNCHANGED call
    BY <1>9 DEF SystemMallocFails, pageCacheVars
  <2> QED
    BY <2>1, CallStays, LabelMoves DEF OpLabels
<1>10. ASSUME SystemFree(t) PROVE Moves(t, "system free", "idle") /\ UNCHANGED call
  BY <1>10, CallStays, EndMoves DEF SystemFree
<1>11. ASSUME TakeBackMem(t) PROVE Moves(t, "thread free", "idle") /\ UNCHANGED call
  BY <1>11, CallStays, EndMoves DEF TakeBackMem, pageCacheVars
<1>12. ASSUME ReleaseSpanToPageCache(t)
       PROVE  /\ Moves(t, "thread free", "thread release") /\ Keeps(t)
              /\ call[t].at = "idle" /\ call'[t].at = "lock list to take back"
  <2>1. /\ OpAt(t, "thread free") /\ OpGoTo(t, "thread release")
        /\ TakeBackSpan(t, op[t].span)
    BY <1>12 DEF ReleaseSpanToPageCache
  <2>2. /\ OthersStay(t) /\ Typed /\ call[t].at = "idle"
        /\ call'[t].at = "lock list to take back"
    BY <2>1, TakeBackStep
  <2> QED
    BY <2>1, <2>2, LabelMoves DEF OpLabels
<1>13. ASSUME SpanReleased(t)
       PROVE  /\ Moves(t, "thread release", "idle")
              /\ call[t].at = "taken back" /\ call'[t].at = "idle"
  <2>1. OpAt(t, "thread release") /\ At(t, "taken back") /\ Return(t)
        /\ op' = [op EXCEPT ![t] = NoOp]
    BY <1>13 DEF SpanReleased
  <2>2. OthersStay(t) /\ Typed /\ call'[t].at = "idle"
    BY <1>0, <2>1, ReturnStep
  <2> QED
    BY <2>1, <2>2, EndMoves DEF At
<1>14. ASSUME LockCentralToFree(t)
       PROVE  Moves(t, "central free", "central put") /\ Keeps(t) /\ UNCHANGED call
  <2>1. OpAt(t, "central free") /\ OpGoTo(t, "central put") /\ UNCHANGED call
    BY <1>14 DEF LockCentralToFree, pageCacheVars
  <2> QED
    BY <2>1, CallStays, LabelMoves DEF OpLabels
<1>15. ASSUME TakeBackMemBlock(t)
       PROVE  Moves(t, "central put", "idle") /\ UNCHANGED call
  BY <1>15, CallStays, EndMoves DEF TakeBackMemBlock, pageCacheVars
<1>16. ASSUME ReleaseCentralSpan(t)
       PROVE  /\ Moves(t, "central put", "central release") /\ Keeps(t)
              /\ call[t].at = "idle" /\ call'[t].at = "lock list to take back"
  <2>1. /\ OpAt(t, "central put") /\ OpGoTo(t, "central release")
        /\ TakeBackSpan(t, op[t].span)
    BY <1>16 DEF ReleaseCentralSpan
  <2>2. /\ OthersStay(t) /\ Typed /\ call[t].at = "idle"
        /\ call'[t].at = "lock list to take back"
    BY <2>1, TakeBackStep
  <2> QED
    BY <2>1, <2>2, LabelMoves DEF OpLabels
<1>17. ASSUME CentralReleased(t)
       PROVE  /\ Moves(t, "central release", "idle")
              /\ call[t].at = "taken back" /\ call'[t].at = "idle"
  <2>1. OpAt(t, "central release") /\ At(t, "taken back") /\ Return(t)
        /\ op' = [op EXCEPT ![t] = NoOp]
    BY <1>17 DEF CentralReleased
  <2>2. OthersStay(t) /\ Typed /\ call'[t].at = "idle"
    BY <1>0, <2>1, ReturnStep
  <2> QED
    BY <2>1, <2>2, EndMoves DEF At
<1> QED
  BY <1>1, <1>2, <1>3, <1>4, <1>5, <1>6, <1>7, <1>8, <1>9, <1>10, <1>11, <1>12,
     <1>13, <1>14, <1>15, <1>16, <1>17

LEMMA MyMallocStep ==
  ASSUME TypeInv, HeapTyped, NEW t \in Thread, NEW r \in Requests, MyMalloc(t, r)
  PROVE  /\ op[t].at = "idle" /\ OpStays(t) /\ op' \in [Thread -> OpRecord]
         /\ op'[t].size = r
         /\ \/ MallocRoute(r) = "thread" /\ op'[t].at = "thread malloc"
            \/ MallocRoute(r) = "central" /\ op'[t].at = "central malloc"
            \/ MallocRoute(r) = "system" /\ op'[t].at = "system malloc"
         /\ UNCHANGED call
<1> DEFINE label == CASE MallocRoute(r) = "thread" -> "thread malloc"
                      [] MallocRoute(r) = "central" -> "central malloc"
                      [] MallocRoute(r) = "system" -> "system malloc"
           new == [NoOp EXCEPT !.at = label, !.size = r]
<1>1. MallocRoute(r) \in {"thread", "central", "system"}
  BY DEF MallocRoute, Dispatch
<1>2. \/ MallocRoute(r) = "thread" /\ label = "thread malloc"
      \/ MallocRoute(r) = "central" /\ label = "central malloc"
      \/ MallocRoute(r) = "system" /\ label = "system malloc"
  BY <1>1
<1>3. label \in OpLabels
  BY <1>2 DEF OpLabels
<1>4. /\ op[t].at = "idle" /\ op' = [op EXCEPT ![t] = new] /\ UNCHANGED call
  BY DEF MyMalloc, OpAt, pageCacheVars
<1> HIDE DEF label
<1>5. r \in Int /\ new \in OpRecord /\ new.at = label /\ new.size = r
  BY <1>3, NoOpTyped, SizesTyped DEF OpRecord
<1> HIDE DEF new
<1>6. op' \in [Thread -> OpRecord] /\ OpStays(t) /\ op'[t] = new
  BY <1>4, <1>5, OpSetStep DEF HeapTyped
<1> QED
  BY <1>2, <1>4, <1>5, <1>6

LEMMA MyFreeStep ==
  ASSUME TypeInv, HeapTyped, NEW t \in Thread, NEW b \in live, MyFree(t, b)
  PROVE  /\ op[t].at = "idle" /\ OpStays(t) /\ op' \in [Thread -> OpRecord]
         /\ op'[t].block = b.addr /\ op'[t].span = Lookup(b.addr)
         /\ op'[t].at = IF ~HasNode(PageOf(b.addr)) THEN "undefined"
                        ELSE IF Lookup(b.addr) = null THEN "system free" ELSE "found"
         /\ live' = live \ {b}
         /\ UNCHANGED <<pageCacheVars, spanVars, cacheVars, system_pages>>
<1> DEFINE span == Lookup(b.addr)
           label == IF ~HasNode(PageOf(b.addr)) THEN "undefined"
                    ELSE IF span = null THEN "system free" ELSE "found"
           new == [NoOp EXCEPT !.at = label, !.size = b.size, !.block = b.addr,
                               !.span = span]
<1>1. b.addr \in Addr /\ b.size \in Int
  BY SizesTyped DEF HeapTyped, Holding
<1>2. span \in Page \cup {null}
  BY <1>1, PageOfAddr DEF Lookup, TypeInv, SharedTyped
<1>3. label \in OpLabels
  BY DEF OpLabels
<1>4. /\ op[t].at = "idle" /\ op' = [op EXCEPT ![t] = new] /\ live' = live \ {b}
      /\ UNCHANGED <<pageCacheVars, spanVars, cacheVars, system_pages>>
  BY DEF MyFree, OpAt, Lookup
<1> HIDE DEF label, span
<1>5. new \in OpRecord /\ new.at = label /\ new.block = b.addr /\ new.span = span
  BY <1>1, <1>2, <1>3, NoOpTyped DEF OpRecord
<1> HIDE DEF new
<1>6. op' \in [Thread -> OpRecord] /\ OpStays(t) /\ op'[t] = new
  BY <1>4, <1>5, OpSetStep DEF HeapTyped
<1> QED
  BY <1>4, <1>5, <1>6 DEF label, span

LEMMA FoundSpanStep ==
  ASSUME HeapTyped, NEW t \in Thread, FoundSpan(t), op[t].span \in Page
  PROVE  LET s == op[t].span
             route == FreeRoute(mem_block_size_[s])
         IN
         /\ op[t].at = "found" /\ OpStays(t) /\ op' \in [Thread -> OpRecord]
         /\ \/ /\ op'[t].at = "undefined"
               /\ ~ /\ page_num_[s] # 0 /\ op[t].block \in BlocksOf(s)
                    /\ route = "thread" => tls_thread_cache[t]
            \/ /\ page_num_[s] # 0 /\ op[t].block \in BlocksOf(s)
               /\ \/ /\ route = "thread" /\ op'[t].at = "thread free"
                     /\ op'[t].block = op[t].block /\ op'[t].span = s
                  \/ /\ route = "central" /\ op'[t].at = "central free"
                     /\ op'[t].block = op[t].block /\ op'[t].span = s
                     /\ op'[t].size = mem_block_size_[s]
                  \/ route = "nothing" /\ op'[t].at = "idle"
         /\ UNCHANGED <<pageCacheVars, spanVars, cacheVars, system_pages, live>>
<1> DEFINE s == op[t].span
           size == mem_block_size_[s]
           route == FreeRoute(size)
           defined == /\ page_num_[s] # 0
                      /\ op[t].block \in BlocksOf(s)
                      /\ route = "thread" => tls_thread_cache[t]
           old == op[t]
           lost == [old EXCEPT !.at = "undefined"]
           toThread == [old EXCEPT !.at = "thread free"]
           toCentral == [old EXCEPT !.at = "central free", !.size = size]
<1>1. route \in {"thread", "central", "nothing"}
  BY DEF FreeRoute, Dispatch
<1>2. op[t].at = "found"
      /\ UNCHANGED <<pageCacheVars, spanVars, cacheVars, system_pages, live>>
  BY DEF FoundSpan, OpAt
<1>3. op' = [op EXCEPT ![t] =
               IF ~defined THEN lost
               ELSE CASE route = "thread" -> toThread
                      [] route = "central" -> toCentral
                      [] route = "nothing" -> NoOp]
  BY DEF FoundSpan
<1>4. size \in Int
  <2>1. size \in BlockSizes \cup {-1}
    BY DEF HeapTyped
  <2>2. BlockSizes \subseteq Int
    BY BlockSizesTyped
  <2>3. -1 \in Int
    OBVIOUS
  <2> HIDE DEF size
  <2> QED
    BY <2>1, <2>2, <2>3
<1>5. old \in OpRecord
  BY DEF HeapTyped
<1>6. /\ lost \in OpRecord /\ lost.at = "undefined"
      /\ toThread \in OpRecord /\ toThread.at = "thread free"
      /\ toThread.block = old.block /\ toThread.span = s
  BY <1>5 DEF OpRecord, OpLabels
<1>7. /\ toCentral \in OpRecord /\ toCentral.at = "central free"
      /\ toCentral.block = old.block /\ toCentral.span = s /\ toCentral.size = size
  <2>1. s = old.span
    OBVIOUS
  <2> HIDE DEF old, size, s
  <2> QED
    BY <1>4, <1>5, <2>1 DEF OpRecord, OpLabels
<1> HIDE DEF lost, toThread, toCentral, route, defined, size
<1>8. \/ ~defined /\ op' = [op EXCEPT ![t] = lost]
      \/ defined /\ route = "thread" /\ op' = [op EXCEPT ![t] = toThread]
      \/ defined /\ route = "central" /\ op' = [op EXCEPT ![t] = toCentral]
      \/ defined /\ route = "nothing" /\ op' = [op EXCEPT ![t] = NoOp]
  BY <1>1, <1>3
<1>9. CASE ~defined /\ op' = [op EXCEPT ![t] = lost]
  <2>1. op' \in [Thread -> OpRecord] /\ OpStays(t) /\ op'[t] = lost
    BY <1>9, <1>6, OpSetStep DEF HeapTyped
  <2> QED
    BY <1>2, <1>6, <1>9, <2>1 DEF defined, route, size
<1>10. CASE defined /\ route = "thread" /\ op' = [op EXCEPT ![t] = toThread]
  <2>1. op' \in [Thread -> OpRecord] /\ OpStays(t) /\ op'[t] = toThread
    BY <1>10, <1>6, OpSetStep DEF HeapTyped
  <2> QED
    BY <1>2, <1>6, <1>10, <2>1 DEF defined, route, size
<1>11. CASE defined /\ route = "central" /\ op' = [op EXCEPT ![t] = toCentral]
  <2>1. op' \in [Thread -> OpRecord] /\ OpStays(t) /\ op'[t] = toCentral
    BY <1>11, <1>7, OpSetStep DEF HeapTyped
  <2> QED
    BY <1>2, <1>7, <1>11, <2>1 DEF defined, route, size
<1>12. CASE defined /\ route = "nothing" /\ op' = [op EXCEPT ![t] = NoOp]
  <2>1. op' \in [Thread -> OpRecord] /\ OpStays(t) /\ op'[t] = NoOp
    BY <1>12, NoOpTyped, OpSetStep DEF HeapTyped
  <2> QED
    BY <1>2, NoOpTyped, <1>12, <2>1 DEF defined, route, size
<1> QED
  BY <1>8, <1>9, <1>10, <1>11, <1>12

-----------------------------------------------------------------------------
(* The steps of the page cache in the whole allocator are steps of its own. *)

LEMMA NextCases ==
  ASSUME [Next]_vars
  PROVE  \/ UNCHANGED vars
         \/ \E t \in Thread : \/ \E r \in Requests : MyMalloc(t, r)
                              \/ \E b \in live : MyFree(t, b)
                              \/ Continue(t)
  BY DEF Next, Step, StayStopped

\* mmap and munmap of the third branch are what others map and unmap.
LEMMA SystemStep ==
  ASSUME TypeInv, SpansPartitionMapped, NEW t \in Thread,
         SystemMalloc(t) \/ SystemFree(t)
  PROVE  OthersMap
<1>1. mapped \cap foreign = {} /\ foreign \subseteq Page
  BY DEF TypeInv, SharedTyped, SpansPartitionMapped
<1>2. CASE SystemMalloc(t)
  <2>1. PICK s \in MapPlaces(SystemPages(CeilMemSize(op[t].size))) :
          foreign' = foreign \cup PagesFrom(s, SystemPages(CeilMemSize(op[t].size)))
    BY <1>2 DEF SystemMalloc
  <2>2. PagesFrom(s, SystemPages(CeilMemSize(op[t].size))) \subseteq Page \ mapped
    BY DEF MapPlaces
  <2> QED
    BY <1>1, <1>2, <2>1, <2>2 DEF OthersMap, SystemMalloc
<1>3. CASE SystemFree(t)
  <2>1. foreign' \subseteq foreign
    BY <1>3 DEF SystemFree, UnmapBlock
  <2> QED
    BY <1>1, <1>3, <2>1 DEF OthersMap, SystemFree
<1> QED
  BY <1>2, <1>3

LEMMA PageStep ==
  ASSUME IInv, \A t \in Thread : SizeKnown(t), [Next]_vars
  PROVE  [AnyStep]_pageCacheVars
<1>1. CASE UNCHANGED vars
  BY <1>1 DEF vars
<1>2. ASSUME NEW t \in Thread, NEW r \in Requests, MyMalloc(t, r)
      PROVE  [AnyStep]_pageCacheVars
  BY <1>2 DEF MyMalloc
<1>3. ASSUME NEW t \in Thread, NEW b \in live, MyFree(t, b)
      PROVE  [AnyStep]_pageCacheVars
  BY <1>3 DEF MyFree
<1>4. ASSUME NEW t \in Thread, Continue(t)
      PROVE  [AnyStep]_pageCacheVars
  <2>1. CASE Inside(t)
    BY <2>1 DEF AnyStep
  <2>2. CASE FetchSpanFromPageCache(t) \/ SearchFails(t)
    <3>1. \E n \in PageNums : DistributeSpan(t, n)
      <4>1. /\ FetchSpanFromPageCache(t) =>
                 OpAt(t, "thread malloc") /\ DistributeSpan(t, ThreadPages(CeilMemSize(op[t].size)))
            /\ SearchFails(t) =>
                 OpAt(t, "central search") /\ DistributeSpan(t, CentralPages(CeilMemSize(op[t].size)))
        BY DEF FetchSpanFromPageCache, SearchFails
      <4>2. /\ OpAt(t, "thread malloc") => Asks(t, "thread")
            /\ OpAt(t, "central search") => Asks(t, "central")
        BY DEF SizeKnown, OpAt
      <4>3. /\ OpAt(t, "thread malloc") => ThreadPages(CeilMemSize(op[t].size)) \in PageNums
            /\ OpAt(t, "central search") => CentralPages(CeilMemSize(op[t].size)) \in PageNums
        BY <4>2, PagesAsked DEF Asks
      <4> QED
        BY <2>2, <4>1, <4>3
    <3> QED
      BY <3>1 DEF AnyStep
  <2>3. CASE SpanFetched(t) \/ CentralFetched(t) \/ SpanReleased(t) \/ CentralReleased(t)
    <3>1. Return(t)
      BY <2>3 DEF SpanFetched, CentralFetched, SpanReleased, CentralReleased
    <3> QED
      BY <3>1 DEF AnyStep
  <2>4. CASE ReleaseSpanToPageCache(t) \/ ReleaseCentralSpan(t)
    <3>1. TakeBackSpan(t, op[t].span) /\ op[t].span \in lent
      BY <2>4 DEF ReleaseSpanToPageCache, ReleaseCentralSpan, TakeBackSpan
    <3> QED
      BY <3>1 DEF AnyStep
  <2>5. CASE SystemMalloc(t) \/ SystemFree(t)
    BY <2>5, SystemStep DEF IInv, Places, AnyStep
  <2>6. CASE DistributeMem(t)
    BY <2>6 DEF DistributeMem
  <2>7. CASE LockCentral(t) \/ SearchFinds(t)
    BY <2>7 DEF LockCentral, SearchFinds
  <2>8. CASE SystemMallocFails(t) \/ FoundSpan(t)
    BY <2>8 DEF SystemMallocFails, FoundSpan
  <2>9. CASE TakeBackMem(t) \/ LockCentralToFree(t) \/ TakeBackMemBlock(t)
    BY <2>9 DEF TakeBackMem, LockCentralToFree, TakeBackMemBlock
  <2> QED
    BY <1>4, <2>1, <2>2, <2>3, <2>4, <2>5, <2>6, <2>7, <2>8, <2>9 DEF Continue
<1> QED
  BY <1>1, <1>2, <1>3, <1>4, NextCases

-----------------------------------------------------------------------------
(* What the calls know *)

LEMMA OthersKnowTheirCalls ==
  ASSUME NEW t \in Thread, OpStays(t), OthersStay(t),
         \A u \in Thread : CallsPageCache(u) /\ SizeKnown(u),
         CallsPageCache(t)', SizeKnown(t)'
  PROVE  \A u \in Thread : CallsPageCache(u)' /\ SizeKnown(u)'
<1> SUFFICES ASSUME NEW u \in Thread \ {t} PROVE CallsPageCache(u)' /\ SizeKnown(u)'
  OBVIOUS
<1>1. op'[u] = op[u] /\ call'[u] = call[u] /\ CallsPageCache(u) /\ SizeKnown(u)
  BY DEF OpStays, OthersStay
<1> QED
  BY <1>1 DEF CallsPageCache, SizeKnown, Fetching, Releasing, Asks

LEMMA CallsStep ==
  ASSUME IInv, HeapInv, [Next]_vars
  PROVE  \A t \in Thread : CallsPageCache(t)' /\ SizeKnown(t)'
<1> DEFINE Goal == \A t \in Thread : CallsPageCache(t)' /\ SizeKnown(t)'
<1>0. TypeInv /\ HeapTyped /\ \A t \in Thread : CallsPageCache(t) /\ SizeKnown(t)
  BY DEF IInv, HeapInv
<1>1. CASE UNCHANGED vars
  <2>1. op' = op /\ call' = call
    BY <1>1 DEF vars, heapVars, pageCacheVars
  <2> QED
    BY <1>0, <2>1 DEF CallsPageCache, SizeKnown, Fetching, Releasing, Asks
<1>2. ASSUME NEW t \in Thread, NEW r \in Requests, MyMalloc(t, r) PROVE Goal
  <2>1. OthersStay(t) /\ CallsPageCache(t)
    BY <1>0, <1>2, CallStays, MyMallocStep
  <2>2. CallsPageCache(t)' /\ SizeKnown(t)'
    BY <1>0, <1>2, <2>1, MyMallocStep
       DEF CallsPageCache, SizeKnown, Fetching, Releasing, Asks
  <2> QED
    BY <1>0, <1>2, <2>1, <2>2, MyMallocStep, OthersKnowTheirCalls
<1>3. ASSUME NEW t \in Thread, NEW b \in live, MyFree(t, b) PROVE Goal
  <2>1. OthersStay(t) /\ CallsPageCache(t) /\ UNCHANGED call
    BY <1>0, <1>3, CallStays, MyFreeStep DEF pageCacheVars
  <2>2. CallsPageCache(t)' /\ SizeKnown(t)'
    BY <1>0, <1>3, <2>1, MyFreeStep
       DEF CallsPageCache, SizeKnown, Fetching, Releasing, Asks
  <2> QED
    BY <1>0, <1>3, <2>1, <2>2, MyFreeStep, OthersKnowTheirCalls
<1>4. ASSUME NEW t \in Thread, Continue(t) PROVE Goal
  <2>0. CallsPageCache(t) /\ SizeKnown(t)
    BY <1>0
  <2>1. CASE Inside(t) /\ UNCHANGED heapVars
    <3>1. op' = op /\ OpStays(t)
      BY <2>1 DEF heapVars, OpStays
    <3>2. CallsPageCache(t)' /\ SizeKnown(t)'
      BY <1>0, <2>0, <2>1, <3>1, InsideStep
         DEF CallsPageCache, SizeKnown, Fetching, Releasing, Asks
    <3> QED
      BY <1>0, <2>1, <3>1, <3>2, InsideStep, OthersKnowTheirCalls
  <2>2. CASE FoundSpan(t)
    <3>1. /\ op[t].span \in Page /\ mem_block_size_[op[t].span] \in BlockSizes \cup {-1}
          /\ mem_block_size_[op[t].span] = -1 => op[t].block \notin BlocksOf(op[t].span)
      <4>1. op[t].span \in Page
        BY <2>2 DEF HeapInv, BlockInv, FreedBlock, FoundSpan
      <4>2. mem_block_size_[op[t].span] = -1 => mem_block_num_[op[t].span] = 0
        BY <4>1 DEF HeapInv, BlockInv, SpansCut, IsCut
      <4>3. 0 .. 0 - 1 = {}
        OBVIOUS
      <4> QED
        BY <1>0, <4>1, <4>2, <4>3 DEF HeapTyped, BlocksOf, Blocks
    <3>2. OthersStay(t) /\ UNCHANGED call
      BY <1>0, <2>2, <3>1, CallStays, FoundSpanStep DEF pageCacheVars
    <3>3. /\ op[t].at = "found" /\ op'[t].at \in {"undefined", "thread free", "central free", "idle"}
          /\ op'[t].at = "central free" => op'[t].size \in BlockSizes
      BY <1>0, <2>2, <3>1, FoundSpanStep
    <3>4. CallsPageCache(t)' /\ SizeKnown(t)'
      BY <2>0, <3>2, <3>3
         DEF CallsPageCache, SizeKnown, Fetching, Releasing, Asks
    <3> QED
      BY <1>0, <2>2, <3>1, <3>2, <3>4, FoundSpanStep, OthersKnowTheirCalls
  <2>3. ASSUME NEW from, NEW to, Moves(t, from, to), Keeps(t) \/ to = "idle",
               \/ UNCHANGED call /\ from \notin {"thread fetch", "central fetch",
                                        "thread release", "central release"}
                                 /\ to \notin {"thread fetch", "central fetch",
                                        "thread release", "central release"}
               \/ call'[t].at = "lock list" /\ to \in {"thread fetch", "central fetch"}
               \/ call'[t].at = "lock list to take back"
                    /\ to \in {"thread release", "central release"}
               \/ call'[t].at = "idle" /\ to = "idle",
               \/ from = "thread malloc" /\ to = "thread fetch"
               \/ from \in {"central malloc", "central search"}
                    /\ to \in {"central search", "central fetch"}
               \/ from \in {"central free", "central put"}
                    /\ to \in {"central put", "central release"}
               \/ to \in {"idle", "killed", "thread release"}
        PROVE  Goal
    <3>1. op[t].at = from /\ op'[t].at = to /\ OpStays(t) /\ OthersStay(t)
      BY <2>3 DEF Moves
    <3>2. CallsPageCache(t)'
      BY <2>0, <2>3, <3>1 DEF CallsPageCache, Fetching, Releasing, Asking, GivingBack
    <3>3. SizeKnown(t)'
      BY <2>0, <2>3, <3>1 DEF SizeKnown, Asks, Keeps
    <3> QED
      BY <1>0, <3>1, <3>2, <3>3, OthersKnowTheirCalls
  <2>4. CASE DistributeMem(t) \/ SearchFinds(t) \/ SystemMalloc(t) \/ SystemFree(t)
             \/ TakeBackMem(t) \/ TakeBackMemBlock(t)
    <3>1. \E from \in {"thread malloc", "central search", "system malloc",
                       "system free", "thread free", "central put"} :
            Moves(t, from, "idle") /\ UNCHANGED call
      BY <1>0, <2>0, <2>4, ControlStep
    <3> QED
      BY <2>3, <3>1
  <2>5. CASE SpanFetched(t) \/ CentralFetched(t) \/ SpanReleased(t) \/ CentralReleased(t)
    <3>1. \E from : Moves(t, from, "idle") /\ call'[t].at = "idle"
      BY <1>0, <2>0, <2>5, ControlStep
    <3> QED
      BY <2>3, <3>1
  <2>6. CASE FetchSpanFromPageCache(t) \/ SearchFails(t)
    <3>1. /\ call'[t].at = "lock list" /\ Keeps(t)
          /\ \/ Moves(t, "thread malloc", "thread fetch")
             \/ Moves(t, "central search", "central fetch")
      BY <1>0, <2>0, <2>6, ControlStep
    <3> QED
      BY <2>3, <3>1
  <2>7. CASE ReleaseSpanToPageCache(t) \/ ReleaseCentralSpan(t)
    <3>1. /\ call'[t].at = "lock list to take back" /\ Keeps(t)
          /\ \/ Moves(t, "thread free", "thread release")
             \/ Moves(t, "central put", "central release")
      BY <1>0, <2>0, <2>7, ControlStep
    <3> QED
      BY <2>3, <3>1
  <2>8. CASE LockCentral(t) \/ LockCentralToFree(t) \/ SystemMallocFails(t)
    <3>1. /\ UNCHANGED call /\ Keeps(t)
          /\ \/ Moves(t, "central malloc", "central search")
             \/ Moves(t, "central free", "central put")
             \/ Moves(t, "system malloc", "killed")
      BY <1>0, <2>0, <2>8, ControlStep
    <3> QED
      BY <2>3, <3>1
  <2> QED
    BY <1>4, <2>1, <2>2, <2>4, <2>5, <2>6, <2>7, <2>8 DEF Continue
<1> QED
  BY <1>1, <1>2, <1>3, <1>4, NextCases

-----------------------------------------------------------------------------
(* The mutexes of the central cache *)

\* Thread t is between the lock and the unlock of the list.
Inner(t, slot) ==
    \/ /\ op[t].at \in {"central search", "central fetch"}
       /\ slot = Size2Slot(CeilMemSize(op[t].size))
    \/ /\ op[t].at \in {"central put", "central release"}
       /\ slot = Size2Slot(op[t].size)

LEMMA CentralMutex ==
  CentralMutexMatchesCalls <=>
    \A t \in Thread, slot \in Slots : cc_latch[slot] = t <=> Inner(t, slot)
  BY DEF CentralMutexMatchesCalls, Inner

LEMMA OthersInner ==
  ASSUME NEW t \in Thread, OpStays(t)
  PROVE  \A u \in Thread \ {t}, slot \in Slots : Inner(u, slot)' <=> Inner(u, slot)
  BY DEF OpStays, Inner

LEMMA CentralQuiet ==
  ASSUME CentralMutexMatchesCalls, NEW t \in Thread, OpStays(t), cc_latch' = cc_latch,
         \A slot \in Slots : Inner(t, slot)' <=> Inner(t, slot)
  PROVE  CentralMutexMatchesCalls'
<1>1. \A u \in Thread, slot \in Slots : Inner(u, slot)' <=> Inner(u, slot)
  BY OthersInner
<1>2. \A u \in Thread, slot \in Slots : cc_latch'[slot] = u <=> Inner(u, slot)'
  BY <1>1, CentralMutex
<1> QED
  BY <1>2 DEF CentralMutexMatchesCalls, Inner

LEMMA CentralLocks ==
  ASSUME HeapTyped, CentralMutexMatchesCalls, NEW t \in Thread, OpStays(t),
         NEW m \in Slots, LockSlot(m, t),
         \A slot \in Slots : ~Inner(t, slot) /\ (Inner(t, slot)' <=> slot = m)
  PROVE  CentralMutexMatchesCalls'
<1>1. t # nobody /\ \A u \in Thread : u # nobody
  BY PageCacheAssumption DEF PageCacheAssumption
<1>2. cc_latch[m] = nobody /\ cc_latch' = [cc_latch EXCEPT ![m] = t]
  BY DEF LockSlot
<1>3. \A slot \in Slots : cc_latch'[slot] = IF slot = m THEN t ELSE cc_latch[slot]
  BY <1>2 DEF HeapTyped
<1>4. \A u \in Thread, slot \in Slots : cc_latch[slot] = u <=> Inner(u, slot)
  BY CentralMutex
<1>5. ASSUME NEW u \in Thread, NEW slot \in Slots
      PROVE  cc_latch'[slot] = u <=> Inner(u, slot)'
  <2>1. CASE u = t
    BY <1>1, <1>2, <1>3, <1>4, <2>1
  <2>2. CASE u # t
    <3>1. Inner(u, slot)' <=> Inner(u, slot)
      BY <2>2, OthersInner
    <3> QED
      BY <1>1, <1>2, <1>3, <1>4, <2>2, <3>1
  <2> QED
    BY <2>1, <2>2
<1> QED
  BY <1>5 DEF CentralMutexMatchesCalls, Inner

LEMMA CentralUnlocks ==
  ASSUME HeapTyped, CentralMutexMatchesCalls, NEW t \in Thread, OpStays(t),
         NEW m \in Slots, UnlockSlot(m),
         \A slot \in Slots : (Inner(t, slot) <=> slot = m) /\ ~Inner(t, slot)'
  PROVE  CentralMutexMatchesCalls'
<1>1. \A u \in Thread : u # nobody
  BY PageCacheAssumption DEF PageCacheAssumption
<1>2. \A slot \in Slots : cc_latch'[slot] = IF slot = m THEN nobody ELSE cc_latch[slot]
  BY DEF HeapTyped, UnlockSlot
<1>3. \A u \in Thread, slot \in Slots : cc_latch[slot] = u <=> Inner(u, slot)
  BY CentralMutex
<1>4. ASSUME NEW u \in Thread, NEW slot \in Slots
      PROVE  cc_latch'[slot] = u <=> Inner(u, slot)'
  <2>1. CASE u = t
    BY <1>1, <1>2, <1>3, <2>1
  <2>2. CASE u # t
    <3>1. Inner(u, slot)' <=> Inner(u, slot)
      BY <2>2, OthersInner
    <3>2. cc_latch[m] = t
      BY <1>3
    <3> QED
      BY <1>1, <1>2, <1>3, <2>2, <3>1, <3>2
  <2> QED
    BY <2>1, <2>2
<1> QED
  BY <1>4 DEF CentralMutexMatchesCalls, Inner

LEMMA CentralStep ==
  ASSUME IInv, HeapInv, [Next]_vars
  PROVE  CentralMutexMatchesCalls'
<1>0. /\ TypeInv /\ HeapTyped /\ CentralMutexMatchesCalls
      /\ \A t \in Thread : SizeKnown(t)
  BY DEF IInv, HeapInv
<1>1. CASE UNCHANGED vars
  <2>1. op' = op /\ cc_latch' = cc_latch
    BY <1>1 DEF vars, heapVars, cacheVars
  <2> QED
    BY <1>0, <2>1 DEF CentralMutexMatchesCalls
<1>2. ASSUME NEW t \in Thread, NEW r \in Requests, MyMalloc(t, r)
      PROVE  CentralMutexMatchesCalls'
  <2>1. cc_latch' = cc_latch
    BY <1>2 DEF MyMalloc
  <2>2. \A slot \in Slots : ~Inner(t, slot) /\ ~Inner(t, slot)'
    BY <1>0, <1>2, MyMallocStep DEF Inner
  <2> QED
    BY <1>0, <1>2, <2>1, <2>2, MyMallocStep, CentralQuiet
<1>3. ASSUME NEW t \in Thread, NEW b \in live, MyFree(t, b)
      PROVE  CentralMutexMatchesCalls'
  <2>1. cc_latch' = cc_latch
    BY <1>0, <1>3, MyFreeStep DEF cacheVars
  <2>2. \A slot \in Slots : ~Inner(t, slot) /\ ~Inner(t, slot)'
    BY <1>0, <1>3, MyFreeStep DEF Inner
  <2> QED
    BY <1>0, <1>3, <2>1, <2>2, MyFreeStep, CentralQuiet
<1>4. ASSUME NEW t \in Thread, Continue(t)
      PROVE  CentralMutexMatchesCalls'
  <2>0. SizeKnown(t)
    BY <1>0
  <2> DEFINE asked == Size2Slot(CeilMemSize(op[t].size))
             back == Size2Slot(op[t].size)
  <2>a. op[t].at \in {"central malloc", "central search", "central fetch"} => asked \in Slots
    BY <2>0, BlockSize DEF SizeKnown, Asks
  <2>b. op[t].at \in {"central free", "central put", "central release"} => back \in Slots
    BY <2>0, BlockSizesTyped DEF SizeKnown
  <2>1. CASE Inside(t) /\ UNCHANGED heapVars
    <3>1. op' = op /\ cc_latch' = cc_latch
      BY <2>1 DEF heapVars, cacheVars
    <3> QED
      BY <1>0, <3>1 DEF CentralMutexMatchesCalls
  <2>2. CASE FoundSpan(t)
    <3>1. op[t].span \in Page
      BY <2>2 DEF HeapInv, BlockInv, FreedBlock, FoundSpan
    <3>2. OpStays(t) /\ cc_latch' = cc_latch
      BY <1>0, <2>2, <3>1, FoundSpanStep DEF cacheVars
    <3>3. \A slot \in Slots : ~Inner(t, slot) /\ ~Inner(t, slot)'
      BY <1>0, <2>2, <3>1, FoundSpanStep DEF Inner
    <3> QED
      BY <1>0, <3>2, <3>3, CentralQuiet
  <2>3. CASE DistributeMem(t) \/ FetchSpanFromPageCache(t) \/ SpanFetched(t)
             \/ SystemMalloc(t) \/ SystemMallocFails(t) \/ SystemFree(t)
             \/ TakeBackMem(t) \/ ReleaseSpanToPageCache(t) \/ SpanReleased(t)
    <3>1. cc_latch' = cc_latch
      BY <2>3 DEF DistributeMem, FetchSpanFromPageCache, SpanFetched, SystemMalloc,
           SystemMallocFails, SystemFree, TakeBackMem, ReleaseSpanToPageCache,
           SpanReleased, cacheVars
    <3>2. OpStays(t) /\ \A slot \in Slots : ~Inner(t, slot) /\ ~Inner(t, slot)'
      BY <1>0, <2>0, <2>3, ControlStep DEF Inner, Moves
    <3> QED
      BY <1>0, <3>1, <3>2, CentralQuiet
  <2>4. CASE LockCentral(t)
    <3>1. Moves(t, "central malloc", "central search") /\ Keeps(t)
      BY <1>0, <2>0, <2>4, ControlStep
    <3>2. LockSlot(asked, t) /\ OpStays(t)
      BY <2>4, <3>1 DEF LockCentral, Moves
    <3>3. \A slot \in Slots : ~Inner(t, slot) /\ (Inner(t, slot)' <=> slot = asked)
      BY <3>1 DEF Inner, Moves, Keeps
    <3> QED
      BY <1>0, <2>a, <3>1, <3>2, <3>3, CentralLocks DEF Moves
  <2>5. CASE LockCentralToFree(t)
    <3>1. Moves(t, "central free", "central put") /\ Keeps(t)
      BY <1>0, <2>0, <2>5, ControlStep
    <3>2. LockSlot(back, t) /\ OpStays(t)
      BY <2>5, <3>1 DEF LockCentralToFree, Moves
    <3>3. \A slot \in Slots : ~Inner(t, slot) /\ (Inner(t, slot)' <=> slot = back)
      BY <3>1 DEF Inner, Moves, Keeps
    <3> QED
      BY <1>0, <2>b, <3>1, <3>2, <3>3, CentralLocks DEF Moves
  <2>6. CASE SearchFinds(t) \/ CentralFetched(t)
    <3>1. op[t].at \in {"central search", "central fetch"} /\ op'[t].at = "idle" /\ OpStays(t)
      BY <1>0, <2>0, <2>6, ControlStep DEF Moves
    <3>2. UnlockSlot(asked)
      BY <2>6 DEF SearchFinds, CentralFetched
    <3>3. \A slot \in Slots : (Inner(t, slot) <=> slot = asked) /\ ~Inner(t, slot)'
      BY <3>1 DEF Inner
    <3> QED
      BY <1>0, <2>a, <3>1, <3>2, <3>3, CentralUnlocks
  <2>7. CASE TakeBackMemBlock(t) \/ CentralReleased(t)
    <3>1. op[t].at \in {"central put", "central release"} /\ op'[t].at = "idle" /\ OpStays(t)
      BY <1>0, <2>0, <2>7, ControlStep DEF Moves
    <3>2. UnlockSlot(back)
      BY <2>7 DEF TakeBackMemBlock, CentralReleased
    <3>3. \A slot \in Slots : (Inner(t, slot) <=> slot = back) /\ ~Inner(t, slot)'
      BY <3>1 DEF Inner
    <3> QED
      BY <1>0, <2>b, <3>1, <3>2, <3>3, CentralUnlocks
  <2>8. CASE SearchFails(t) \/ ReleaseCentralSpan(t)
    <3>1. cc_latch' = cc_latch
      BY <2>8 DEF SearchFails, ReleaseCentralSpan, cacheVars
    <3>2. /\ OpStays(t) /\ Keeps(t)
          /\ \/ op[t].at = "central search" /\ op'[t].at = "central fetch"
             \/ op[t].at = "central put" /\ op'[t].at = "central release"
      BY <1>0, <2>0, <2>8, ControlStep DEF Moves
    <3>3. \A slot \in Slots : Inner(t, slot)' <=> Inner(t, slot)
      BY <3>2 DEF Inner, Keeps
    <3> QED
      BY <1>0, <3>1, <3>2, <3>3, CentralQuiet
  <2> QED
    BY <1>4, <2>1, <2>2, <2>3, <2>4, <2>5, <2>6, <2>7, <2>8 DEF Continue
<1> QED
  BY <1>1, <1>2, <1>3, <1>4, NextCases

-----------------------------------------------------------------------------
(* Spans and the addresses of their blocks *)

LEMMA LentSpan ==
  ASSUME IInv, NEW s \in lent
  PROVE  /\ s \in Page /\ page_num_[s] \in Nat \ {0} /\ s + page_num_[s] <= NPages
         /\ \A p \in PagesOf(s) : p \in mapped \ foreign /\ p \in Page /\ radix_tree_[p] = s
<1>1. TypeInv /\ SpansPartitionMapped /\ SpanInOnePlace /\ RegisteredWhole
  BY DEF IInv, Places
<1>2. s \in Spans
  BY <1>1 DEF SpanInOnePlace
<1>3. s \in Page /\ page_num_[s] \in Nat \ {0} /\ PagesOf(s) \subseteq mapped
  BY <1>1, <1>2, SpanFacts
<1>4. mapped \subseteq Page /\ mapped \cap foreign = {}
  BY <1>1 DEF TypeInv, SharedTyped, SpansPartitionMapped
<1>5. s \in Nat /\ s + page_num_[s] - 1 \in PagesOf(s)
  BY <1>3, SizesTyped DEF PagesOf, PagesFrom, Page
<1>6. s + page_num_[s] - 1 \in Page
  BY <1>3, <1>4, <1>5
<1>7. s + page_num_[s] <= NPages
  BY <1>3, <1>5, <1>6, SizesTyped DEF Page
<1>8. \A p \in PagesOf(s) : radix_tree_[p] = s
  BY <1>1 DEF RegisteredWhole
<1> QED
  BY <1>3, <1>4, <1>7, <1>8

\* No page is in two lent spans.
LEMMA LentSpansApart ==
  ASSUME IInv, NEW s \in lent, NEW z \in lent, NEW p, p \in PagesOf(s), p \in PagesOf(z)
  PROVE  s = z
<1>1. radix_tree_[p] = s /\ radix_tree_[p] = z
  BY LentSpan
<1> QED
  BY <1>1

\* The page in which a block of span s begins.
LEMMA BlockPage ==
  ASSUME IInv, NEW s \in lent, NEW size \in Nat \ {0},
         NEW b \in Blocks(s, size, BlockNum(page_num_[s], size))
  PROVE  b \in Addr /\ PageOf(b) \in PagesOf(s)
<1>1. PICK i \in 0 .. BlockNum(page_num_[s], size) - 1 : b = BlockAddr(s, size, i)
  BY DEF Blocks
<1>2. s \in Page /\ page_num_[s] \in Nat /\ s + page_num_[s] <= NPages
  BY LentSpan
<1>3. b \in Addr /\ PageOf(b) \in PagesFrom(s, page_num_[s])
  BY <1>1, <1>2, BlockInSpan
<1> QED
  BY <1>3 DEF PagesOf

\* What is known of a span that is cut.
LEMMA CutSpan ==
  ASSUME IInv, HeapTyped, SpansCut, NEW s \in Page, IsCut(s)
  PROVE  /\ s \in lent /\ mem_block_size_[s] \in BlockSizes
         /\ mem_block_size_[s] \in Nat \ {0}
         /\ BlocksOf(s) = Blocks(s, mem_block_size_[s],
                                 BlockNum(page_num_[s], mem_block_size_[s]))
         /\ mem_block_list_[s] \subseteq BlocksOf(s)
         /\ \A b \in BlocksOf(s) : b \in Addr /\ PageOf(b) \in PagesOf(s)
<1> DEFINE size == mem_block_size_[s]
<1>1. /\ s \in lent /\ mem_block_num_[s] = BlockNum(page_num_[s], size)
      /\ mem_block_list_[s] \subseteq BlocksOf(s)
  BY DEF SpansCut
<1>2. size \in BlockSizes
  BY DEF HeapTyped, IsCut
<1>3. size \in Nat \ {0}
  BY <1>2, BlockSizesTyped
<1>4. BlocksOf(s) = Blocks(s, size, BlockNum(page_num_[s], size))
  BY <1>1 DEF BlocksOf
<1>5. \A b \in BlocksOf(s) : b \in Addr /\ PageOf(b) \in PagesOf(s)
  BY <1>1, <1>3, <1>4, BlockPage
<1> QED
  BY <1>1, <1>2, <1>3, <1>4, <1>5

\* The page of a system block is not mapped for a span.
LEMMA SystemPage ==
  ASSUME IInv, HeapTyped, SystemBlocks, NEW p \in Page, system_pages[p] # 0
  PROVE  p \in PagesFrom(p, system_pages[p]) /\ p \in foreign \ mapped
<1>1. system_pages[p] \in Nat \ {0} /\ p \in Int
  BY SizesTyped DEF HeapTyped, Page
<1>2. p \in PagesFrom(p, system_pages[p])
  BY <1>1 DEF PagesFrom
<1>3. p \in foreign
  BY <1>2 DEF SystemBlocks
<1>4. mapped \cap foreign = {}
  BY DEF IInv, Places, SpansPartitionMapped
<1> QED
  BY <1>2, <1>3, <1>4

\* A page of a lent span belongs to no system block.
LEMMA NoSystemBlock ==
  ASSUME IInv, HeapTyped, SystemBlocks, NEW s \in lent, NEW addr, PageOf(addr) \in PagesOf(s)
  PROVE  InNoSystemBlock(addr) /\ Lookup(addr) = s
<1>1. PageOf(addr) \in Page /\ PageOf(addr) \in mapped /\ radix_tree_[PageOf(addr)] = s
  BY LentSpan
<1> QED
  BY <1>1, SystemPage DEF InNoSystemBlock, Lookup

\* What callers and calls have in the pages of a lent span was cut from it.
LEMMA HeldHere ==
  ASSUME IInv, HeapInv, NEW s \in lent, NEW b \in live, PageOf(b.addr) \in PagesOf(s)
  PROVE  /\ CutFrom(b.addr, s) /\ mem_block_size_[s] = CeilMemSize(b.size)
         /\ InNoSystemBlock(b.addr)
<1>1. InNoSystemBlock(b.addr) /\ Lookup(b.addr) = s
  BY NoSystemBlock DEF HeapInv, BlockInv
<1>2. HeldBlock(b)
  BY DEF HeapInv, BlockInv, HeldBlocks
<1> QED
  BY <1>1, <1>2 DEF HeldBlock

LEMMA FreedHere ==
  ASSUME IInv, HeapInv, NEW s \in lent, NEW t \in Thread, Frees(t),
         PageOf(op[t].block) \in PagesOf(s)
  PROVE  Freeing(t) /\ op[t].span = s /\ CutFrom(op[t].block, s)
<1>1. InNoSystemBlock(op[t].block) /\ Lookup(op[t].block) = s
  BY NoSystemBlock DEF HeapInv, BlockInv
<1>2. FreedBlock(t)
  BY DEF HeapInv, BlockInv
<1>3. Freeing(t) /\ CutFrom(op[t].block, op[t].span)
  BY <1>1, <1>2 DEF FreedBlock, Frees, Freeing, OpAt
<1> DEFINE z == op[t].span
<1>4. z \in lent /\ PageOf(op[t].block) \in PagesOf(z)
  BY <1>3, CutSpan DEF CutFrom, HeapInv, BlockInv
<1>5. z = s
  BY <1>4, LentSpansApart
<1> QED
  BY <1>3, <1>5

\* A free block is in nobody's hands.
LEMMA FreeIsNobodys ==
  ASSUME IInv, HeapInv, NEW s \in Page, IsCut(s), NEW b \in mem_block_list_[s]
  PROVE  b \notin LiveAddrs /\ \A t \in Thread : Frees(t) => op[t].block # b
<1>1. s \in lent /\ PageOf(b) \in PagesOf(s)
  BY CutSpan DEF HeapInv, BlockInv
<1>2. b \notin LiveAddrs
  BY <1>1, HeldHere DEF CutFrom, LiveAddrs
<1>3. ASSUME NEW t \in Thread, Frees(t) PROVE op[t].block # b
  BY <1>1, <1>3, FreedHere DEF CutFrom
<1> QED
  BY <1>2, <1>3

\* Nobody has a block in the pages of a span that is whole.
LEMMA WholeIsNobodys ==
  ASSUME IInv, HeapInv, NEW s \in lent, ~IsCut(s), NEW b, PageOf(b) \in PagesOf(s)
  PROVE  b \notin LiveAddrs /\ \A t \in Thread : Frees(t) => op[t].block # b
<1>1. b \notin LiveAddrs
  BY HeldHere DEF CutFrom, LiveAddrs
<1>2. ASSUME NEW t \in Thread, Frees(t) PROVE op[t].block # b
  BY <1>2, FreedHere DEF CutFrom
<1> QED
  BY <1>1, <1>2

-----------------------------------------------------------------------------
(* What a step does to the blocks *)

\* A request is answered with a free block of span s ...
Gives(t, s, b) ==
    /\ op[t].at \in {"thread malloc", "central search"}
    /\ s \in Page /\ IsCut(s) /\ b \in mem_block_list_[s]
    /\ mem_block_size_[s] = CeilMemSize(op[t].size)
    /\ mem_block_list_' = [mem_block_list_ EXCEPT ![s] = @ \ {b}]
    /\ GiveOut(t, b)
    /\ UNCHANGED <<pageCacheVars, mem_block_size_, mem_block_num_, system_pages>>

Fresh(t) ==
    LET s == call[t].span
        size == CeilMemSize(op[t].size)
    IN  Blocks(s, size, BlockNum(page_num_[s], size))

\* ... or with a block of a span that has come whole.
Cuts(t, b) ==
    LET s == call[t].span
        size == CeilMemSize(op[t].size)
    IN  /\ Fetched(t) /\ b \in Fresh(t)
        /\ mem_block_list_' = [mem_block_list_ EXCEPT ![s] = Fresh(t) \ {b}]
        /\ mem_block_size_' = [mem_block_size_ EXCEPT ![s] = size]
        /\ mem_block_num_' = [mem_block_num_ EXCEPT ![s] = BlockNum(page_num_[s], size)]
        /\ GiveOut(t, b) /\ Return(t)
        /\ UNCHANGED system_pages

\* A block goes back to its span ...
PutsBack(t) ==
    /\ op[t].at \in {"thread free", "central put"}
    /\ \/ ~IsFree(op[t].span, BlocksBack(t))
       \/ op[t].at = "thread free" /\ Cardinality(BlocksBack(t)) = 1
    /\ mem_block_list_' = [mem_block_list_ EXCEPT ![op[t].span] = BlocksBack(t)]
    /\ op' = [op EXCEPT ![t] = NoOp]
    /\ UNCHANGED <<pageCacheVars, mem_block_size_, mem_block_num_, system_pages, live>>

\* ... or was its last one, and the span goes back to the page cache.
GivesBack(t) ==
    /\ op[t].at \in {"thread free", "central put"}
    /\ IsFree(op[t].span, BlocksBack(t))
    /\ Merge(op[t].span) /\ TakeBackSpan(t, op[t].span)
    /\ OpStays(t) /\ op'[t].at \in {"thread release", "central release"}
    /\ UNCHANGED <<system_pages, live>>

\* No block and no span moves.
Quiet(t) ==
    /\ UNCHANGED <<lent, radix_tree_, page_num_, mapped, foreign, spanVars,
                   system_pages, live>>
    /\ OpStays(t) /\ OthersStay(t)
    /\ ~Fetched(t) /\ ~Fetched(t)'
    /\ \/ ~Frees(t) /\ ~Frees(t)'
       \/ op[t].at = "central free" /\ op'[t].at = "central put" /\ Keeps(t)

LEMMA StepKinds ==
  ASSUME IInv, HeapInv, NEW t \in Thread, Continue(t)
  PROVE  \/ Inside(t) /\ UNCHANGED heapVars
         \/ \E s, b : Gives(t, s, b)
         \/ \E b : Cuts(t, b)
         \/ PutsBack(t) \/ GivesBack(t) \/ Quiet(t)
         \/ SystemMalloc(t) \/ SystemFree(t) \/ FoundSpan(t)
<1> DEFINE size == CeilMemSize(op[t].size)
           slot == Size2Slot(size)
<1>0. /\ TypeInv /\ HeapTyped /\ SizeKnown(t) /\ CallsPageCache(t) /\ ListInv /\ FetchedWhole
  BY DEF IInv, HeapInv, BlockInv
<1>1. op[t].at \in {"thread malloc", "thread fetch", "central search", "central fetch"}
        => op[t].size \in Requests /\ slot \in Slots
  BY <1>0, BlockSize DEF SizeKnown, Asks
<1>2. ASSUME NEW s \in Page, IsCut(s), slot = Size2Slot(mem_block_size_[s]),
             op[t].size \in Requests
      PROVE  mem_block_size_[s] = size
  <2>1. mem_block_size_[s] \in BlockSizes
    BY <1>0, <1>2 DEF HeapTyped, IsCut
  <2>2. PICK r \in Requests : mem_block_size_[s] = CeilMemSize(r)
    BY <2>1 DEF BlockSizes
  <2> QED
    BY <1>2, <2>2, SlotOfOneSize
<1>3. CASE DistributeMem(t)
  <2>1. PICK s \in tc_span_lists_[t][slot] : \E b \in mem_block_list_[s] :
          /\ mem_block_list_' = [mem_block_list_ EXCEPT ![s] = mem_block_list_[s] \ {b}]
          /\ GiveOut(t, b)
    BY <1>3 DEF DistributeMem, TcList, RemoveBlock
  <2>2. op[t].at = "thread malloc" /\ slot \in Slots /\ op[t].size \in Requests
        /\ UNCHANGED <<pageCacheVars, mem_block_size_, mem_block_num_, system_pages>>
    BY <1>1, <1>3 DEF DistributeMem, OpAt
  <2>3. s \in Page /\ IsCut(s) /\ slot = Size2Slot(mem_block_size_[s])
    <3> HIDE DEF slot
    <3>1. tc_span_lists_[t] \in [Slots -> SUBSET Page]
      BY <1>0 DEF HeapTyped
    <3>2. s \in Page
      BY <2>2, <3>1
    <3>3. IsCut(s) /\ slot = Size2Slot(mem_block_size_[s])
      BY <1>0, <2>2 DEF ListInv
    <3> QED
      BY <3>2, <3>3
  <2>4. mem_block_size_[s] = size
    BY <1>2, <2>2, <2>3
  <2>5. PICK b \in mem_block_list_[s] :
          /\ mem_block_list_' = [mem_block_list_ EXCEPT ![s] = mem_block_list_[s] \ {b}]
          /\ GiveOut(t, b)
    BY <2>1
  <2>6. Gives(t, s, b)
    BY <2>2, <2>3, <2>4, <2>5 DEF Gives
  <2> QED
    BY <2>6
<1>4. CASE SearchFinds(t)
  <2>1. PICK s \in cc_span_lists_[slot] : \E b \in mem_block_list_[s] :
          /\ mem_block_list_' = [mem_block_list_ EXCEPT ![s] = mem_block_list_[s] \ {b}]
          /\ GiveOut(t, b)
    BY <1>4 DEF SearchFinds, RemoveBlock
  <2>2. op[t].at = "central search" /\ slot \in Slots /\ op[t].size \in Requests
        /\ UNCHANGED <<pageCacheVars, mem_block_size_, mem_block_num_, system_pages>>
    BY <1>1, <1>4 DEF SearchFinds, OpAt
  <2>3. s \in Page /\ IsCut(s) /\ slot = Size2Slot(mem_block_size_[s])
    <3> HIDE DEF slot
    <3> QED
      BY <1>0, <2>2 DEF ListInv, HeapTyped
  <2>4. mem_block_size_[s] = size
    BY <1>2, <2>2, <2>3
  <2>5. PICK b \in mem_block_list_[s] :
          /\ mem_block_list_' = [mem_block_list_ EXCEPT ![s] = mem_block_list_[s] \ {b}]
          /\ GiveOut(t, b)
    BY <2>1
  <2>6. Gives(t, s, b)
    BY <2>2, <2>3, <2>4, <2>5 DEF Gives
  <2> QED
    BY <2>6
<1>5. CASE SpanFetched(t) \/ CentralFetched(t)
  <2> DEFINE s == call[t].span
  <2>1. Fetched(t) /\ ~IsCut(s)
    BY <1>0, <1>5 DEF SpanFetched, CentralFetched, Fetched, Fetching, OpAt, FetchedWhole
  <2>2. FreeAfterSplit(s, size) = Fresh(t)
    BY <2>1 DEF FreeAfterSplit, IsCut, Fresh
  <2>3. PICK b \in FreeAfterSplit(s, size) :
          /\ SplitAndKeep(s, size, RemoveBlock(FreeAfterSplit(s, size), b))
          /\ GiveOut(t, b)
    BY <1>5 DEF SpanFetched, CentralFetched
  <2>4. Return(t) /\ UNCHANGED system_pages
    BY <1>5 DEF SpanFetched, CentralFetched
  <2> QED
    BY <2>1, <2>2, <2>3, <2>4 DEF Cuts, SplitAndKeep, RemoveBlock, IsCut
<1>6. CASE TakeBackMem(t) \/ TakeBackMemBlock(t)
  BY <1>6 DEF TakeBackMem, TakeBackMemBlock, PutsBack, OpAt
<1>7. CASE ReleaseSpanToPageCache(t) \/ ReleaseCentralSpan(t)
  <2>1. OpStays(t) /\ op'[t].at \in {"thread release", "central release"}
    BY <1>0, <1>7, ControlStep DEF Moves
  <2> QED
    BY <1>7, <2>1 DEF ReleaseSpanToPageCache, ReleaseCentralSpan, GivesBack, OpAt
<1>8. CASE FetchSpanFromPageCache(t) \/ SearchFails(t)
  <2>1. UNCHANGED <<lent, radix_tree_, page_num_, mapped, foreign, spanVars,
                    system_pages, live>>
    BY <1>8 DEF FetchSpanFromPageCache, SearchFails, DistributeSpan
  <2>2. /\ OpStays(t) /\ OthersStay(t) /\ call[t].at # "distributed"
        /\ call'[t].at # "distributed"
        /\ op[t].at \in {"thread malloc", "central search"}
        /\ op'[t].at \in {"thread fetch", "central fetch"}
    BY <1>0, <1>8, ControlStep DEF Moves
  <2> QED
    BY <2>1, <2>2 DEF Quiet, Fetched, Frees, Freeing, At, OpAt
<1>9. CASE LockCentral(t) \/ SystemMallocFails(t) \/ LockCentralToFree(t)
  <2>1. UNCHANGED <<lent, radix_tree_, page_num_, mapped, foreign, spanVars,
                    system_pages, live>>
    BY <1>9 DEF LockCentral, SystemMallocFails, LockCentralToFree, pageCacheVars
  <2>2. /\ OpStays(t) /\ OthersStay(t) /\ Keeps(t)
        /\ \/ op[t].at = "central malloc" /\ op'[t].at = "central search"
           \/ op[t].at = "system malloc" /\ op'[t].at = "killed"
           \/ op[t].at = "central free" /\ op'[t].at = "central put"
    BY <1>0, <1>9, ControlStep DEF Moves
  <2> QED
    BY <2>1, <2>2 DEF Quiet, Fetched, Fetching, Frees, Freeing, At, OpAt
<1>10. CASE SpanReleased(t) \/ CentralReleased(t)
  <2>1. UNCHANGED <<lent, radix_tree_, page_num_, mapped, foreign, spanVars,
                    system_pages, live>>
    BY <1>10 DEF SpanReleased, CentralReleased, Return
  <2>2. /\ OpStays(t) /\ OthersStay(t)
        /\ op[t].at \in {"thread release", "central release"} /\ op'[t].at = "idle"
    BY <1>0, <1>10, ControlStep DEF Moves
  <2> QED
    BY <2>1, <2>2 DEF Quiet, Fetched, Fetching, Frees, Freeing, At, OpAt
<1> QED
  BY <1>3, <1>4, <1>5, <1>6, <1>7, <1>8, <1>9, <1>10 DEF Continue

LEMMA MyMallocQuiet ==
  ASSUME TypeInv, HeapTyped, NEW t \in Thread, NEW r \in Requests, MyMalloc(t, r)
  PROVE  Quiet(t)
<1>1. UNCHANGED <<lent, radix_tree_, page_num_, mapped, foreign, spanVars,
                  system_pages, live>> /\ UNCHANGED call
  BY DEF MyMalloc, pageCacheVars
<1>2. /\ OpStays(t) /\ OthersStay(t) /\ op[t].at = "idle"
      /\ op'[t].at \in {"thread malloc", "central malloc", "system malloc"}
  BY <1>1, MyMallocStep, CallStays
<1> QED
  BY <1>1, <1>2 DEF Quiet, Fetched, Fetching, Frees, Freeing, At, OpAt

LEMMA OthersSame ==
  ASSUME NEW t \in Thread, OpStays(t), OthersStay(t)
  PROVE  \A u \in Thread \ {t} :
           /\ op'[u] = op[u] /\ call'[u].span = call[u].span
           /\ Fetched(u)' <=> Fetched(u)
           /\ Frees(u)' <=> Frees(u)
           /\ Freeing(u)' <=> Freeing(u)
  BY DEF OpStays, OthersStay, Fetched, Fetching, Frees, Freeing, At, OpAt

LEMMA GiveOutStep ==
  ASSUME HeapTyped, NEW t \in Thread, NEW b, GiveOut(t, b)
  PROVE  /\ op' = [op EXCEPT ![t] = NoOp] /\ OpStays(t) /\ op'[t].at = "idle"
         /\ op' \in [Thread -> OpRecord]
         /\ live' = live \cup {[addr |-> b, size |-> op[t].size, by |-> t]}
         /\ ~Frees(t)' /\ ~Freeing(t)' /\ ~Fetched(t)'
<1>1. /\ op' = [op EXCEPT ![t] = NoOp]
      /\ live' = live \cup {[addr |-> b, size |-> op[t].size, by |-> t]}
  BY DEF GiveOut
<1>2. op' \in [Thread -> OpRecord] /\ OpStays(t) /\ op'[t].at = "idle"
  BY <1>1, NoOpTyped, OpSetStep DEF HeapTyped
<1> QED
  BY <1>1, <1>2 DEF Frees, Freeing, Fetched, Fetching, OpAt

\* What somebody frees stays as it is known to be, if its span does.
LEMMA OtherFreed ==
  ASSUME NEW u \in Thread, op'[u] = op[u], FreedBlock(u),
         NEW a, NEW z, a = op[u].block, z = op[u].span,
         Frees(u) =>
           /\ InNoSystemBlock(a)' <=> InNoSystemBlock(a)
           /\ CutFrom(a, z) =>
                CutFrom(a, z)' /\ mem_block_size_'[z] = mem_block_size_[z]
  PROVE  FreedBlock(u)'
  BY DEF FreedBlock, Frees, Freeing, CutFrom, OpAt, InNoSystemBlock

LEMMA QuietBlocks ==
  ASSUME IInv, HeapInv, NEW t \in Thread, Quiet(t)
  PROVE  BlockInv'
<1>0. BlockInv
  BY DEF HeapInv
<1>1. /\ lent' = lent /\ radix_tree_' = radix_tree_ /\ page_num_' = page_num_
      /\ foreign' = foreign /\ system_pages' = system_pages /\ live' = live
      /\ mem_block_size_' = mem_block_size_ /\ mem_block_num_' = mem_block_num_
      /\ mem_block_list_' = mem_block_list_
  BY DEF Quiet, spanVars
<1>2. \A u \in Thread :
        /\ Fetched(u)' <=> Fetched(u)
        /\ Fetched(u) => call'[u].span = call[u].span
        /\ Frees(u)' <=> Frees(u)
        /\ Freeing(u)' <=> Freeing(u)
        /\ Frees(u) => Keeps(u)
  BY OthersSame DEF Quiet, Frees, Freeing, Keeps, OpAt
<1>3. /\ \A s : IsCut(s)' <=> IsCut(s)
      /\ \A s : BlocksOf(s)' = BlocksOf(s)
      /\ LiveAddrs' = LiveAddrs
  BY <1>1 DEF IsCut, BlocksOf, Blocks, LiveAddrs
<1>4. FetchedWhole' /\ LentSpansKnown'
  BY <1>0, <1>1, <1>2, <1>3 DEF BlockInv, FetchedWhole, LentSpansKnown
<1>5. SpansCut'
  BY <1>0, <1>1, <1>3 DEF BlockInv, SpansCut
<1>6. HeldBlocks'
  BY <1>0, <1>1, <1>3
     DEF BlockInv, HeldBlocks, HeldBlock, InNoSystemBlock, CutFrom, Lookup
<1>7. HeldOnce'
  BY <1>0, <1>1, <1>2, <1>3 DEF BlockInv, HeldOnce, Keeps
<1>8. NoneLost'
  <2>1. BlocksBeingFreed' = BlocksBeingFreed
    BY <1>2 DEF BlocksBeingFreed, Keeps, Frees
  <2> QED
    BY <1>0, <1>1, <1>3, <2>1 DEF BlockInv, NoneLost
<1>9. SystemBlocks'
  BY <1>0, <1>1 DEF BlockInv, SystemBlocks
<1>10. ASSUME NEW u \in Thread PROVE FreedBlock(u)'
  <2>1. FreedBlock(u)
    BY <1>0 DEF BlockInv
  <2>2. \A addr, s : CutFrom(addr, s)' <=> CutFrom(addr, s)
    BY <1>1, <1>3 DEF CutFrom
  <2>3. \A addr : InNoSystemBlock(addr)' <=> InNoSystemBlock(addr)
    BY <1>1 DEF InNoSystemBlock
  <2>4. CASE u # t
    BY <1>1, <2>1, <2>2, <2>3, <2>4, OthersSame
       DEF Quiet, FreedBlock, OpAt, CutFrom, IsCut, InNoSystemBlock
  <2>5. CASE u = t
    BY <1>1, <2>1, <2>2, <2>5
       DEF Quiet, Frees, Freeing, Keeps, FreedBlock, OpAt
  <2> QED
    BY <2>4, <2>5
<1> QED
  BY <1>4, <1>5, <1>6, <1>7, <1>8, <1>9, <1>10 DEF BlockInv

LEMMA GivesBlocks ==
  ASSUME IInv, HeapInv, NEW t \in Thread, NEW s, NEW b, Gives(t, s, b)
  PROVE  BlockInv'
<1>0. BlockInv /\ HeapTyped
  BY DEF HeapInv
<1>n. PICK new : new = [addr |-> b, size |-> op[t].size, by |-> t]
  OBVIOUS
<1>a. /\ s \in Page /\ IsCut(s) /\ b \in mem_block_list_[s]
      /\ mem_block_size_[s] = CeilMemSize(op[t].size)
  BY DEF Gives
<1>1. /\ lent' = lent /\ radix_tree_' = radix_tree_ /\ page_num_' = page_num_
      /\ foreign' = foreign /\ system_pages' = system_pages /\ call' = call
      /\ mem_block_size_' = mem_block_size_ /\ mem_block_num_' = mem_block_num_
      /\ op[t].at \in {"thread malloc", "central search"}
  BY DEF Gives, pageCacheVars
<1>2. \A z \in Page : mem_block_list_'[z] = IF z = s THEN mem_block_list_[s] \ {b}
                                             ELSE mem_block_list_[z]
  BY <1>0, <1>a DEF HeapTyped, Gives
<1>b. new.addr = b /\ new.size = op[t].size /\ new.by = t
  BY <1>n
<1>3. /\ OpStays(t) /\ OthersStay(t) /\ live' = live \cup {new}
      /\ ~Frees(t)' /\ ~Freeing(t)' /\ ~Fetched(t)'
  BY <1>0, <1>1, <1>n, GiveOutStep DEF Gives, OthersStay
<1>4. ~Frees(t) /\ ~Freeing(t) /\ ~Fetched(t)
  BY <1>1 DEF Frees, Freeing, Fetched, Fetching, OpAt
<1>5. /\ \A z : IsCut(z)' <=> IsCut(z)
      /\ \A z : BlocksOf(z)' = BlocksOf(z)
      /\ \A addr : InNoSystemBlock(addr)' <=> InNoSystemBlock(addr)
      /\ \A addr : Lookup(addr)' = Lookup(addr)
  BY <1>1 DEF IsCut, BlocksOf, Blocks, InNoSystemBlock, Lookup
<1>6. LiveAddrs' = LiveAddrs \cup {b}
  BY <1>3, <1>b DEF LiveAddrs
<1>7. \A u \in Thread \ {t} : op'[u] = op[u] /\ (Fetched(u)' <=> Fetched(u))
                           /\ (Frees(u)' <=> Frees(u)) /\ (Freeing(u)' <=> Freeing(u))
  BY <1>3, OthersSame
<1>8. b \notin LiveAddrs /\ \A u \in Thread : Frees(u) => op[u].block # b
  BY <1>a, FreeIsNobodys
<1>9. s \in lent /\ b \in BlocksOf(s) /\ PageOf(b) \in PagesOf(s)
      /\ InNoSystemBlock(b) /\ Lookup(b) = s
  <2>1. s \in lent /\ b \in BlocksOf(s) /\ PageOf(b) \in PagesOf(s)
    BY <1>0, <1>a, CutSpan DEF BlockInv
  <2> QED
    BY <1>0, <2>1, NoSystemBlock DEF BlockInv
<1>10. \A addr, z : CutFrom(addr, z) => CutFrom(addr, z)'
  BY <1>2, <1>5 DEF CutFrom
<1>11. FetchedWhole' /\ LentSpansKnown'
  BY <1>0, <1>1, <1>3, <1>4, <1>5, <1>7 DEF BlockInv, FetchedWhole, LentSpansKnown
<1>12. SpansCut'
  <2>1. ASSUME NEW z \in Page
        PROVE  IF IsCut(z) THEN /\ z \in lent
                                /\ mem_block_num_[z] = BlockNum(page_num_[z], mem_block_size_[z])
                                /\ mem_block_list_'[z] \subseteq BlocksOf(z)
               ELSE mem_block_list_'[z] = {} /\ mem_block_num_[z] = 0
    BY <1>0, <1>a, <1>2 DEF BlockInv, SpansCut
  <2> QED
    BY <1>1, <1>5, <2>1 DEF SpansCut
<1>13. HeldBlocks'
  <2>1. ASSUME NEW c \in live PROVE HeldBlock(c)'
    <3>1. HeldBlock(c)
      BY <1>0 DEF BlockInv, HeldBlocks
    <3> QED
      BY <1>1, <1>5, <1>10, <3>1 DEF HeldBlock
  <2>2. HeldBlock(new)'
    <3>1. CutFrom(b, s)'
      BY <1>a, <1>2, <1>5, <1>9 DEF CutFrom
    <3>2. /\ InNoSystemBlock(new.addr)' /\ Lookup(new.addr)' = s
          /\ mem_block_size_'[s] = CeilMemSize(new.size)
      BY <1>a, <1>b, <1>1, <1>5, <1>9
    <3> QED
      BY <1>b, <3>1, <3>2 DEF HeldBlock
  <2> QED
    BY <1>3, <2>1, <2>2 DEF HeldBlocks
<1>14. HeldOnce'
  <2>1. \A c \in live : c.addr # b
    BY <1>8 DEF LiveAddrs
  <2>2. \A c, d \in live' : c.addr = d.addr => c = d
    BY <1>0, <1>b, <1>3, <2>1 DEF BlockInv, HeldOnce
  <2>3. \A u \in Thread : Frees(u)' => op'[u].block \notin LiveAddrs'
    BY <1>0, <1>3, <1>6, <1>7, <1>8 DEF BlockInv, HeldOnce
  <2>4. \A u, v \in Thread : Frees(u)' /\ Frees(v)' /\ u # v => op'[u].block # op'[v].block
    BY <1>0, <1>3, <1>7 DEF BlockInv, HeldOnce
  <2> QED
    BY <2>2, <2>3, <2>4 DEF HeldOnce
<1>15. NoneLost'
  <2>1. BlocksBeingFreed' = BlocksBeingFreed
    BY <1>3, <1>4, <1>7 DEF BlocksBeingFreed
  <2> QED
    BY <1>0, <1>2, <1>5, <1>6, <2>1 DEF BlockInv, NoneLost
<1>16. SystemBlocks'
  BY <1>0, <1>1 DEF BlockInv, SystemBlocks
<1>17. ASSUME NEW u \in Thread PROVE FreedBlock(u)'
  <2>1. CASE u = t
    BY <1>3, <2>1 DEF Frees, Freeing, FreedBlock, OpAt
  <2>2. CASE u # t
    <3>1. FreedBlock(u) /\ op'[u] = op[u]
      BY <1>0, <1>7, <2>2 DEF BlockInv
    <3> QED
      BY <1>1, <1>5, <1>10, <3>1, OtherFreed
  <2> QED
    BY <2>1, <2>2
<1> QED
  BY <1>11, <1>12, <1>13, <1>14, <1>15, <1>16, <1>17 DEF BlockInv

LEMMA CutsBlocks ==
  ASSUME IInv, HeapInv, NEW t \in Thread, NEW b, Cuts(t, b)
  PROVE  BlockInv'
<1>0. BlockInv /\ HeapTyped /\ TypeInv /\ SizeKnown(t)
  BY DEF HeapInv, IInv
<1>n. PICK new : new = [addr |-> b, size |-> op[t].size, by |-> t]
  OBVIOUS
<1>s. PICK s : s = call[t].span
  OBVIOUS
<1>z. PICK size : size = CeilMemSize(op[t].size)
  OBVIOUS
<1>m. PICK num : num = BlockNum(page_num_[s], size)
  OBVIOUS
<1>f. PICK fresh : fresh = Blocks(s, size, num)
  OBVIOUS
<1>a. Fetched(t) /\ s \in lent /\ ~IsCut(s) /\ s \in Page /\ b \in fresh
  BY <1>0, <1>s, <1>z, <1>m, <1>f, LentSpan DEF Cuts, Fresh, BlockInv, FetchedWhole
<1>b. new.addr = b /\ new.size = op[t].size /\ new.by = t
  BY <1>n
<1>c. size \in BlockSizes /\ size \in Nat \ {0} /\ size # -1
  <2>1. op[t].size \in Requests /\ MallocRoute(op[t].size) # "system"
    BY <1>0, <1>a DEF SizeKnown, Asks, Fetched, Fetching
  <2>2. size \in BlockSizes
    BY <1>z, <2>1, BlockSize
  <2> QED
    BY <2>2, BlockSizesTyped
<1>1. /\ lent' = lent /\ radix_tree_' = radix_tree_ /\ page_num_' = page_num_
      /\ foreign' = foreign /\ system_pages' = system_pages
  BY DEF Cuts, Return
<1>2. \A z \in Page :
        /\ mem_block_list_'[z] = IF z = s THEN fresh \ {b} ELSE mem_block_list_[z]
        /\ mem_block_size_'[z] = IF z = s THEN size ELSE mem_block_size_[z]
        /\ mem_block_num_'[z] = IF z = s THEN num ELSE mem_block_num_[z]
  BY <1>0, <1>s, <1>z, <1>m, <1>f DEF Cuts, Fresh, HeapTyped
<1>3. /\ OpStays(t) /\ OthersStay(t) /\ live' = live \cup {new}
      /\ ~Frees(t)' /\ ~Freeing(t)' /\ ~Fetched(t)'
  BY <1>0, <1>n, GiveOutStep, ReturnStep DEF Cuts, TypeInv
<1>4. ~Frees(t) /\ ~Freeing(t)
  BY <1>a DEF Frees, Freeing, Fetched, Fetching, OpAt
<1>5. /\ \A z \in Page : IsCut(z)' <=> (z = s \/ IsCut(z))
      /\ \A z \in Page : BlocksOf(z)' = IF z = s THEN fresh ELSE BlocksOf(z)
      /\ \A addr : InNoSystemBlock(addr)' <=> InNoSystemBlock(addr)
      /\ \A addr : Lookup(addr)' = Lookup(addr)
  BY <1>1, <1>2, <1>c, <1>f DEF IsCut, BlocksOf, Blocks, InNoSystemBlock, Lookup
<1>6. LiveAddrs' = LiveAddrs \cup {b}
  BY <1>3, <1>b DEF LiveAddrs
<1>7. \A u \in Thread \ {t} :
        /\ op'[u] = op[u] /\ call'[u].span = call[u].span /\ (Fetched(u)' <=> Fetched(u))
        /\ (Frees(u)' <=> Frees(u)) /\ (Freeing(u)' <=> Freeing(u))
  BY <1>3, OthersSame
<1>8. \A x \in fresh : PageOf(x) \in PagesOf(s) /\ InNoSystemBlock(x) /\ Lookup(x) = s
  <2>1. \A x \in fresh : PageOf(x) \in PagesOf(s)
    BY <1>a, <1>c, <1>m, <1>f, BlockPage
  <2> QED
    BY <1>0, <1>a, <2>1, NoSystemBlock DEF BlockInv
<1>9. b \notin LiveAddrs /\ \A u \in Thread : Frees(u) => op[u].block # b
  BY <1>a, <1>8, WholeIsNobodys
<1>10. \A addr, z : CutFrom(addr, z) =>
         CutFrom(addr, z)' /\ mem_block_size_'[z] = mem_block_size_[z]
  BY <1>a, <1>2, <1>5 DEF CutFrom
<1>11. FetchedWhole'
  <2>1. ASSUME NEW u \in Thread, Fetched(u)'
        PROVE  /\ u # t /\ Fetched(u) /\ call'[u].span = call[u].span
               /\ call[u].span \in lent /\ ~IsCut(call[u].span) /\ call[u].span # s
    BY <1>0, <1>3, <1>7, <1>a, <1>s, <2>1 DEF BlockInv, FetchedWhole
  <2>2. ASSUME NEW u \in Thread, Fetched(u)', NEW z, z = call'[u].span
        PROVE  z \in lent' /\ ~IsCut(z)'
    BY <1>1, <1>5, <2>1, <2>2, LentSpan
  <2>3. ASSUME NEW u \in Thread, NEW v \in Thread, Fetched(u)', Fetched(v)', u # v
        PROVE  call'[u].span # call'[v].span
    BY <1>0, <2>1, <2>3 DEF BlockInv, FetchedWhole
  <2> QED
    BY <2>2, <2>3 DEF FetchedWhole
<1>12. SpansCut'
  <2>1. ASSUME NEW z \in Page
        PROVE  IF z = s \/ IsCut(z)
               THEN /\ z \in lent
                    /\ mem_block_num_'[z] = BlockNum(page_num_[z], mem_block_size_'[z])
                    /\ mem_block_list_'[z] \subseteq IF z = s THEN fresh ELSE BlocksOf(z)
               ELSE mem_block_list_'[z] = {} /\ mem_block_num_'[z] = 0
    BY <1>0, <1>a, <1>m, <1>2 DEF BlockInv, SpansCut
  <2> QED
    BY <1>1, <1>5, <2>1 DEF SpansCut
<1>13. LentSpansKnown'
  <2>1. ASSUME NEW z \in lent, z # s, ~IsCut(z)
        PROVE  \E u \in Thread : Fetched(u)' /\ call'[u].span = z
    <3>1. PICK u \in Thread : Fetched(u) /\ call[u].span = z
      BY <1>0, <2>1 DEF BlockInv, LentSpansKnown
    <3>2. u # t
      BY <1>s, <2>1, <3>1
    <3> QED
      BY <1>7, <3>1, <3>2
  <2>2. \A z \in lent : z \in Page
    BY LentSpan
  <2> QED
    BY <1>1, <1>5, <2>1, <2>2 DEF LentSpansKnown
<1>14. HeldBlocks'
  <2>1. ASSUME NEW c \in live PROVE HeldBlock(c)'
    <3>1. HeldBlock(c)
      BY <1>0 DEF BlockInv, HeldBlocks
    <3> QED
      BY <1>1, <1>5, <1>10, <3>1 DEF HeldBlock
  <2>2. HeldBlock(new)'
    <3>1. CutFrom(b, s)'
      BY <1>a, <1>2, <1>5 DEF CutFrom
    <3>2. /\ InNoSystemBlock(new.addr)' /\ Lookup(new.addr)' = s
          /\ mem_block_size_'[s] = CeilMemSize(new.size)
      BY <1>a, <1>b, <1>z, <1>2, <1>5, <1>8
    <3> QED
      BY <1>b, <3>1, <3>2 DEF HeldBlock
  <2> QED
    BY <1>3, <2>1, <2>2 DEF HeldBlocks
<1>15. HeldOnce'
  <2>1. \A c \in live : c.addr # b
    BY <1>9 DEF LiveAddrs
  <2>2. \A c, d \in live' : c.addr = d.addr => c = d
    BY <1>0, <1>b, <1>3, <2>1 DEF BlockInv, HeldOnce
  <2>3. \A u \in Thread : Frees(u)' => op'[u].block \notin LiveAddrs'
    BY <1>0, <1>3, <1>6, <1>7, <1>9 DEF BlockInv, HeldOnce
  <2>4. \A u, v \in Thread : Frees(u)' /\ Frees(v)' /\ u # v => op'[u].block # op'[v].block
    BY <1>0, <1>3, <1>7 DEF BlockInv, HeldOnce
  <2> QED
    BY <2>2, <2>3, <2>4 DEF HeldOnce
<1>16. NoneLost'
  <2>1. BlocksBeingFreed' = BlocksBeingFreed
    BY <1>3, <1>4, <1>7 DEF BlocksBeingFreed
  <2>2. ASSUME NEW z \in Page, z = s \/ IsCut(z)
        PROVE  (IF z = s THEN fresh ELSE BlocksOf(z))
                 \subseteq mem_block_list_'[z] \cup LiveAddrs \cup {b} \cup BlocksBeingFreed
    BY <1>0, <1>2, <2>2 DEF BlockInv, NoneLost
  <2> QED
    BY <1>5, <1>6, <2>1, <2>2 DEF NoneLost
<1>17. SystemBlocks'
  BY <1>0, <1>1 DEF BlockInv, SystemBlocks
<1>18. ASSUME NEW u \in Thread PROVE FreedBlock(u)'
  <2>1. CASE u = t
    BY <1>3, <2>1 DEF Frees, Freeing, FreedBlock, OpAt
  <2>2. CASE u # t
    <3>1. FreedBlock(u) /\ op'[u] = op[u]
      BY <1>0, <1>7, <2>2 DEF BlockInv
    <3> QED
      BY <1>1, <1>5, <1>10, <3>1, OtherFreed
  <2> QED
    BY <2>1, <2>2
<1> QED
  BY <1>11, <1>12, <1>13, <1>14, <1>15, <1>16, <1>17, <1>18 DEF BlockInv

-----------------------------------------------------------------------------
(* The blocks of a span can be counted, and IsFree compares the counts. *)

LEMMA BlockCount ==
  ASSUME NEW s \in Page, NEW size \in Nat \ {0}, NEW num \in Nat
  PROVE  /\ IsFiniteSet(Blocks(s, size, num))
         /\ Cardinality(Blocks(s, size, num)) = num
<1> DEFINE I == 0 .. num - 1
           T == Blocks(s, size, num)
           f == [i \in I |-> BlockAddr(s, size, i)]
<1>1. IsFiniteSet(I) /\ Cardinality(I) = num
  BY FS_Interval
<1>2. f \in Surjection(I, T)
  BY DEF Surjection, Blocks
<1>3. ASSUME NEW i \in I, NEW j \in I, f[i] = f[j] PROVE i = j
  <2>1. /\ BlockAddr(s, size, i) = BlockAddr(s, size, j) /\ i \in Int /\ j \in Int
        /\ BlockAddr(s, size, i) \in Int
    BY <1>3, SizesTyped DEF BlockAddr, Page
  <2>2. /\ i < j => BlockAddr(s, size, i) + size <= BlockAddr(s, size, j)
        /\ j < i => BlockAddr(s, size, j) + size <= BlockAddr(s, size, i)
    BY <2>1, BlocksApart
  <2> HIDE DEF f, I
  <2> QED
    BY <2>1, <2>2
<1>4. f \in Injection(I, T)
  BY <1>2, <1>3 DEF Injection, Surjection, IsInjective
<1> HIDE DEF f, I, T
<1>5. IsFiniteSet(T) /\ Cardinality(T) = Cardinality(I)
  BY <1>1, <1>2, <1>4, FS_Surjection
<1> QED
  BY <1>1, <1>5 DEF T

LEMMA CutCount ==
  ASSUME IInv, HeapTyped, SpansCut, NEW s \in Page, IsCut(s)
  PROVE  /\ IsFiniteSet(BlocksOf(s))
         /\ mem_block_num_[s] \in Nat /\ Cardinality(BlocksOf(s)) = mem_block_num_[s]
<1> DEFINE n == page_num_[s]
           size == mem_block_size_[s]
           a == n * kPageSize - kSpanHeadSize
           q == a \div size
<1>1. s \in lent /\ size \in Nat \ {0} /\ mem_block_num_[s] = BlockNum(n, size)
  BY CutSpan DEF SpansCut
<1>2. n \in Nat \ {0}
  BY <1>1, LentSpan
<1>3. kPageSize \in Nat \ {0} /\ kSpanHeadSize \in Nat /\ kSpanHeadSize < kPageSize
  BY SizesTyped
<1>4. a \in Nat
  <2> HIDE DEF n
  <2>1. kPageSize * 1 <= kPageSize * n
    BY <1>2, <1>3, MultipleMonotone
  <2> QED
    BY <1>2, <1>3, <2>1
<1>5. mem_block_num_[s] = q
  BY <1>1 DEF BlockNum
<1>6. q \in Nat
  <2> HIDE DEF a, size
  <2>1. q \in Int /\ a < size * q + size
    BY <1>1, <1>4, DivBounds
  <2> HIDE DEF q
  <2>2. ~ q < 0
    <3> SUFFICES ASSUME q < 0 PROVE FALSE
      OBVIOUS
    <3>1. size * q + size <= size * 0
      BY <1>1, <2>1, NextMultiple
    <3> QED
      BY <1>1, <1>4, <2>1, <3>1
  <2> QED
    BY <2>1, <2>2
<1> QED
  BY <1>1, <1>5, <1>6, BlockCount DEF BlocksOf

\* A span is free when all its blocks are in its list.
LEMMA AllFree ==
  ASSUME IInv, HeapTyped, SpansCut, NEW s \in Page, IsCut(s),
         NEW free \in SUBSET BlocksOf(s)
  PROVE  IsFiniteSet(free) /\ (IsFree(s, free) <=> free = BlocksOf(s))
<1>1. IsFiniteSet(BlocksOf(s)) /\ Cardinality(BlocksOf(s)) = mem_block_num_[s]
  BY CutCount
<1>2. IsFiniteSet(free) /\ (Cardinality(BlocksOf(s)) = Cardinality(free) => BlocksOf(s) = free)
  BY <1>1, FS_Subset
<1> QED
  BY <1>1, <1>2 DEF IsFree

\* What MyFree knows of the block that it puts back.
LEMMA BlockGoesBack ==
  ASSUME IInv, HeapInv, NEW t \in Thread, op[t].at \in {"thread free", "central put"},
         NEW s, s = op[t].span, NEW a, a = op[t].block
  PROVE  /\ Frees(t) /\ Freeing(t) /\ ~Fetched(t)
         /\ s \in Page /\ IsCut(s) /\ s \in lent
         /\ a \in BlocksOf(s) \ mem_block_list_[s]
         /\ BlocksBack(t) = mem_block_list_[s] \cup {a} /\ BlocksBack(t) \subseteq BlocksOf(s)
         /\ a \notin LiveAddrs
         /\ \A u \in Thread \ {t} : Frees(u) => op[u].block # a
<1>1. BlockInv /\ HeapTyped /\ FreedBlock(t)
  BY DEF HeapInv, BlockInv
<1>2. Frees(t) /\ Freeing(t) /\ ~Fetched(t)
  BY DEF Frees, Freeing, Fetched, Fetching, OpAt
<1>3. s \in Page /\ IsCut(s) /\ a \in BlocksOf(s) \ mem_block_list_[s]
  BY <1>1 DEF FreedBlock, CutFrom
<1>4. s \in lent /\ mem_block_list_[s] \subseteq BlocksOf(s)
  BY <1>1, <1>3, CutSpan DEF BlockInv
<1>5. a \notin LiveAddrs /\ \A u \in Thread \ {t} : Frees(u) => op[u].block # a
  BY <1>1, <1>2 DEF BlockInv, HeldOnce
<1> QED
  BY <1>2, <1>3, <1>4, <1>5 DEF BlocksBack

LEMMA PutsBackBlocks ==
  ASSUME IInv, HeapInv, NEW t \in Thread, PutsBack(t)
  PROVE  BlockInv'
<1>0. BlockInv /\ HeapTyped
  BY DEF HeapInv
<1>s. PICK s : s = op[t].span
  OBVIOUS
<1>p. PICK a : a = op[t].block
  OBVIOUS
<1>a. /\ Frees(t) /\ Freeing(t) /\ ~Fetched(t)
      /\ s \in Page /\ IsCut(s) /\ s \in lent
      /\ a \in BlocksOf(s) \ mem_block_list_[s]
      /\ BlocksBack(t) = mem_block_list_[s] \cup {a}
      /\ a \notin LiveAddrs
      /\ \A u \in Thread \ {t} : Frees(u) => op[u].block # a
  BY <1>s, <1>p, BlockGoesBack DEF PutsBack
<1>1. /\ lent' = lent /\ radix_tree_' = radix_tree_ /\ page_num_' = page_num_
      /\ foreign' = foreign /\ system_pages' = system_pages /\ live' = live
      /\ mem_block_size_' = mem_block_size_ /\ mem_block_num_' = mem_block_num_
      /\ call' = call
  BY DEF PutsBack, pageCacheVars
<1>2. \A z \in Page : mem_block_list_'[z] = IF z = s THEN mem_block_list_[s] \cup {a}
                                             ELSE mem_block_list_[z]
  BY <1>0, <1>a, <1>s DEF PutsBack, HeapTyped
<1>3. /\ OpStays(t) /\ OthersStay(t) /\ ~Frees(t)' /\ ~Freeing(t)' /\ ~Fetched(t)'
  <2>1. OpStays(t) /\ op'[t].at = "idle"
    BY <1>0, NoOpTyped, OpSetStep DEF PutsBack, HeapTyped
  <2> QED
    BY <1>1, <2>1 DEF OthersStay, Frees, Freeing, Fetched, Fetching, OpAt
<1>5. /\ \A z : IsCut(z)' <=> IsCut(z)
      /\ \A z : BlocksOf(z)' = BlocksOf(z)
      /\ \A addr : InNoSystemBlock(addr)' <=> InNoSystemBlock(addr)
      /\ \A addr : Lookup(addr)' = Lookup(addr)
      /\ LiveAddrs' = LiveAddrs
  BY <1>1 DEF IsCut, BlocksOf, Blocks, InNoSystemBlock, Lookup, LiveAddrs
<1>7. \A u \in Thread \ {t} :
        /\ op'[u] = op[u] /\ (Fetched(u)' <=> Fetched(u))
        /\ (Frees(u)' <=> Frees(u)) /\ (Freeing(u)' <=> Freeing(u))
  BY <1>3, OthersSame
<1>10. \A addr, z : CutFrom(addr, z) /\ addr # a =>
         CutFrom(addr, z)' /\ mem_block_size_'[z] = mem_block_size_[z]
  BY <1>1, <1>2, <1>5 DEF CutFrom
<1>11. FetchedWhole' /\ LentSpansKnown'
  BY <1>0, <1>1, <1>3, <1>5, <1>7, <1>a DEF BlockInv, FetchedWhole, LentSpansKnown
<1>12. SpansCut'
  <2>1. ASSUME NEW z \in Page
        PROVE  IF IsCut(z)
               THEN /\ z \in lent /\ mem_block_num_[z] = BlockNum(page_num_[z], mem_block_size_[z])
                    /\ mem_block_list_'[z] \subseteq BlocksOf(z)
               ELSE mem_block_list_'[z] = {} /\ mem_block_num_[z] = 0
    BY <1>0, <1>a, <1>2 DEF BlockInv, SpansCut
  <2> QED
    BY <1>1, <1>5, <2>1 DEF SpansCut
<1>14. HeldBlocks'
  <2>1. ASSUME NEW c \in live PROVE HeldBlock(c)'
    <3>1. HeldBlock(c) /\ c.addr # a
      BY <1>0, <1>a DEF BlockInv, HeldBlocks, LiveAddrs
    <3> QED
      BY <1>1, <1>5, <1>10, <3>1 DEF HeldBlock
  <2> QED
    BY <1>1, <2>1 DEF HeldBlocks
<1>15. HeldOnce'
  <2>3. \A u \in Thread : Frees(u)' => op'[u].block \notin LiveAddrs'
    BY <1>0, <1>3, <1>5, <1>7 DEF BlockInv, HeldOnce
  <2>4. \A u, v \in Thread : Frees(u)' /\ Frees(v)' /\ u # v => op'[u].block # op'[v].block
    BY <1>0, <1>3, <1>7 DEF BlockInv, HeldOnce
  <2> QED
    BY <1>0, <1>1, <2>3, <2>4 DEF BlockInv, HeldOnce
<1>16. NoneLost'
  <2>1. BlocksBeingFreed \subseteq BlocksBeingFreed' \cup {a}
    BY <1>p, <1>7 DEF BlocksBeingFreed
  <2>2. ASSUME NEW z \in Page, IsCut(z)
        PROVE  BlocksOf(z) \subseteq mem_block_list_'[z] \cup LiveAddrs \cup BlocksBeingFreed'
    <3>1. BlocksOf(z) \subseteq mem_block_list_[z] \cup LiveAddrs \cup BlocksBeingFreed
      BY <1>0, <2>2 DEF BlockInv, NoneLost
    <3>2. a \in BlocksOf(z) => z = s
      <4> SUFFICES ASSUME a \in BlocksOf(z) PROVE z = s
        OBVIOUS
      <4>1. z \in lent /\ PageOf(a) \in PagesOf(z) /\ PageOf(a) \in PagesOf(s)
        BY <1>0, <1>a, <2>2, CutSpan DEF BlockInv
      <4> QED
        BY <1>a, <4>1, LentSpansApart
    <3> QED
      BY <1>2, <2>1, <3>1, <3>2
  <2> QED
    BY <1>5, <2>2 DEF NoneLost
<1>17. SystemBlocks'
  BY <1>0, <1>1 DEF BlockInv, SystemBlocks
<1>18. ASSUME NEW u \in Thread PROVE FreedBlock(u)'
  <2>1. CASE u = t
    BY <1>3, <2>1 DEF Frees, Freeing, FreedBlock, OpAt
  <2>2. CASE u # t
    <3>1. FreedBlock(u) /\ op'[u] = op[u] /\ (Frees(u) => op[u].block # a)
      BY <1>0, <1>7, <1>a, <2>2 DEF BlockInv
    <3> QED
      BY <1>1, <1>5, <1>10, <3>1, OtherFreed
  <2> QED
    BY <2>1, <2>2
<1> QED
  BY <1>11, <1>12, <1>14, <1>15, <1>16, <1>17, <1>18 DEF BlockInv

LEMMA GivesBackBlocks ==
  ASSUME IInv, HeapInv, NEW t \in Thread, GivesBack(t)
  PROVE  BlockInv'
<1>0. BlockInv /\ HeapTyped /\ TypeInv
  BY DEF HeapInv, IInv
<1>s. PICK s : s = op[t].span
  OBVIOUS
<1>p. PICK a : a = op[t].block
  OBVIOUS
<1>a. /\ Frees(t) /\ Freeing(t) /\ ~Fetched(t)
      /\ s \in Page /\ IsCut(s) /\ s \in lent
      /\ a \in BlocksOf(s) \ mem_block_list_[s]
      /\ BlocksBack(t) = mem_block_list_[s] \cup {a} /\ BlocksBack(t) \subseteq BlocksOf(s)
      /\ a \notin LiveAddrs
      /\ \A u \in Thread \ {t} : Frees(u) => op[u].block # a
  BY <1>s, <1>p, BlockGoesBack DEF GivesBack
<1>b. BlocksOf(s) = mem_block_list_[s] \cup {a}
  BY <1>0, <1>a, <1>s, AllFree DEF GivesBack, BlockInv
<1>1. /\ lent' = lent \ {s} /\ radix_tree_' = radix_tree_ /\ page_num_' = page_num_
      /\ foreign' = foreign /\ system_pages' = system_pages /\ live' = live
  BY <1>s DEF GivesBack, TakeBackSpan
<1>2. \A z \in Page :
        /\ mem_block_list_'[z] = IF z = s THEN {} ELSE mem_block_list_[z]
        /\ mem_block_size_'[z] = IF z = s THEN -1 ELSE mem_block_size_[z]
        /\ mem_block_num_'[z] = IF z = s THEN 0 ELSE mem_block_num_[z]
  BY <1>0, <1>s DEF GivesBack, Merge, HeapTyped
<1>3. /\ OpStays(t) /\ OthersStay(t) /\ ~Frees(t)' /\ ~Freeing(t)' /\ ~Fetched(t)'
  <2>1. OthersStay(t) /\ call'[t].at # "distributed"
    BY <1>0, TakeBackStep DEF GivesBack
  <2> QED
    BY <2>1 DEF GivesBack, Frees, Freeing, Fetched, At, OpAt
<1>5. /\ \A z \in Page : IsCut(z)' <=> (IsCut(z) /\ z # s)
      /\ \A z \in Page : z # s => BlocksOf(z)' = BlocksOf(z)
      /\ \A addr : InNoSystemBlock(addr)' <=> InNoSystemBlock(addr)
      /\ \A addr : Lookup(addr)' = Lookup(addr)
      /\ LiveAddrs' = LiveAddrs
  BY <1>1, <1>2 DEF IsCut, BlocksOf, Blocks, InNoSystemBlock, Lookup, LiveAddrs
<1>7. \A u \in Thread \ {t} :
        /\ op'[u] = op[u] /\ call'[u].span = call[u].span /\ (Fetched(u)' <=> Fetched(u))
        /\ (Frees(u)' <=> Frees(u)) /\ (Freeing(u)' <=> Freeing(u))
  BY <1>3, OthersSame
<1>10. \A addr, z : CutFrom(addr, z) /\ addr # a =>
         CutFrom(addr, z)' /\ mem_block_size_'[z] = mem_block_size_[z]
  BY <1>b, <1>2, <1>5 DEF CutFrom
<1>11. FetchedWhole'
  <2>1. ASSUME NEW u \in Thread, Fetched(u)'
        PROVE  /\ u # t /\ Fetched(u) /\ call'[u].span = call[u].span
               /\ call[u].span \in lent /\ ~IsCut(call[u].span) /\ call[u].span # s
    BY <1>0, <1>3, <1>7, <1>a, <2>1 DEF BlockInv, FetchedWhole
  <2>2. ASSUME NEW u \in Thread, Fetched(u)', NEW z, z = call'[u].span
        PROVE  z \in lent' /\ ~IsCut(z)'
    BY <1>1, <1>5, <2>1, <2>2, LentSpan
  <2>3. ASSUME NEW u \in Thread, NEW v \in Thread, Fetched(u)', Fetched(v)', u # v
        PROVE  call'[u].span # call'[v].span
    BY <1>0, <2>1, <2>3 DEF BlockInv, FetchedWhole
  <2> QED
    BY <2>2, <2>3 DEF FetchedWhole
<1>12. SpansCut'
  <2>1. ASSUME NEW z \in Page
        PROVE  IF IsCut(z) /\ z # s
               THEN /\ z \in lent' /\ z # s
                    /\ mem_block_num_'[z] = BlockNum(page_num_[z], mem_block_size_'[z])
                    /\ mem_block_list_'[z] \subseteq BlocksOf(z)
               ELSE mem_block_list_'[z] = {} /\ mem_block_num_'[z] = 0
    BY <1>0, <1>1, <1>2 DEF BlockInv, SpansCut
  <2> QED
    BY <1>1, <1>5, <2>1 DEF SpansCut
<1>13. LentSpansKnown'
  <2>1. ASSUME NEW z \in lent, z # s, ~IsCut(z)
        PROVE  \E u \in Thread : Fetched(u)' /\ call'[u].span = z
    <3>1. PICK u \in Thread : Fetched(u) /\ call[u].span = z
      BY <1>0, <2>1 DEF BlockInv, LentSpansKnown
    <3>2. u # t
      BY <1>a, <3>1
    <3> QED
      BY <1>7, <3>1, <3>2
  <2>2. \A z \in lent : z \in Page
    BY LentSpan
  <2> QED
    BY <1>1, <1>5, <2>1, <2>2 DEF LentSpansKnown
<1>14. HeldBlocks'
  <2>1. ASSUME NEW c \in live PROVE HeldBlock(c)'
    <3>1. HeldBlock(c) /\ c.addr # a
      BY <1>0, <1>a DEF BlockInv, HeldBlocks, LiveAddrs
    <3> QED
      BY <1>1, <1>5, <1>10, <3>1 DEF HeldBlock
  <2> QED
    BY <1>1, <2>1 DEF HeldBlocks
<1>15. HeldOnce'
  <2>3. \A u \in Thread : Frees(u)' => op'[u].block \notin LiveAddrs'
    BY <1>0, <1>3, <1>5, <1>7 DEF BlockInv, HeldOnce
  <2>4. \A u, v \in Thread : Frees(u)' /\ Frees(v)' /\ u # v => op'[u].block # op'[v].block
    BY <1>0, <1>3, <1>7 DEF BlockInv, HeldOnce
  <2> QED
    BY <1>0, <1>1, <2>3, <2>4 DEF BlockInv, HeldOnce
<1>16. NoneLost'
  <2>1. BlocksBeingFreed \subseteq BlocksBeingFreed' \cup {a}
    BY <1>p, <1>7 DEF BlocksBeingFreed
  <2>2. ASSUME NEW z \in Page, IsCut(z), z # s
        PROVE  BlocksOf(z) \subseteq mem_block_list_'[z] \cup LiveAddrs \cup BlocksBeingFreed'
    <3>1. BlocksOf(z) \subseteq mem_block_list_[z] \cup LiveAddrs \cup BlocksBeingFreed
      BY <1>0, <2>2 DEF BlockInv, NoneLost
    <3>2. a \notin BlocksOf(z)
      <4> SUFFICES ASSUME a \in BlocksOf(z) PROVE FALSE
        OBVIOUS
      <4>1. z \in lent /\ PageOf(a) \in PagesOf(z) /\ PageOf(a) \in PagesOf(s)
        BY <1>0, <1>a, <2>2, CutSpan DEF BlockInv
      <4> QED
        BY <1>a, <2>2, <4>1, LentSpansApart
    <3> QED
      BY <1>2, <2>1, <2>2, <3>1, <3>2
  <2> QED
    BY <1>5, <2>2 DEF NoneLost
<1>17. SystemBlocks'
  BY <1>0, <1>1 DEF BlockInv, SystemBlocks
<1>18. ASSUME NEW u \in Thread PROVE FreedBlock(u)'
  <2>1. CASE u = t
    BY <1>3, <2>1 DEF Frees, Freeing, FreedBlock, OpAt
  <2>2. CASE u # t
    <3>1. FreedBlock(u) /\ op'[u] = op[u] /\ (Frees(u) => op[u].block # a)
      BY <1>0, <1>7, <1>a, <2>2 DEF BlockInv
    <3> QED
      BY <1>1, <1>5, <1>10, <3>1, OtherFreed
  <2> QED
    BY <2>1, <2>2
<1> QED
  BY <1>11, <1>12, <1>13, <1>14, <1>15, <1>16, <1>17, <1>18 DEF BlockInv

-----------------------------------------------------------------------------
(* Steps inside the page cache *)

\* What a step inside the page cache lends is lent to the call that made it.
LEMMA InsideLends ==
  ASSUME IInv, NEW t \in Thread, Inside(t)
  PROVE  \/ lent' = lent /\ ~At(t, "distributed")'
         \/ \E z \in Page \ lent :
              /\ lent' = lent \cup {z} /\ call[t].at \in Asking
              /\ At(t, "distributed")' /\ call'[t].span = z
<1>0. TypeInv /\ SpanInOnePlace /\ call \in [Thread -> CallRecord]
  BY DEF IInv, Places, TypeInv
<1>1. CASE TakeSpan(t)
  <2> DEFINE n == call[t].page_num
  <2>1. PICK z \in pc_span_lists_[n] :
          /\ lent' = lent \cup {z}
          /\ call' = [call EXCEPT ![t].at = "distributed", ![t].span = z]
    BY <1>1 DEF TakeSpan
  <2>2. call[t].at = "take span" /\ n \in Lists
    BY <1>0, <1>1 DEF TakeSpan, At, TypeInv, LocalsTyped, Working
  <2>3. z \in Page /\ z \notin lent
    BY <1>0, <2>2 DEF TypeInv, SharedTyped, SpanInOnePlace
  <2>4. call'[t].at = "distributed" /\ call'[t].span = z
    BY <1>0, <2>1 DEF CallRecord
  <2> QED
    BY <2>1, <2>2, <2>3, <2>4 DEF At, Asking
<1>2. CASE Register(t)
  <2> DEFINE z == call[t].span
             last == call[t].i + 1 = call[t].page_num
  <2>1. /\ call' = [call EXCEPT ![t].i = call[t].i + 1,
                                ![t].at = IF last THEN "distributed" ELSE "register"]
        /\ lent' = IF last THEN lent \cup {z} ELSE lent
        /\ call[t].at = "register"
    BY <1>2 DEF Register, At
  <2>2. z \in Page /\ z \notin lent
    BY <1>0, <2>1 DEF SpanInOnePlace, Moving, Spans
  <2>3. call'[t].at = (IF last THEN "distributed" ELSE "register") /\ call'[t].span = z
    BY <1>0, <2>1 DEF CallRecord
  <2>4. call[t].at \in Asking
    BY <2>1 DEF Asking
  <2> HIDE DEF z, last
  <2> QED
    BY <2>1, <2>2, <2>3, <2>4 DEF At
<1>3. ASSUME NEW label, label # "distributed", GoTo(t, label) PROVE ~At(t, "distributed")'
  BY <1>0, <1>3 DEF GoTo, At, CallRecord
<1>4. CASE \/ LockListToDistribute(t) \/ ListIsEmpty(t) \/ LockToMap(t) \/ MapFails(t)
           \/ LockListToTakeBack(t) \/ ListHasRoom(t) \/ PutBack(t) \/ LockToUnmap(t)
           \/ UnmapSpan(t)
  BY <1>3, <1>4
     DEF LockListToDistribute, ListIsEmpty, LockToMap, MapFails, LockListToTakeBack,
         ListHasRoom, PutBack, LockToUnmap, UnmapSpan
<1>5. CASE MapSpan(t)
  <2>1. PICK s \in Page :
          call' = [call EXCEPT ![t].at = "register", ![t].span = s, ![t].i = 0]
    BY <1>5 DEF MapSpan, MapPlaces
  <2>2. call'[t].at = "register"
    BY <1>0, <2>1 DEF CallRecord
  <2> QED
    BY <1>5, <2>2 DEF MapSpan, At
<1>6. CASE EndTakeBack(t)
  <2>1. call'[t].at = "taken back"
    BY <1>0, <1>6 DEF EndTakeBack, NewCall
  <2> QED
    BY <1>6, <2>1 DEF EndTakeBack, At
<1> QED
  BY <1>1, <1>2, <1>4, <1>5, <1>6 DEF Inside

LEMMA InsideBlocks ==
  ASSUME IInv, HeapInv, NEW t \in Thread, Inside(t), UNCHANGED heapVars
  PROVE  BlockInv'
<1>0. BlockInv /\ HeapTyped /\ TypeInv /\ CallsPageCache(t)
  BY DEF HeapInv, IInv
<1>1. /\ foreign' = foreign /\ OthersStay(t) /\ ~At(t, "distributed")
      /\ call[t].at \in Asking => call'[t].at \in Asking
      /\ call[t].at # "idle"
  BY <1>0, InsideStep DEF At
<1>2. /\ system_pages' = system_pages /\ live' = live /\ op' = op
      /\ mem_block_size_' = mem_block_size_ /\ mem_block_num_' = mem_block_num_
      /\ mem_block_list_' = mem_block_list_
  BY DEF heapVars, spanVars
<1>3. [AnyStep]_pageCacheVars
  BY DEF AnyStep
<1>4. \A s \in lent : /\ page_num_'[s] = page_num_[s]
                      /\ \A p \in PagesOf(s) : radix_tree_'[p] = radix_tree_[p]
  BY <1>3, LentStep
<1>5. /\ \A z : IsCut(z)' <=> IsCut(z)
      /\ \A z : BlocksOf(z)' = BlocksOf(z)
      /\ \A addr : InNoSystemBlock(addr)' <=> InNoSystemBlock(addr)
      /\ \A addr, z : CutFrom(addr, z)' <=> CutFrom(addr, z)
      /\ LiveAddrs' = LiveAddrs /\ BlocksBeingFreed' = BlocksBeingFreed
      /\ \A u : Frees(u)' <=> Frees(u)
  BY <1>2 DEF IsCut, BlocksOf, Blocks, InNoSystemBlock, CutFrom, LiveAddrs,
              BlocksBeingFreed, Frees, Freeing, OpAt
<1>6. ~Fetched(t) /\ \A u \in Thread \ {t} :
        (Fetched(u)' <=> Fetched(u)) /\ call'[u].span = call[u].span
  BY <1>1, <1>2 DEF Fetched, Fetching, At, OthersStay
<1>7. \A z \in Page : IsCut(z) => z \in lent
  BY <1>0 DEF BlockInv, SpansCut
<1>8. \A z \in lent : z \in Page
  BY LentSpan
<1>9. FetchedWhole' /\ LentSpansKnown' /\ lent \subseteq lent'
  <2>1. CASE lent' = lent /\ ~At(t, "distributed")'
    <3>1. ~Fetched(t)'
      BY <2>1 DEF Fetched
    <3> QED
      BY <1>0, <1>5, <1>6, <2>1, <3>1 DEF BlockInv, FetchedWhole, LentSpansKnown
  <2>2. ASSUME NEW z \in Page \ lent, lent' = lent \cup {z}, call[t].at \in Asking,
               At(t, "distributed")', call'[t].span = z
        PROVE  FetchedWhole' /\ LentSpansKnown'
    <3>1. Fetched(t)'
      <4>1. call[t].at # "idle" /\ call[t].at \notin GivingBack
        BY <1>1, <2>2 DEF Asking, GivingBack
      <4> QED
        BY <1>0, <1>2, <2>2, <4>1 DEF CallsPageCache, Fetched, Fetching
    <3>2. ~IsCut(z)
      BY <1>7, <2>2
    <3>3. \A u \in Thread \ {t} : Fetched(u) => call[u].span \in lent
      BY <1>0 DEF BlockInv, FetchedWhole
    <3>4. FetchedWhole'
      <4>1. ASSUME NEW u \in Thread, Fetched(u)'
            PROVE  (call[u].span \in lent' /\ ~IsCut(call[u].span)' /\ u # t) \/ u = t
        BY <1>0, <1>5, <1>6, <2>2, <4>1 DEF BlockInv, FetchedWhole
      <4>2. ASSUME NEW u \in Thread, Fetched(u)', NEW y, y = call'[u].span
            PROVE  y \in lent' /\ ~IsCut(y)'
        BY <1>5, <1>6, <2>2, <3>2, <4>1, <4>2
      <4>3. ASSUME NEW u \in Thread, NEW v \in Thread, Fetched(u)', Fetched(v)', u # v
            PROVE  call'[u].span # call'[v].span
        BY <1>0, <1>6, <2>2, <3>3, <4>3 DEF BlockInv, FetchedWhole
      <4> QED
        BY <4>2, <4>3 DEF FetchedWhole
    <3>5. LentSpansKnown'
      BY <1>0, <1>5, <1>6, <2>2, <3>1 DEF BlockInv, LentSpansKnown
    <3> QED
      BY <3>4, <3>5
  <2> QED
    BY <2>1, <2>2, InsideLends
<1>10. SpansCut'
  <2>1. ASSUME NEW z \in Page
        PROVE  IF IsCut(z)
               THEN /\ z \in lent' /\ mem_block_num_[z] = BlockNum(page_num_'[z], mem_block_size_[z])
                    /\ mem_block_list_[z] \subseteq BlocksOf(z)
               ELSE mem_block_list_[z] = {} /\ mem_block_num_[z] = 0
    BY <1>0, <1>4, <1>9 DEF BlockInv, SpansCut
  <2> QED
    BY <1>2, <1>5, <2>1 DEF SpansCut
<1>11. HeldBlocks'
  <2>1. ASSUME NEW c \in live PROVE HeldBlock(c)'
    <3>1. HeldBlock(c)
      BY <1>0 DEF BlockInv, HeldBlocks
    <3>2. InNoSystemBlock(c.addr) => Lookup(c.addr)' = Lookup(c.addr)
      <4> SUFFICES ASSUME InNoSystemBlock(c.addr) PROVE Lookup(c.addr)' = Lookup(c.addr)
        OBVIOUS
      <4> DEFINE z == Lookup(c.addr)
      <4>1. z \in Page /\ IsCut(z) /\ c.addr \in BlocksOf(z)
        BY <3>1 DEF HeldBlock, CutFrom
      <4>2. z \in lent /\ PageOf(c.addr) \in PagesOf(z)
        BY <1>0, <4>1, CutSpan DEF BlockInv
      <4> QED
        BY <1>4, <4>2 DEF Lookup
    <3> QED
      BY <1>2, <1>5, <3>1, <3>2 DEF HeldBlock
  <2> QED
    BY <1>2, <2>1 DEF HeldBlocks
<1>12. HeldOnce' /\ NoneLost' /\ SystemBlocks'
  BY <1>0, <1>1, <1>2, <1>5 DEF BlockInv, HeldOnce, NoneLost, SystemBlocks
<1>13. ASSUME NEW u \in Thread PROVE FreedBlock(u)'
  <2>1. FreedBlock(u)
    BY <1>0 DEF BlockInv
  <2> QED
    BY <1>2, <1>5, <2>1 DEF FreedBlock, OpAt
<1> QED
  BY <1>9, <1>10, <1>11, <1>12, <1>13 DEF BlockInv

-----------------------------------------------------------------------------
(* MyFree, and the blocks of the system *)

\* Where the page of a block is that somebody has.
LEMMA PageOfHeld ==
  ASSUME IInv, HeapInv, NEW addr,
         \/ \E b \in live : b.addr = addr
         \/ \E u \in Thread : Frees(u) /\ op[u].block = addr
  PROVE  /\ addr \in Addr /\ PageOf(addr) \in Page
         /\ InNoSystemBlock(addr) =>
              \E s \in lent : CutFrom(addr, s) /\ PageOf(addr) \in PagesOf(s)
         /\ InNoSystemBlock(addr) => PageOf(addr) \in mapped /\ PageOf(addr) \notin foreign
         /\ ~InNoSystemBlock(addr) =>
              PageOf(addr) \in foreign /\ addr = SystemAddr(PageOf(addr))
<1>0. BlockInv /\ HeapTyped
  BY DEF HeapInv
<1>1. addr \in Addr
  BY <1>0 DEF HeapTyped, Holding, OpRecord
<1>2. PageOf(addr) \in Page
  BY <1>1, PageOfAddr
<1>3. IF InNoSystemBlock(addr) THEN \E s : CutFrom(addr, s)
      ELSE addr = SystemAddr(PageOf(addr))
  <2>1. ASSUME NEW b \in live, b.addr = addr
        PROVE  IF InNoSystemBlock(addr) THEN \E s : CutFrom(addr, s)
               ELSE addr = SystemAddr(PageOf(addr))
    BY <1>0, <2>1 DEF BlockInv, HeldBlocks, HeldBlock
  <2>2. ASSUME NEW u \in Thread, Frees(u), op[u].block = addr
        PROVE  IF InNoSystemBlock(addr) THEN \E s : CutFrom(addr, s)
               ELSE addr = SystemAddr(PageOf(addr))
    <3>1. FreedBlock(u)
      BY <1>0 DEF BlockInv
    <3> QED
      BY <1>0, <2>2, <3>1, CutSpan, NoSystemBlock
         DEF FreedBlock, Frees, Freeing, OpAt, BlockInv, CutFrom
  <2> QED
    BY <2>1, <2>2
<1>4. InNoSystemBlock(addr) =>
        \E s \in lent : CutFrom(addr, s) /\ PageOf(addr) \in PagesOf(s)
  <2> SUFFICES ASSUME NEW s, CutFrom(addr, s)
               PROVE s \in lent /\ PageOf(addr) \in PagesOf(s)
    BY <1>3
  <2> QED
    BY <1>0, CutSpan DEF CutFrom, BlockInv
<1>5. InNoSystemBlock(addr) => PageOf(addr) \in mapped /\ PageOf(addr) \notin foreign
  BY <1>4, LentSpan
<1>6. ~InNoSystemBlock(addr) => PageOf(addr) \in foreign
  BY <1>0, <1>2, SystemPage DEF BlockInv, InNoSystemBlock
<1> QED
  BY <1>1, <1>2, <1>3, <1>4, <1>5, <1>6

\* A block of the system was cut from no span.
LEMMA SystemIsNotCut ==
  ASSUME IInv, HeapInv, NEW addr, ~InNoSystemBlock(addr), NEW s \in Page, IsCut(s)
  PROVE  addr \notin BlocksOf(s)
<1> SUFFICES ASSUME addr \in BlocksOf(s) PROVE FALSE
  OBVIOUS
<1>1. s \in lent /\ PageOf(addr) \in PagesOf(s)
  BY CutSpan DEF HeapInv, BlockInv
<1> QED
  BY <1>1, NoSystemBlock DEF HeapInv, BlockInv

\* Only op, and live, change.
OnlyOp(t) ==
    /\ UNCHANGED <<pageCacheVars, spanVars, system_pages>>
    /\ OpStays(t) /\ ~Fetched(t) /\ ~Fetched(t)'

\* The blocks if a step changes nothing but what t frees, and live.
LEMMA OnlyOpBlocks ==
  ASSUME IInv, HeapInv, NEW t \in Thread, OnlyOp(t), live' \subseteq live,
         FreedBlock(t)', HeldOnce',
         LiveAddrs \cup BlocksBeingFreed \subseteq
           LiveAddrs' \cup BlocksBeingFreed' \cup {a \in Addr : ~InNoSystemBlock(a)}
  PROVE  BlockInv'
<1>0. BlockInv /\ HeapTyped
  BY DEF HeapInv
<1>1. /\ lent' = lent /\ radix_tree_' = radix_tree_ /\ page_num_' = page_num_
      /\ foreign' = foreign /\ system_pages' = system_pages /\ call' = call
      /\ mem_block_size_' = mem_block_size_ /\ mem_block_num_' = mem_block_num_
      /\ mem_block_list_' = mem_block_list_
  BY DEF OnlyOp, pageCacheVars, spanVars
<1>2. OpStays(t) /\ OthersStay(t) /\ ~Fetched(t) /\ ~Fetched(t)'
  BY <1>1 DEF OnlyOp, OthersStay
<1>3. \A u \in Thread \ {t} : op'[u] = op[u] /\ (Fetched(u)' <=> Fetched(u))
  BY <1>2, OthersSame
<1>4. /\ \A z : IsCut(z)' <=> IsCut(z)
      /\ \A z : BlocksOf(z)' = BlocksOf(z)
      /\ \A addr : InNoSystemBlock(addr)' <=> InNoSystemBlock(addr)
      /\ \A addr, z : CutFrom(addr, z)' <=> CutFrom(addr, z)
      /\ \A addr : Lookup(addr)' = Lookup(addr)
  BY <1>1 DEF IsCut, BlocksOf, Blocks, InNoSystemBlock, CutFrom, Lookup
<1>5. FetchedWhole' /\ LentSpansKnown'
  BY <1>0, <1>1, <1>2, <1>3, <1>4 DEF BlockInv, FetchedWhole, LentSpansKnown
<1>6. SpansCut' /\ SystemBlocks'
  BY <1>0, <1>1, <1>4 DEF BlockInv, SpansCut, SystemBlocks
<1>7. HeldBlocks'
  BY <1>0, <1>1, <1>4 DEF BlockInv, HeldBlocks, HeldBlock
<1>8. NoneLost'
  <2>1. ASSUME NEW s \in Page, IsCut(s), NEW a \in BlocksOf(s)
        PROVE  a \in mem_block_list_[s] \cup LiveAddrs' \cup BlocksBeingFreed'
    BY <1>0, <2>1, SystemIsNotCut DEF BlockInv, NoneLost
  <2> QED
    BY <1>1, <1>4, <2>1 DEF NoneLost
<1>9. ASSUME NEW u \in Thread PROVE FreedBlock(u)'
  <2>1. FreedBlock(u)
    BY <1>0 DEF BlockInv
  <2> QED
    BY <1>1, <1>3, <1>4, <2>1 DEF FreedBlock, OpAt
<1> QED
  BY <1>5, <1>6, <1>7, <1>8, <1>9 DEF BlockInv

LEMMA MyFreeBlocks ==
  ASSUME IInv, HeapInv, NEW t \in Thread, NEW b \in live, MyFree(t, b)
  PROVE  BlockInv'
<1>0. BlockInv /\ HeapTyped /\ TypeInv
  BY DEF HeapInv, IInv
<1>a. PICK a : a = b.addr
  OBVIOUS
<1>1. /\ op[t].at = "idle" /\ OpStays(t) /\ live' = live \ {b}
      /\ op'[t].block = a /\ op'[t].span = Lookup(a)
      /\ op'[t].at = IF ~HasNode(PageOf(a)) THEN "undefined"
                     ELSE IF Lookup(a) = null THEN "system free" ELSE "found"
  BY <1>0, <1>a, MyFreeStep
<1>2. UNCHANGED <<pageCacheVars, spanVars, system_pages>>
  BY <1>0, MyFreeStep
<1>3. OnlyOp(t) /\ ~Frees(t) /\ ~Freeing(t)
  BY <1>1, <1>2 DEF OnlyOp, Fetched, Fetching, Frees, Freeing, OpAt
<1>4. /\ a \in Addr /\ PageOf(a) \in Page
      /\ ~InNoSystemBlock(a) => a = SystemAddr(PageOf(a))
  BY <1>a, PageOfHeld
<1>5. Lookup(a) \in Page \cup {null}
  BY <1>0, <1>4 DEF TypeInv, SharedTyped, Lookup
<1>6. InNoSystemBlock(a) =>
        /\ CutFrom(a, Lookup(a)) /\ op'[t].at = "found"
        /\ Lookup(a) \in Page
  <2> SUFFICES ASSUME InNoSystemBlock(a)
               PROVE  CutFrom(a, Lookup(a)) /\ op'[t].at = "found" /\ Lookup(a) \in Page
    OBVIOUS
  <2>1. HeldBlock(b)
    BY <1>0 DEF BlockInv, HeldBlocks
  <2>2. CutFrom(a, Lookup(a)) /\ Lookup(a) \in Page
    BY <1>a, <2>1 DEF HeldBlock, CutFrom
  <2>3. Lookup(a) # null
    BY <2>2, PageCacheAssumption DEF PageCacheAssumption
  <2>4. HasNode(PageOf(a))
    BY <1>4, <2>3 DEF HasNode, Lookup
  <2> QED
    BY <1>1, <2>2, <2>3, <2>4
<1>7. /\ \A addr : InNoSystemBlock(addr)' <=> InNoSystemBlock(addr)
      /\ \A addr, z : CutFrom(addr, z)' <=> CutFrom(addr, z)
  BY <1>2 DEF spanVars, InNoSystemBlock, CutFrom, IsCut, BlocksOf, Blocks
<1>8. FreedBlock(t)'
  BY <1>1, <1>4, <1>5, <1>6, <1>7 DEF FreedBlock, OpAt
<1>9. a \notin LiveAddrs' /\ LiveAddrs = LiveAddrs' \cup {a}
  <2>1. \A x, y \in live : x.addr = y.addr => x = y
    BY <1>0 DEF BlockInv, HeldOnce
  <2>2. LiveAddrs = {x.addr : x \in live} /\ LiveAddrs' = {x.addr : x \in live \ {b}}
    BY <1>1 DEF LiveAddrs
  <2>3. a \notin LiveAddrs'
    BY <1>a, <2>1, <2>2
  <2>4. \A z : z \in LiveAddrs <=> z \in LiveAddrs' \/ z = a
    BY <1>a, <2>2
  <2> QED
    BY <2>3, <2>4
<1>10. \A u \in Thread \ {t} : op'[u] = op[u] /\ (Frees(u)' <=> Frees(u))
                                /\ (Freeing(u)' <=> Freeing(u))
  BY <1>1 DEF OpStays, Frees, Freeing, OpAt
<1>11. a \in LiveAddrs
  BY <1>9
<1>12. HeldOnce'
  <2>1. \A c, d \in live' : c.addr = d.addr => c = d
    BY <1>0, <1>1 DEF BlockInv, HeldOnce
  <2>2. \A u \in Thread : Frees(u)' => op'[u].block \notin LiveAddrs'
    BY <1>0, <1>1, <1>9, <1>10 DEF BlockInv, HeldOnce
  <2>3. \A u \in Thread \ {t} : Frees(u)' => op'[u].block # a
    BY <1>0, <1>10, <1>11 DEF BlockInv, HeldOnce
  <2>4. \A u, v \in Thread : Frees(u)' /\ Frees(v)' /\ u # v => op'[u].block # op'[v].block
    BY <1>0, <1>1, <1>10, <2>3 DEF BlockInv, HeldOnce
  <2> QED
    BY <2>1, <2>2, <2>4 DEF HeldOnce
<1>13. LiveAddrs \cup BlocksBeingFreed \subseteq
         LiveAddrs' \cup BlocksBeingFreed' \cup {x \in Addr : ~InNoSystemBlock(x)}
  <2>1. BlocksBeingFreed \subseteq BlocksBeingFreed'
    BY <1>3, <1>10 DEF BlocksBeingFreed
  <2>2. InNoSystemBlock(a) => a \in BlocksBeingFreed'
    BY <1>1, <1>6 DEF BlocksBeingFreed, Freeing
  <2> QED
    BY <1>4, <1>9, <2>1, <2>2
<1>14. live' \subseteq live
  BY <1>1
<1> QED
  BY <1>3, <1>8, <1>12, <1>13, <1>14, OnlyOpBlocks

\* A cache has the block: its size says which one, and that is there.
LEMMA CutRoute ==
  ASSUME IInv, HeapInv, NEW s \in Page, IsCut(s)
  PROVE  /\ page_num_[s] # 0
         /\ FreeRoute(mem_block_size_[s]) \in {"thread", "central"}
         /\ FreeRoute(mem_block_size_[s]) = "thread" => ~CrossThreadFree
<1>1. s \in lent /\ mem_block_size_[s] \in BlockSizes
  BY CutSpan DEF HeapInv, BlockInv
<1>2. page_num_[s] # 0
  BY <1>1, LentSpan
<1>3. FreeRoute(mem_block_size_[s]) \in {"thread", "central"}
  BY DEF HeapInv, ListInv, SpanListed
<1>4. PICK r \in Requests : MallocRoute(r) # "system" /\ mem_block_size_[s] = CeilMemSize(r)
  BY <1>1 DEF BlockSizes
<1>5. MallocRoute(r) = FreeRoute(mem_block_size_[s])
  BY <1>4, CallersAssumption DEF CallersAssumption, RoutesAgree
<1> QED
  BY <1>2, <1>3, <1>5, CallersAssumption DEF CallersAssumption

LEMMA FoundSpanBlocks ==
  ASSUME IInv, HeapInv, NEW t \in Thread, FoundSpan(t)
  PROVE  BlockInv'
<1>0. BlockInv /\ HeapTyped /\ TypeInv /\ FreedBlock(t) /\ CachesMade
  BY DEF HeapInv, BlockInv, IInv
<1>a. PICK a : a = op[t].block
  OBVIOUS
<1>s. PICK s : s = op[t].span
  OBVIOUS
<1>1. op[t].at = "found" /\ Frees(t) /\ Freeing(t) /\ s \in Page
  BY <1>0, <1>s DEF FoundSpan, FreedBlock, Frees, Freeing, OpAt
<1> DEFINE route == FreeRoute(mem_block_size_[s])
<1>2. /\ OpStays(t) /\ op' \in [Thread -> OpRecord]
      /\ \/ /\ op'[t].at = "undefined"
            /\ ~ /\ page_num_[s] # 0 /\ a \in BlocksOf(s)
                 /\ route = "thread" => tls_thread_cache[t]
         \/ /\ page_num_[s] # 0 /\ a \in BlocksOf(s)
            /\ \/ /\ route = "thread" /\ op'[t].at = "thread free"
                  /\ op'[t].block = a /\ op'[t].span = s
               \/ /\ route = "central" /\ op'[t].at = "central free"
                  /\ op'[t].block = a /\ op'[t].span = s
                  /\ op'[t].size = mem_block_size_[s]
               \/ route = "nothing" /\ op'[t].at = "idle"
      /\ UNCHANGED <<pageCacheVars, spanVars, cacheVars, system_pages, live>>
  BY <1>0, <1>1, <1>a, <1>s, FoundSpanStep
<1>3. OnlyOp(t)
  BY <1>1, <1>2 DEF OnlyOp, Fetched, Fetching, OpAt
<1>4. /\ \A addr : InNoSystemBlock(addr)' <=> InNoSystemBlock(addr)
      /\ \A addr, z : CutFrom(addr, z)' <=> CutFrom(addr, z)
      /\ LiveAddrs' = LiveAddrs
      /\ mem_block_size_' = mem_block_size_
  BY <1>2 DEF spanVars, InNoSystemBlock, CutFrom, IsCut, BlocksOf, Blocks, LiveAddrs
<1>5. CASE InNoSystemBlock(a)
  <2>1. CutFrom(a, s) /\ IsCut(s) /\ a \in BlocksOf(s)
    BY <1>0, <1>1, <1>5, <1>a, <1>s DEF FreedBlock, CutFrom, OpAt
  <2>2. page_num_[s] # 0 /\ route \in {"thread", "central"} /\ (route = "thread" => ~CrossThreadFree)
    BY <1>1, <2>1, CutRoute
  <2>3. route = "thread" => tls_thread_cache[t]
    BY <1>0, <1>1, <2>2 DEF CachesMade, OpAt
  <2>4. /\ op'[t].block = a /\ op'[t].span = s
        /\ \/ route = "thread" /\ op'[t].at = "thread free"
           \/ route = "central" /\ op'[t].at = "central free"
              /\ op'[t].size = mem_block_size_[s]
    BY <1>2, <2>1, <2>2, <2>3
  <2>5. Frees(t)' /\ Freeing(t)'
    BY <2>4 DEF Frees, Freeing
  <2>6. FreedBlock(t)'
    BY <1>4, <2>1, <2>4 DEF FreedBlock, OpAt
  <2>7. \A u \in Thread : (Frees(u)' <=> Frees(u)) /\ (Freeing(u)' <=> Freeing(u))
                          /\ op'[u].block = op[u].block
    BY <1>1, <1>2, <1>a, <2>4, <2>5 DEF OpStays, Frees, Freeing, OpAt
  <2>8. HeldOnce'
    BY <1>0, <1>2, <1>4, <2>7 DEF BlockInv, HeldOnce
  <2>9. BlocksBeingFreed \subseteq BlocksBeingFreed'
    BY <2>7 DEF BlocksBeingFreed
  <2> QED
    BY <1>2, <1>3, <1>4, <2>6, <2>8, <2>9, OnlyOpBlocks
<1>6. CASE ~InNoSystemBlock(a)
  <2>1. a \notin BlocksOf(s)
    <3>1. CASE IsCut(s)
      BY <1>1, <1>6, <3>1, SystemIsNotCut
    <3>2. CASE ~IsCut(s)
      <4>1. mem_block_num_[s] = 0
        BY <1>0, <1>1, <3>2 DEF BlockInv, SpansCut
      <4>2. 0 .. mem_block_num_[s] - 1 = {}
        BY <4>1
      <4> QED
        BY <4>2 DEF BlocksOf, Blocks
    <3> QED
      BY <3>1, <3>2
  <2>2. op'[t].at = "undefined"
    BY <1>2, <2>1
  <2>3. ~Frees(t)' /\ ~Freeing(t)' /\ FreedBlock(t)'
    BY <2>2 DEF Frees, Freeing, FreedBlock, OpAt
  <2>4. \A u \in Thread \ {t} : op'[u] = op[u] /\ (Frees(u)' <=> Frees(u))
                                 /\ (Freeing(u)' <=> Freeing(u))
    BY <1>2 DEF OpStays, Frees, Freeing, OpAt
  <2>5. HeldOnce'
    <3>1. \A u \in Thread : Frees(u)' => u # t
      BY <2>3
    <3> QED
      BY <1>0, <1>2, <1>4, <2>4, <3>1 DEF BlockInv, HeldOnce
  <2>6. BlocksBeingFreed \subseteq BlocksBeingFreed' \cup {a}
    BY <1>a, <2>4 DEF BlocksBeingFreed
  <2>7. a \in Addr
    BY <1>1, <1>a, PageOfHeld
  <2>8. LiveAddrs \cup BlocksBeingFreed \subseteq
          LiveAddrs' \cup BlocksBeingFreed' \cup {x \in Addr : ~InNoSystemBlock(x)}
    BY <1>4, <1>6, <2>6, <2>7
  <2> QED
    BY <1>2, <1>3, <2>3, <2>5, <2>8, OnlyOpBlocks
<1> QED
  BY <1>5, <1>6

LEMMA PagesWithHeadPositive ==
  ASSUME NEW size \in Nat \ {0}
  PROVE  PagesWithHead(size) \in Nat \ {0}
<1> DEFINE x == size + kSpanHeadSize + kPageSize - 1
<1>1. kPageSize \in Nat \ {0} /\ kSpanHeadSize \in Nat \ {0}
  BY SizesTyped
<1>2. x \in Int /\ kPageSize * 1 <= x
  BY <1>1
<1> HIDE DEF x
<1>3. x \div kPageSize \in Int /\ x < kPageSize * (x \div kPageSize) + kPageSize
  BY <1>1, <1>2, DivBounds
<1>4. x \div kPageSize >= 1
  <2> DEFINE q == x \div kPageSize
  <2> SUFFICES ASSUME q < 1 PROVE FALSE
    BY <1>3
  <2> HIDE DEF q
  <2>1. q \in Int
    BY <1>3 DEF q
  <2>2. kPageSize * q + kPageSize <= kPageSize * 1
    BY <1>1, <2>1, NextMultiple
  <2> QED
    BY <1>1, <1>2, <1>3, <2>1, <2>2 DEF q
<1> QED
  BY <1>3, <1>4 DEF PagesWithHead, x

\* Of the pages that a request needs, as many are asked for as an int can count;
\* none are mapped for a number that is not positive.
LEMMA SystemPagesTyped ==
  ASSUME NEW r \in Requests
  PROVE  SystemPages(CeilMemSize(r)) \in Int
<1> DEFINE x == PagesWithHead(CeilMemSize(r))
<1>1. x \in Nat
  BY BlockSize, PagesWithHeadPositive
<1>2. kIntMax \in Nat
  BY SizesAssumption DEF SizesAssumption
<1> HIDE DEF x
<1>3. (x + kIntMax + 1) % (2 * (kIntMax + 1)) \in Int
  <2> DEFINE y == x + kIntMax + 1
             k == 2 * (kIntMax + 1)
  <2>1. y \in Int /\ k \in Nat \ {0}
    BY <1>1, <1>2
  <2> HIDE DEF y, k
  <2>2. y % k \in Int
    BY <2>1
  <2> QED
    BY <2>2 DEF y, k
<1> QED
  BY <1>1, <1>2, <1>3 DEF SystemPages, ToInt, x

LEMMA SystemMallocPages ==
  ASSUME NEW t \in Thread, SizeKnown(t), SystemMalloc(t)
  PROVE  SystemPages(CeilMemSize(op[t].size)) \in Nat \ {0}
<1>1. op[t].size \in Requests
  BY DEF SystemMalloc, SizeKnown, Asks, OpAt
<1>2. SystemPages(CeilMemSize(op[t].size)) \in Int
  BY <1>1, SystemPagesTyped
<1>3. SystemPages(CeilMemSize(op[t].size)) > 0
  BY DEF SystemMalloc
<1> QED
  BY <1>2, <1>3

\* Where the pages can be counted in an int, they are as many as the block needs.
LEMMA SystemPagesEnough ==
  ASSUME NEW r \in Requests
  PROVE  SystemPages(CeilMemSize(r)) = PagesWithHead(CeilMemSize(r))
  BY IntAssumption DEF IntAssumption, SystemPages, ToInt

LEMMA SystemMallocBlocks ==
  ASSUME IInv, HeapInv, NEW t \in Thread, SystemMalloc(t)
  PROVE  BlockInv'
<1>0. BlockInv /\ HeapTyped /\ TypeInv /\ SizeKnown(t)
  BY DEF HeapInv, IInv
<1>n. PICK n : n = SystemPages(CeilMemSize(op[t].size))
  OBVIOUS
<1>1. PICK s \in MapPlaces(n) :
        /\ foreign' = foreign \cup PagesFrom(s, n)
        /\ system_pages' = [system_pages EXCEPT ![s] = n]
        /\ GiveOut(t, SystemAddr(s))
  BY <1>n DEF SystemMalloc, SystemAddr
<1>2. /\ op[t].at = "system malloc"
      /\ lent' = lent /\ radix_tree_' = radix_tree_ /\ page_num_' = page_num_ /\ call' = call
      /\ mem_block_size_' = mem_block_size_ /\ mem_block_num_' = mem_block_num_
      /\ mem_block_list_' = mem_block_list_
  BY DEF SystemMalloc, OpAt, spanVars
<1>3. n \in Nat \ {0}
  BY <1>0, <1>n, SystemMallocPages
<1>4. /\ s \in Page /\ s \in PagesFrom(s, n) /\ s \notin mapped \cup foreign
      /\ PagesFrom(s, n) \subseteq Page \ (mapped \cup foreign)
  BY <1>1, <1>3, SizesTyped DEF MapPlaces, PagesFrom, Page
<1>5. system_pages[s] = 0
  BY <1>0, <1>4, SystemPage DEF BlockInv
<1>6. \A p \in Page : system_pages'[p] = IF p = s THEN n ELSE system_pages[p]
  BY <1>0, <1>1, <1>4 DEF HeapTyped
<1>a. PICK a : a = SystemAddr(s)
  OBVIOUS
<1>b. PICK new : new = [addr |-> a, size |-> op[t].size, by |-> t]
  OBVIOUS
<1>7. new.addr = a /\ new.size = op[t].size /\ new.by = t /\ a \in Addr /\ PageOf(a) = s
  BY <1>4, <1>a, <1>b, SystemAddrFacts
<1>8. /\ OpStays(t) /\ OthersStay(t) /\ live' = live \cup {new}
      /\ ~Frees(t)' /\ ~Freeing(t)' /\ ~Fetched(t)'
  BY <1>0, <1>1, <1>2, <1>a, <1>b, GiveOutStep DEF OthersStay
<1>9. ~Frees(t) /\ ~Freeing(t) /\ ~Fetched(t)
  BY <1>2 DEF Frees, Freeing, Fetched, Fetching, OpAt
<1>10. \A u \in Thread \ {t} : op'[u] = op[u] /\ (Fetched(u)' <=> Fetched(u))
                           /\ (Frees(u)' <=> Frees(u)) /\ (Freeing(u)' <=> Freeing(u))
  BY <1>8, OthersSame
<1>11. /\ \A z : IsCut(z)' <=> IsCut(z)
       /\ \A z : BlocksOf(z)' = BlocksOf(z)
       /\ \A addr, z : CutFrom(addr, z)' <=> CutFrom(addr, z)
       /\ \A addr : Lookup(addr)' = Lookup(addr)
  BY <1>2 DEF IsCut, BlocksOf, Blocks, CutFrom, Lookup
<1>12. LiveAddrs' = LiveAddrs \cup {a}
  BY <1>7, <1>8 DEF LiveAddrs
\* Nothing that somebody has is in the new pages.
<1>13. ASSUME NEW addr,
              \/ \E c \in live : c.addr = addr
              \/ \E u \in Thread : Frees(u) /\ op[u].block = addr
       PROVE  /\ addr # a /\ PageOf(addr) \in Page
              /\ system_pages'[PageOf(addr)] = system_pages[PageOf(addr)]
              /\ InNoSystemBlock(addr)' <=> InNoSystemBlock(addr)
  <2>1. PageOf(addr) \in Page /\ PageOf(addr) \in mapped \cup foreign
    BY <1>13, PageOfHeld
  <2>2. PageOf(addr) # s
    BY <1>4, <2>1
  <2>3. system_pages'[PageOf(addr)] = system_pages[PageOf(addr)]
    BY <1>6, <2>1, <2>2
  <2> QED
    BY <1>7, <2>1, <2>2, <2>3 DEF InNoSystemBlock
<1>14. FetchedWhole' /\ LentSpansKnown'
  BY <1>0, <1>2, <1>8, <1>9, <1>10, <1>11 DEF BlockInv, FetchedWhole, LentSpansKnown
<1>15. SpansCut'
  BY <1>0, <1>2, <1>11 DEF BlockInv, SpansCut
<1>16. HeldBlocks'
  <2>1. ASSUME NEW c \in live PROVE HeldBlock(c)'
    <3>1. HeldBlock(c)
      BY <1>0 DEF BlockInv, HeldBlocks
    <3>2. /\ system_pages'[PageOf(c.addr)] = system_pages[PageOf(c.addr)]
          /\ InNoSystemBlock(c.addr)' <=> InNoSystemBlock(c.addr)
      BY <1>13
    <3> QED
      BY <1>2, <1>11, <3>1, <3>2 DEF HeldBlock
  <2>2. HeldBlock(new)'
    <3>1. system_pages'[PageOf(new.addr)] = n /\ n # 0
      BY <1>3, <1>4, <1>6, <1>7
    <3>2. ~InNoSystemBlock(new.addr)'
      BY <3>1 DEF InNoSystemBlock
    <3> QED
      BY <1>7, <1>a, <1>n, <3>1, <3>2 DEF HeldBlock
  <2> QED
    BY <1>8, <2>1, <2>2 DEF HeldBlocks
<1>17. HeldOnce'
  <2>1. \A c \in live : c.addr # a
    BY <1>13
  <2>2. \A c, d \in live' : c.addr = d.addr => c = d
    BY <1>0, <1>7, <1>8, <2>1 DEF BlockInv, HeldOnce
  <2>3. \A u \in Thread : Frees(u) => op[u].block # a
    BY <1>13
  <2>4. \A u \in Thread : Frees(u)' => op'[u].block \notin LiveAddrs'
    BY <1>0, <1>8, <1>10, <1>12, <2>3 DEF BlockInv, HeldOnce
  <2>5. \A u, v \in Thread : Frees(u)' /\ Frees(v)' /\ u # v => op'[u].block # op'[v].block
    BY <1>0, <1>8, <1>10 DEF BlockInv, HeldOnce
  <2> QED
    BY <2>2, <2>4, <2>5 DEF HeldOnce
<1>18. NoneLost'
  <2>1. BlocksBeingFreed' = BlocksBeingFreed
    BY <1>8, <1>9, <1>10 DEF BlocksBeingFreed
  <2> QED
    BY <1>0, <1>2, <1>11, <1>12, <2>1 DEF BlockInv, NoneLost
<1>19. SystemBlocks'
  <2> SUFFICES ASSUME NEW p \in Page, system_pages'[p] # 0
               PROVE  /\ PagesFrom(p, system_pages'[p]) \subseteq foreign'
                      /\ \A q \in Page \ {p} : system_pages'[q] # 0 =>
                           PagesFrom(p, system_pages'[p])
                             \cap PagesFrom(q, system_pages'[q]) = {}
    BY DEF SystemBlocks
  <2>1. \A q \in Page \ {s} : system_pages[q] # 0 => PagesFrom(q, system_pages[q]) \subseteq foreign
    BY <1>0 DEF BlockInv, SystemBlocks
  <2>2. PagesFrom(s, n) \cap foreign = {}
    BY <1>4
  <2>3. \A q \in Page \ {s} : system_pages[q] # 0 =>
          PagesFrom(s, n) \cap PagesFrom(q, system_pages[q]) = {}
    BY <2>1, <2>2
  <2>4. CASE p = s
    BY <1>1, <1>6, <2>3, <2>4
  <2>5. CASE p # s
    <3>1. PagesFrom(p, system_pages[p]) \subseteq foreign
      BY <1>6, <2>1, <2>5
    <3>2. \A q \in Page \ {p} : q # s /\ system_pages[q] # 0 =>
            PagesFrom(p, system_pages[p]) \cap PagesFrom(q, system_pages[q]) = {}
      BY <1>0, <1>6, <2>5 DEF BlockInv, SystemBlocks
    <3> QED
      BY <1>1, <1>6, <2>3, <2>5, <3>1, <3>2
  <2> QED
    BY <2>4, <2>5
<1>20. ASSUME NEW u \in Thread PROVE FreedBlock(u)'
  <2>1. CASE u = t
    BY <1>8, <2>1 DEF Frees, Freeing, FreedBlock, OpAt
  <2>2. CASE u # t
    <3>1. FreedBlock(u) /\ op'[u] = op[u]
      BY <1>0, <1>10, <2>2 DEF BlockInv
    <3>p. PICK x : x = op[u].block
      OBVIOUS
    <3>3. Frees(u) => (InNoSystemBlock(x)' <=> InNoSystemBlock(x))
      BY <1>13, <3>p
    <3> QED
      BY <1>2, <1>11, <3>1, <3>3, <3>p, OtherFreed
  <2> QED
    BY <2>1, <2>2
<1> QED
  BY <1>14, <1>15, <1>16, <1>17, <1>18, <1>19, <1>20 DEF BlockInv

LEMMA SystemFreeBlocks ==
  ASSUME IInv, HeapInv, NEW t \in Thread, SystemFree(t)
  PROVE  BlockInv'
<1>0. BlockInv /\ HeapTyped /\ TypeInv /\ FreedBlock(t)
  BY DEF HeapInv, BlockInv, IInv
<1>a. PICK a : a = op[t].block
  OBVIOUS
<1>s. PICK s : s = PageOf(a)
  OBVIOUS
<1>n. PICK n : n = system_pages[s]
  OBVIOUS
<1>1. /\ op[t].at = "system free"
      /\ foreign' = foreign \ PagesFrom(s, n)
      /\ system_pages' = [system_pages EXCEPT ![s] = 0]
      /\ op' = [op EXCEPT ![t] = NoOp]
      /\ lent' = lent /\ radix_tree_' = radix_tree_ /\ page_num_' = page_num_ /\ call' = call
      /\ mem_block_size_' = mem_block_size_ /\ mem_block_num_' = mem_block_num_
      /\ mem_block_list_' = mem_block_list_ /\ live' = live
  BY <1>a, <1>s, <1>n DEF SystemFree, UnmapBlock, OpAt, spanVars
<1>2. Frees(t) /\ ~Freeing(t) /\ ~Fetched(t)
  BY <1>1 DEF Frees, Freeing, Fetched, Fetching, OpAt
<1>3. ~InNoSystemBlock(a) /\ a = SystemAddr(s) /\ s \in Page /\ s \in foreign
  BY <1>0, <1>1, <1>2, <1>a, <1>s, PageOfHeld DEF FreedBlock, OpAt
<1>4. n # 0
  BY <1>3, <1>n, <1>s DEF InNoSystemBlock
<1>5. \A p \in Page : system_pages'[p] = IF p = s THEN 0 ELSE system_pages[p]
  BY <1>0, <1>1, <1>3 DEF HeapTyped
<1>6. /\ OpStays(t) /\ OthersStay(t) /\ ~Frees(t)' /\ ~Freeing(t)' /\ ~Fetched(t)'
  <2>1. OpStays(t) /\ op'[t].at = "idle"
    BY <1>0, <1>1, NoOpTyped, OpSetStep DEF HeapTyped
  <2> QED
    BY <1>1, <2>1 DEF OthersStay, Frees, Freeing, Fetched, Fetching, OpAt
<1>7. \A u \in Thread \ {t} : op'[u] = op[u] /\ (Fetched(u)' <=> Fetched(u))
                           /\ (Frees(u)' <=> Frees(u)) /\ (Freeing(u)' <=> Freeing(u))
  BY <1>6, OthersSame
<1>8. /\ \A z : IsCut(z)' <=> IsCut(z)
      /\ \A z : BlocksOf(z)' = BlocksOf(z)
      /\ \A addr, z : CutFrom(addr, z)' <=> CutFrom(addr, z)
      /\ \A addr : Lookup(addr)' = Lookup(addr)
      /\ LiveAddrs' = LiveAddrs
  BY <1>1 DEF IsCut, BlocksOf, Blocks, CutFrom, Lookup, LiveAddrs
\* What others have is not in the pages that are unmapped.
<1>9. ASSUME NEW addr, addr # a,
             \/ \E c \in live : c.addr = addr
             \/ \E u \in Thread : Frees(u) /\ op[u].block = addr
      PROVE  /\ system_pages'[PageOf(addr)] = system_pages[PageOf(addr)]
             /\ InNoSystemBlock(addr)' <=> InNoSystemBlock(addr)
  <2>1. /\ PageOf(addr) \in Page
        /\ InNoSystemBlock(addr) => PageOf(addr) \notin foreign
        /\ ~InNoSystemBlock(addr) => addr = SystemAddr(PageOf(addr))
    BY <1>9, PageOfHeld
  <2>2. PageOf(addr) # s
    BY <1>3, <1>9, <2>1
  <2>3. system_pages'[PageOf(addr)] = system_pages[PageOf(addr)]
    BY <1>5, <2>1, <2>2
  <2> QED
    BY <2>3 DEF InNoSystemBlock
<1>10. a \notin LiveAddrs /\ \A u \in Thread \ {t} : Frees(u) => op[u].block # a
  BY <1>0, <1>2, <1>a DEF BlockInv, HeldOnce
<1>11. FetchedWhole' /\ LentSpansKnown'
  BY <1>0, <1>1, <1>2, <1>6, <1>7, <1>8 DEF BlockInv, FetchedWhole, LentSpansKnown
<1>12. SpansCut'
  BY <1>0, <1>1, <1>8 DEF BlockInv, SpansCut
<1>13. HeldBlocks'
  <2>1. ASSUME NEW c \in live PROVE HeldBlock(c)'
    <3>1. HeldBlock(c) /\ c.addr # a
      BY <1>0, <1>10 DEF BlockInv, HeldBlocks, LiveAddrs
    <3>2. /\ system_pages'[PageOf(c.addr)] = system_pages[PageOf(c.addr)]
          /\ InNoSystemBlock(c.addr)' <=> InNoSystemBlock(c.addr)
      BY <1>9, <3>1
    <3> QED
      BY <1>1, <1>8, <3>1, <3>2 DEF HeldBlock
  <2> QED
    BY <1>1, <2>1 DEF HeldBlocks
<1>14. HeldOnce'
  <2>1. \A u \in Thread : Frees(u)' => op'[u].block \notin LiveAddrs'
    BY <1>0, <1>6, <1>7, <1>8 DEF BlockInv, HeldOnce
  <2>2. \A u, v \in Thread : Frees(u)' /\ Frees(v)' /\ u # v => op'[u].block # op'[v].block
    BY <1>0, <1>6, <1>7 DEF BlockInv, HeldOnce
  <2> QED
    BY <1>0, <1>1, <2>1, <2>2 DEF BlockInv, HeldOnce
<1>15. NoneLost'
  <2>1. BlocksBeingFreed' = BlocksBeingFreed
    BY <1>2, <1>6, <1>7 DEF BlocksBeingFreed
  <2> QED
    BY <1>0, <1>1, <1>8, <2>1 DEF BlockInv, NoneLost
<1>16. SystemBlocks'
  <2> SUFFICES ASSUME NEW p \in Page, system_pages'[p] # 0
               PROVE  /\ PagesFrom(p, system_pages'[p]) \subseteq foreign'
                      /\ \A q \in Page \ {p} : system_pages'[q] # 0 =>
                           PagesFrom(p, system_pages'[p])
                             \cap PagesFrom(q, system_pages'[q]) = {}
    BY DEF SystemBlocks
  <2>1. p # s /\ system_pages'[p] = system_pages[p]
    BY <1>5
  <2>2. /\ PagesFrom(p, system_pages[p]) \subseteq foreign
        /\ \A q \in Page \ {p} : system_pages[q] # 0 =>
             PagesFrom(p, system_pages[p]) \cap PagesFrom(q, system_pages[q]) = {}
    BY <1>0, <2>1 DEF BlockInv, SystemBlocks
  <2>3. PagesFrom(p, system_pages[p]) \cap PagesFrom(s, n) = {}
    BY <1>3, <1>4, <1>n, <2>1, <2>2
  <2> QED
    BY <1>1, <1>5, <2>1, <2>2, <2>3
<1>17. ASSUME NEW u \in Thread PROVE FreedBlock(u)'
  <2>1. CASE u = t
    BY <1>6, <2>1 DEF Frees, Freeing, FreedBlock, OpAt
  <2>2. CASE u # t
    <3>1. FreedBlock(u) /\ op'[u] = op[u]
      BY <1>0, <1>7, <2>2 DEF BlockInv
    <3>p. PICK x : x = op[u].block
      OBVIOUS
    <3>2. Frees(u) => (InNoSystemBlock(x)' <=> InNoSystemBlock(x))
      BY <1>9, <1>10, <2>2, <3>p
    <3> QED
      BY <1>1, <1>8, <3>1, <3>2, <3>p, OtherFreed
  <2> QED
    BY <2>1, <2>2
<1> QED
  BY <1>11, <1>12, <1>13, <1>14, <1>15, <1>16, <1>17 DEF BlockInv

\* A step that changes nothing.
LEMMA StutterBlocks ==
  ASSUME BlockInv, UNCHANGED vars
  PROVE  BlockInv'
<1>1. /\ lent' = lent /\ radix_tree_' = radix_tree_ /\ page_num_' = page_num_
      /\ foreign' = foreign /\ system_pages' = system_pages /\ call' = call
      /\ mem_block_size_' = mem_block_size_ /\ mem_block_num_' = mem_block_num_
      /\ mem_block_list_' = mem_block_list_ /\ live' = live /\ op' = op
  BY DEF vars, pageCacheVars, heapVars, spanVars
<1>2. /\ \A z : IsCut(z)' <=> IsCut(z)
      /\ \A z : BlocksOf(z)' = BlocksOf(z)
      /\ \A addr : InNoSystemBlock(addr)' <=> InNoSystemBlock(addr)
      /\ \A addr, z : CutFrom(addr, z)' <=> CutFrom(addr, z)
      /\ \A addr : Lookup(addr)' = Lookup(addr)
      /\ LiveAddrs' = LiveAddrs /\ BlocksBeingFreed' = BlocksBeingFreed
      /\ \A u : Frees(u)' <=> Frees(u)
      /\ \A u : Fetched(u)' <=> Fetched(u)
  BY <1>1 DEF IsCut, BlocksOf, Blocks, InNoSystemBlock, CutFrom, LiveAddrs, Lookup,
              BlocksBeingFreed, Frees, Freeing, OpAt, Fetched, Fetching, At
<1>3. FetchedWhole' /\ LentSpansKnown' /\ SpansCut' /\ SystemBlocks'
  BY <1>1, <1>2 DEF BlockInv, FetchedWhole, LentSpansKnown, SpansCut, SystemBlocks
<1>4. HeldBlocks' /\ HeldOnce' /\ NoneLost'
  BY <1>1, <1>2 DEF BlockInv, HeldBlocks, HeldBlock, HeldOnce, NoneLost
<1>5. \A u \in Thread : FreedBlock(u)'
  BY <1>1, <1>2 DEF BlockInv, FreedBlock, OpAt
<1> QED
  BY <1>3, <1>4, <1>5 DEF BlockInv

LEMMA BlockInvStep ==
  ASSUME IInv, HeapInv, [Next]_vars
  PROVE  BlockInv'
<1>0. TypeInv /\ HeapTyped /\ BlockInv
  BY DEF IInv, HeapInv
<1>1. ASSUME NEW t \in Thread, Continue(t) PROVE BlockInv'
  BY <1>1, StepKinds, InsideBlocks, GivesBlocks, CutsBlocks, PutsBackBlocks,
     GivesBackBlocks, QuietBlocks, SystemMallocBlocks, SystemFreeBlocks, FoundSpanBlocks
<1>2. ASSUME NEW t \in Thread, NEW r \in Requests, MyMalloc(t, r) PROVE BlockInv'
  BY <1>0, <1>2, MyMallocQuiet, QuietBlocks
<1> QED
  BY <1>0, <1>1, <1>2, MyFreeBlocks, StutterBlocks, NextCases

-----------------------------------------------------------------------------
(* The types *)

\* What a step of a call under way does to op, to live and to the caches made.
LEMMA ContinueStep ==
  ASSUME IInv, HeapInv, NEW t \in Thread, Continue(t)
  PROVE  /\ op[t].at # "idle" /\ OpStays(t) /\ op' \in [Thread -> OpRecord]
         /\ tls_thread_cache' = tls_thread_cache
         /\ live' = live
              \/ \E b \in Addr : /\ op[t].size \in Requests
                                 /\ live' = live \cup {[addr |-> b, size |-> op[t].size,
                                                        by |-> t]}
<1>0. TypeInv /\ HeapTyped /\ SizeKnown(t) /\ CallsPageCache(t) /\ BlockInv
  BY DEF IInv, HeapInv
<1>1. CASE Inside(t) /\ UNCHANGED heapVars
  <2>1. op' = op /\ live' = live /\ tls_thread_cache' = tls_thread_cache
    BY <1>1 DEF heapVars, cacheVars
  <2>2. op[t].at # "idle"
    BY <1>0, <1>1, InsideStep DEF CallsPageCache, Fetching, Releasing
  <2> QED
    BY <1>0, <2>1, <2>2 DEF OpStays, HeapTyped
<1>2. CASE \/ DistributeMem(t) \/ SearchFinds(t) \/ SpanFetched(t) \/ CentralFetched(t)
           \/ SystemMalloc(t)
  <2>1. /\ op[t].at # "idle" /\ OpStays(t) /\ op' \in [Thread -> OpRecord]
        /\ op[t].at \in {"thread malloc", "central search", "thread fetch",
                         "central fetch", "system malloc"}
    BY <1>0, <1>2, ControlStep DEF Moves
  <2>2. op[t].size \in Requests
    BY <1>0, <2>1 DEF SizeKnown, Asks
  <2>3. tls_thread_cache' = tls_thread_cache
    BY <1>2 DEF DistributeMem, SearchFinds, SpanFetched, CentralFetched, SystemMalloc,
                cacheVars
  <2>4. \/ \E s, b : Gives(t, s, b)
        \/ \E b : Cuts(t, b)
        \/ PutsBack(t) \/ GivesBack(t) \/ Quiet(t)
        \/ SystemMalloc(t) \/ SystemFree(t) \/ FoundSpan(t)
        \/ Inside(t) /\ UNCHANGED heapVars
    BY StepKinds
  <2>5. ASSUME NEW b \in Addr, GiveOut(t, b)
        PROVE  live' = live \/ \E c \in Addr :
                 live' = live \cup {[addr |-> c, size |-> op[t].size, by |-> t]}
    BY <2>5 DEF GiveOut
  <2>6. ASSUME NEW s, NEW b, Gives(t, s, b) PROVE b \in Addr /\ GiveOut(t, b)
    <3>1. s \in Page /\ b \in mem_block_list_[s]
      BY <2>6 DEF Gives
    <3> QED
      BY <1>0, <2>6, <3>1 DEF Gives, HeapTyped
  <2>7. ASSUME NEW b, Cuts(t, b) PROVE b \in Addr /\ GiveOut(t, b)
    <3>1. call[t].span \in lent /\ b \in Fresh(t)
      BY <1>0, <2>7 DEF Cuts, BlockInv, FetchedWhole
    <3>2. CeilMemSize(op[t].size) \in Nat \ {0}
      BY <2>2, BlockSize
    <3>3. b \in Addr
      BY <3>1, <3>2, BlockPage DEF Fresh
    <3> QED
      BY <2>7, <3>3 DEF Cuts
  <2>8. ASSUME SystemMalloc(t) PROVE \E b \in Addr : GiveOut(t, b)
    <3>1. PICK s \in Page : GiveOut(t, SystemAddr(s))
      BY <2>8 DEF SystemMalloc, MapPlaces, SystemAddr
    <3> QED
      BY <3>1, SystemAddrFacts
  <2>9. ASSUME \/ PutsBack(t) \/ GivesBack(t) \/ Quiet(t) \/ SystemFree(t) \/ FoundSpan(t)
               \/ Inside(t) /\ UNCHANGED heapVars
        PROVE  live' = live
    BY <2>9 DEF PutsBack, GivesBack, Quiet, SystemFree, FoundSpan, heapVars
  <2> QED
    BY <2>1, <2>2, <2>3, <2>4, <2>5, <2>6, <2>7, <2>8, <2>9
<1>3. CASE \/ FetchSpanFromPageCache(t) \/ LockCentral(t) \/ SearchFails(t)
           \/ SystemMallocFails(t) \/ SystemFree(t) \/ TakeBackMem(t)
           \/ ReleaseSpanToPageCache(t) \/ SpanReleased(t) \/ LockCentralToFree(t)
           \/ TakeBackMemBlock(t) \/ ReleaseCentralSpan(t) \/ CentralReleased(t)
  <2>1. op[t].at # "idle" /\ OpStays(t) /\ op' \in [Thread -> OpRecord]
    BY <1>0, <1>3, ControlStep DEF Moves
  <2>2. live' = live /\ tls_thread_cache' = tls_thread_cache
    BY <1>3 DEF FetchSpanFromPageCache, LockCentral, SearchFails, SystemMallocFails,
         SystemFree, TakeBackMem, ReleaseSpanToPageCache, SpanReleased, LockCentralToFree,
         TakeBackMemBlock, ReleaseCentralSpan, CentralReleased, cacheVars
  <2> QED
    BY <2>1, <2>2
<1>4. CASE FoundSpan(t)
  <2>1. op[t].span \in Page /\ op[t].at = "found"
    BY <1>0, <1>4 DEF FoundSpan, BlockInv, FreedBlock, OpAt
  <2>2. OpStays(t) /\ op' \in [Thread -> OpRecord]
    BY <1>0, <1>4, <2>1, FoundSpanStep
  <2>3. live' = live /\ tls_thread_cache' = tls_thread_cache
    BY <1>4 DEF FoundSpan, cacheVars
  <2> QED
    BY <2>1, <2>2, <2>3
<1> QED
  BY <1>1, <1>2, <1>3, <1>4 DEF Continue

\* What a step of a call under way does to the spans and to the system blocks.
LEMMA ContinueSpans ==
  ASSUME IInv, HeapInv, NEW t \in Thread, Continue(t)
  PROVE  /\ mem_block_size_' \in [Page -> BlockSizes \cup {-1}]
         /\ mem_block_num_' \in [Page -> Int]
         /\ mem_block_list_' \in [Page -> SUBSET Addr]
         /\ system_pages' \in [Page -> Nat]
<1>0. TypeInv /\ HeapTyped /\ SizeKnown(t) /\ BlockInv
  BY DEF IInv, HeapInv
<1>1. /\ mem_block_size_ \in [Page -> BlockSizes \cup {-1}]
      /\ mem_block_num_ \in [Page -> Int]
      /\ mem_block_list_ \in [Page -> SUBSET Addr]
      /\ system_pages \in [Page -> Nat]
  BY <1>0 DEF HeapTyped
<1>2. ASSUME \/ Inside(t) /\ UNCHANGED heapVars
             \/ Quiet(t) \/ FoundSpan(t)
      PROVE  UNCHANGED <<spanVars, system_pages>>
  BY <1>2 DEF heapVars, Quiet, FoundSpan
<1>3. ASSUME NEW s, NEW b, Gives(t, s, b)
      PROVE  /\ mem_block_list_' \in [Page -> SUBSET Addr]
             /\ UNCHANGED <<mem_block_size_, mem_block_num_, system_pages>>
  <2>1. s \in Page
    BY <1>3 DEF Gives
  <2>2. mem_block_list_[s] \ {b} \in SUBSET Addr
    BY <1>1, <2>1
  <2> QED
    BY <1>1, <1>3, <2>2 DEF Gives
<1>4. ASSUME NEW b, Cuts(t, b)
      PROVE  /\ mem_block_size_' \in [Page -> BlockSizes \cup {-1}]
             /\ mem_block_num_' \in [Page -> Int]
             /\ mem_block_list_' \in [Page -> SUBSET Addr]
             /\ UNCHANGED system_pages
  <2> DEFINE s == call[t].span
             size == CeilMemSize(op[t].size)
             n == page_num_[s]
  <2>1. s \in lent /\ op[t].size \in Requests /\ MallocRoute(op[t].size) # "system"
    BY <1>0, <1>4 DEF Cuts, Fetched, Fetching, BlockInv, FetchedWhole, SizeKnown, Asks
  <2>2. size \in BlockSizes /\ size \in Nat \ {0} /\ n \in Nat
    BY <2>1, BlockSize, LentSpan
  <2>3. BlockNum(n, size) \in Int
    <3>1. n * kPageSize - kSpanHeadSize \in Int
      BY <2>2, SizesTyped
    <3> QED
      BY <2>2, <3>1 DEF BlockNum
  <2>4. Fresh(t) \ {b} \in SUBSET Addr
    BY <2>1, <2>2, BlockPage DEF Fresh
  <2>5. /\ mem_block_list_' = [mem_block_list_ EXCEPT ![s] = Fresh(t) \ {b}]
        /\ mem_block_size_' = [mem_block_size_ EXCEPT ![s] = size]
        /\ mem_block_num_' = [mem_block_num_ EXCEPT ![s] = BlockNum(n, size)]
        /\ UNCHANGED system_pages
    BY <1>4 DEF Cuts
  <2> HIDE DEF s, size, n
  <2> QED
    BY <1>1, <2>2, <2>3, <2>4, <2>5
<1>5. ASSUME PutsBack(t)
      PROVE  /\ mem_block_list_' \in [Page -> SUBSET Addr]
             /\ UNCHANGED <<mem_block_size_, mem_block_num_, system_pages>>
  <2>1. op[t].span \in Page /\ BlocksBack(t) \subseteq BlocksOf(op[t].span)
        /\ IsCut(op[t].span)
    BY <1>5, BlockGoesBack DEF PutsBack
  <2>2. BlocksBack(t) \in SUBSET Addr
    BY <1>0, <2>1, CutSpan DEF BlockInv
  <2> QED
    BY <1>1, <1>5, <2>2 DEF PutsBack
<1>6. ASSUME GivesBack(t)
      PROVE  /\ mem_block_size_' \in [Page -> BlockSizes \cup {-1}]
             /\ mem_block_num_' \in [Page -> Int]
             /\ mem_block_list_' \in [Page -> SUBSET Addr]
             /\ UNCHANGED system_pages
  <2>1. PICK s : s = op[t].span
    OBVIOUS
  <2>2. /\ mem_block_list_' = [mem_block_list_ EXCEPT ![s] = {}]
        /\ mem_block_num_' = [mem_block_num_ EXCEPT ![s] = 0]
        /\ mem_block_size_' = [mem_block_size_ EXCEPT ![s] = -1]
        /\ UNCHANGED system_pages
    BY <1>6, <2>1 DEF GivesBack, Merge
  <2>3. {} \in SUBSET Addr /\ 0 \in Int /\ -1 \in BlockSizes \cup {-1}
    OBVIOUS
  <2> QED
    BY <1>1, <2>2, <2>3
<1>7. ASSUME SystemMalloc(t)
      PROVE  UNCHANGED spanVars /\ system_pages' \in [Page -> Nat]
  <2> DEFINE n == SystemPages(CeilMemSize(op[t].size))
  <2>2. n \in Nat
    BY <1>0, <1>7, SystemMallocPages
  <2>3. PICK s \in Page : system_pages' = [system_pages EXCEPT ![s] = n]
    BY <1>7 DEF SystemMalloc, MapPlaces
  <2> HIDE DEF n
  <2> QED
    BY <1>1, <1>7, <2>2, <2>3 DEF SystemMalloc
<1>8. ASSUME SystemFree(t)
      PROVE  UNCHANGED spanVars /\ system_pages' \in [Page -> Nat]
  BY <1>1, <1>8 DEF SystemFree
<1> QED
  BY <1>1, <1>2, <1>3, <1>4, <1>5, <1>6, <1>7, <1>8, StepKinds DEF spanVars

\* ... and to the lists of the caches.
LEMMA ContinueLists ==
  ASSUME IInv, HeapInv, NEW t \in Thread, Continue(t)
  PROVE  /\ tc_span_lists_' \in [Thread -> [Slots -> SUBSET Page]]
         /\ cc_span_lists_' \in [Slots -> SUBSET Page]
         /\ cc_latch' \in [Slots -> Thread \cup {nobody}]
<1>0. TypeInv /\ HeapTyped /\ BlockInv
  BY DEF IInv, HeapInv
<1>1. /\ tc_span_lists_ \in [Thread -> [Slots -> SUBSET Page]]
      /\ cc_span_lists_ \in [Slots -> SUBSET Page]
      /\ cc_latch \in [Slots -> Thread \cup {nobody}]
  BY <1>0 DEF HeapTyped
<1>2. ASSUME NEW slot, NEW L, L \in SUBSET Page,
             tc_span_lists_' = [tc_span_lists_ EXCEPT ![t][slot] = L]
      PROVE  tc_span_lists_' \in [Thread -> [Slots -> SUBSET Page]]
  BY <1>1, <1>2
<1>t. ASSUME NEW slot, NEW s \in Page
      PROVE  /\ [tc_span_lists_ EXCEPT ![t][slot] = @ \cup {s}] \in [Thread -> [Slots -> SUBSET Page]]
             /\ [tc_span_lists_ EXCEPT ![t][slot] = @ \ {s}] \in [Thread -> [Slots -> SUBSET Page]]
             /\ [tc_span_lists_ EXCEPT ![t][slot] = @] \in [Thread -> [Slots -> SUBSET Page]]
  <2>1. tc_span_lists_[t] \in [Slots -> SUBSET Page]
    BY <1>1
  <2>2. /\ [tc_span_lists_[t] EXCEPT ![slot] = @ \cup {s}] \in [Slots -> SUBSET Page]
        /\ [tc_span_lists_[t] EXCEPT ![slot] = @ \ {s}] \in [Slots -> SUBSET Page]
        /\ [tc_span_lists_[t] EXCEPT ![slot] = @] \in [Slots -> SUBSET Page]
    BY <2>1
  <2> QED
    BY <1>1, <2>2
<1>c. ASSUME NEW slot, NEW s \in Page
      PROVE  /\ [cc_span_lists_ EXCEPT ![slot] = @ \cup {s}] \in [Slots -> SUBSET Page]
             /\ [cc_span_lists_ EXCEPT ![slot] = @ \ {s}] \in [Slots -> SUBSET Page]
  BY <1>1
<1>l. ASSUME NEW slot, UnlockSlot(slot) \/ LockSlot(slot, t)
      PROVE  cc_latch' \in [Slots -> Thread \cup {nobody}]
  BY <1>1, <1>l DEF UnlockSlot, LockSlot
<1>k. ASSUME NEW size, NEW s \in Page, NEW used, KeepIfBlocksLeft(t, size, s, used)
      PROVE  tc_span_lists_' \in [Thread -> [Slots -> SUBSET Page]]
  BY <1>t, <1>k DEF KeepIfBlocksLeft
<1>f. Fetched(t) => call[t].span \in Page
  BY <1>0, LentSpan DEF BlockInv, FetchedWhole
<1>b. op[t].at \in {"thread free", "central put"} => op[t].span \in Page
  BY BlockGoesBack
<1>3. CASE DistributeMem(t)
  <2>1. PICK s \in TcList(t, CeilMemSize(op[t].size)) : \E used :
          KeepIfBlocksLeft(t, CeilMemSize(op[t].size), s, used)
    BY <1>3 DEF DistributeMem
  <2>2. op[t].size \in Requests
    BY <1>3 DEF HeapInv, SizeKnown, Asks, DistributeMem, OpAt
  <2>3. Size2Slot(CeilMemSize(op[t].size)) \in Slots
    BY <2>2, BlockSize
  <2>4. tc_span_lists_[t] \in [Slots -> SUBSET Page]
    BY <1>1
  <2>5. s \in Page
    BY <2>1, <2>3, <2>4 DEF TcList
  <2> QED
    BY <1>1, <1>3, <1>k, <2>1, <2>5 DEF DistributeMem
<1>4. CASE SpanFetched(t)
  <2>1. call[t].span \in Page
    BY <1>4, <1>f DEF SpanFetched, Fetched, Fetching, OpAt
  <2> QED
    BY <1>1, <1>4, <1>k, <2>1 DEF SpanFetched
<1>5. CASE CentralFetched(t)
  <2>1. call[t].span \in Page
    BY <1>5, <1>f DEF CentralFetched, Fetched, Fetching, OpAt
  <2> QED
    BY <1>1, <1>5, <1>c, <1>l, <2>1 DEF CentralFetched
<1>6. CASE TakeBackMem(t)
  <2>1. op[t].span \in Page
    BY <1>6, <1>b DEF TakeBackMem, OpAt
  <2>2. tc_span_lists_' \in [Thread -> [Slots -> SUBSET Page]]
    BY <1>6, <1>t, <2>1 DEF TakeBackMem, ListSpanAgain
  <2> QED
    BY <1>1, <1>6, <2>2 DEF TakeBackMem
<1>7. CASE ReleaseSpanToPageCache(t)
  <2>1. op[t].span \in Page
    BY <1>7, <1>b DEF ReleaseSpanToPageCache, OpAt
  <2> QED
    BY <1>1, <1>7, <1>t, <2>1 DEF ReleaseSpanToPageCache
<1>8. CASE ReleaseCentralSpan(t)
  <2>1. op[t].span \in Page
    BY <1>8, <1>b DEF ReleaseCentralSpan, OpAt
  <2> QED
    BY <1>1, <1>8, <1>c, <2>1 DEF ReleaseCentralSpan, RemoveFromSlot
<1>9. CASE LockCentral(t) \/ SearchFinds(t) \/ LockCentralToFree(t) \/ TakeBackMemBlock(t)
           \/ CentralReleased(t)
  BY <1>1, <1>9, <1>l
     DEF LockCentral, SearchFinds, LockCentralToFree, TakeBackMemBlock, CentralReleased
<1>10. CASE \/ Inside(t) /\ UNCHANGED heapVars
            \/ FetchSpanFromPageCache(t) \/ SearchFails(t) \/ SystemMalloc(t)
            \/ SystemMallocFails(t) \/ SystemFree(t) \/ FoundSpan(t) \/ SpanReleased(t)
  BY <1>1, <1>10
     DEF heapVars, cacheVars, FetchSpanFromPageCache, SearchFails, SystemMalloc,
         SystemMallocFails, SystemFree, FoundSpan, SpanReleased
<1> QED
  BY <1>3, <1>4, <1>5, <1>6, <1>7, <1>8, <1>9, <1>10 DEF Continue

LEMMA HeapTypedStep ==
  ASSUME IInv, HeapInv, [Next]_vars
  PROVE  HeapTyped'
<1>0. TypeInv /\ HeapTyped
  BY DEF IInv, HeapInv
<1>1. CASE UNCHANGED vars
  BY <1>0, <1>1 DEF vars, heapVars, spanVars, cacheVars, HeapTyped
<1>2. ASSUME NEW t \in Thread, Continue(t) PROVE HeapTyped'
  <2>1. live' \in SUBSET Holding
    BY <1>0, <1>2, ContinueStep DEF HeapTyped, Holding
  <2>2. tls_thread_cache' \in [Thread -> BOOLEAN]
    BY <1>0, <1>2, ContinueStep DEF HeapTyped
  <2> QED
    BY <1>2, <2>1, <2>2, ContinueStep, ContinueSpans, ContinueLists DEF HeapTyped
<1>3. ASSUME NEW t \in Thread, NEW r \in Requests, MyMalloc(t, r) PROVE HeapTyped'
  <2>1. op' \in [Thread -> OpRecord]
    BY <1>0, <1>3, MyMallocStep
  <2>2. tls_thread_cache' \in [Thread -> BOOLEAN]
    BY <1>0, <1>3 DEF MyMalloc, MakeThreadCache, HeapTyped
  <2> QED
    BY <1>0, <1>3, <2>1, <2>2 DEF MyMalloc, HeapTyped, spanVars
<1>4. ASSUME NEW t \in Thread, NEW b \in live, MyFree(t, b) PROVE HeapTyped'
  <2>1. op' \in [Thread -> OpRecord] /\ live' = live \ {b}
        /\ UNCHANGED <<spanVars, cacheVars, system_pages>>
    BY <1>0, <1>4, MyFreeStep
  <2> QED
    BY <1>0, <2>1 DEF HeapTyped, spanVars, cacheVars
<1> QED
  BY <1>1, <1>2, <1>3, <1>4, NextCases

LEMMA CachesMadeStep ==
  ASSUME IInv, HeapInv, [Next]_vars
  PROVE  CachesMade'
<1>0. TypeInv /\ HeapTyped /\ CachesMade
  BY DEF IInv, HeapInv
<1> SUFFICES ASSUME ~CrossThreadFree
             PROVE  \A t \in Thread :
                      (op'[t].at # "idle" \/ \E b \in live' : b.by = t) => tls_thread_cache'[t]
  BY DEF CachesMade, OpAt
<1>1. \A t \in Thread :
        (op[t].at # "idle" \/ \E b \in live : b.by = t) => tls_thread_cache[t]
  BY <1>0 DEF CachesMade, OpAt
<1>2. CASE UNCHANGED vars
  BY <1>1, <1>2 DEF vars, heapVars, cacheVars
<1>3. ASSUME NEW t \in Thread, Continue(t), NEW u \in Thread,
             op'[u].at # "idle" \/ \E b \in live' : b.by = u
      PROVE  tls_thread_cache'[u]
  <2>1. \A b \in live' : b \in live \/ b.by = t
    BY <1>3, ContinueStep
  <2>2. op[t].at # "idle" /\ OpStays(t) /\ tls_thread_cache' = tls_thread_cache
    BY <1>3, ContinueStep
  <2>3. u # t => op'[u] = op[u]
    BY <2>2 DEF OpStays
  <2> QED
    BY <1>1, <1>3, <2>1, <2>2, <2>3
<1>4. ASSUME NEW t \in Thread, NEW r \in Requests, MyMalloc(t, r), NEW u \in Thread,
             op'[u].at # "idle" \/ \E b \in live' : b.by = u
      PROVE  tls_thread_cache'[u]
  <2>1. OpStays(t)
    BY <1>0, <1>4, MyMallocStep
  <2>2. tls_thread_cache' = [tls_thread_cache EXCEPT ![t] = TRUE] /\ live' = live
        /\ tls_thread_cache \in [Thread -> BOOLEAN]
    BY <1>0, <1>4 DEF MyMalloc, MakeThreadCache, HeapTyped
  <2>3. CASE u = t
    BY <2>2, <2>3
  <2>4. CASE u # t
    BY <1>1, <1>4, <2>1, <2>2, <2>4 DEF OpStays
  <2> QED
    BY <2>3, <2>4
<1>5. ASSUME NEW t \in Thread, NEW b \in live, MyFree(t, b), NEW u \in Thread,
             op'[u].at # "idle" \/ \E c \in live' : c.by = u
      PROVE  tls_thread_cache'[u]
  <2>1. OpStays(t) /\ live' = live \ {b} /\ UNCHANGED cacheVars
    BY <1>0, <1>5, MyFreeStep
  <2>2. b.by = t
    BY <1>5 DEF MyFree
  <2> QED
    BY <1>1, <1>5, <2>1, <2>2 DEF OpStays, cacheVars
<1> QED
  BY <1>2, <1>3, <1>4, <1>5, NextCases

-----------------------------------------------------------------------------
(* The lists of the caches *)

SlotOf(s) == Size2Slot(mem_block_size_[s])
RouteOf(s) == FreeRoute(mem_block_size_[s])

\* What a list says of a span in it.
ListedRight(s, slot, route) == IsCut(s) /\ RouteOf(s) = route /\ slot = SlotOf(s)

\* The lists are right if they are for one span and nothing about the others
\* has changed.
LEMMA ListsExcept ==
  ASSUME HeapInv, HeapTyped', NEW s,
         \A z \in Page \ {s} :
           /\ mem_block_size_'[z] = mem_block_size_[z]
           /\ \A u \in Thread, slot \in Slots :
                z \in tc_span_lists_'[u][slot] <=> z \in tc_span_lists_[u][slot]
           /\ \A slot \in Slots : z \in cc_span_lists_'[slot] <=> z \in cc_span_lists_[slot]
           /\ IsCut(z) /\ RouteOf(z) = "thread" =>
                /\ mem_block_list_'[z] = {} <=> mem_block_list_[z] = {}
                /\ \A u \in Thread : OnlyIn(z, u) => OnlyIn(z, u)',
         s \in Page =>
           /\ IsCut(s)' => SpanListed(s)'
           /\ \A u \in Thread, slot \in Slots :
                s \in tc_span_lists_'[u][slot] => ListedRight(s, slot, "thread")'
           /\ \A slot \in Slots :
                s \in cc_span_lists_'[slot] => ListedRight(s, slot, "central")'
  PROVE  ListInv'
<1>0. ListInv
  BY DEF HeapInv
<1>1. /\ \A u \in Thread, slot \in Slots : tc_span_lists_'[u][slot] \subseteq Page
      /\ \A slot \in Slots : cc_span_lists_'[slot] \subseteq Page
  BY DEF HeapTyped
<1>2. ASSUME NEW z \in Page \ {s}
      PROVE  /\ IsCut(z)' <=> IsCut(z)
             /\ RouteOf(z)' = RouteOf(z) /\ SlotOf(z)' = SlotOf(z)
  BY <1>2 DEF IsCut, RouteOf, SlotOf
<1>3. ASSUME NEW z \in Page, IsCut(z)' PROVE SpanListed(z)'
  <2>1. CASE z = s
    BY <1>3, <2>1
  <2>2. CASE z # s
    <3>1. SpanListed(z) /\ IsCut(z)
      BY <1>0, <1>2, <1>3, <2>2 DEF ListInv
    <3>2. /\ RouteOf(z) \in {"thread", "central"}
          /\ RouteOf(z) = "central" => z \in cc_span_lists_[SlotOf(z)]
          /\ RouteOf(z) = "thread" =>
               \E u \in Thread :
                  /\ OnlyIn(z, u)
                  /\ z \in tc_span_lists_[u][SlotOf(z)] <=> mem_block_list_[z] # {}
                  /\ \A v \in Thread \ {u} : z \notin tc_span_lists_[v][SlotOf(z)]
      BY <3>1 DEF SpanListed, RouteOf, SlotOf
    <3>3. SlotOf(z) \in Slots
      <4>1. mem_block_size_[z] \in BlockSizes
        BY <3>1 DEF HeapInv, HeapTyped, IsCut
      <4> QED
        BY <4>1, BlockSizesTyped DEF SlotOf
    <3>4. RouteOf(z) = "central" => z \in cc_span_lists_'[SlotOf(z)]
      BY <2>2, <3>2, <3>3
    <3>5. RouteOf(z) = "thread" =>
               \E u \in Thread :
                  /\ OnlyIn(z, u)'
                  /\ z \in tc_span_lists_'[u][SlotOf(z)] <=> mem_block_list_'[z] # {}
                  /\ \A v \in Thread \ {u} : z \notin tc_span_lists_'[v][SlotOf(z)]
      <4> SUFFICES ASSUME RouteOf(z) = "thread"
                   PROVE  \E u \in Thread :
                  /\ OnlyIn(z, u)'
                  /\ z \in tc_span_lists_'[u][SlotOf(z)] <=> mem_block_list_'[z] # {}
                  /\ \A v \in Thread \ {u} : z \notin tc_span_lists_'[v][SlotOf(z)]
        OBVIOUS
      <4>1. PICK u \in Thread :
                  /\ OnlyIn(z, u)
                  /\ z \in tc_span_lists_[u][SlotOf(z)] <=> mem_block_list_[z] # {}
                  /\ \A v \in Thread \ {u} : z \notin tc_span_lists_[v][SlotOf(z)]
        BY <3>2
      <4> QED
        BY <2>2, <3>1, <3>3, <4>1
    <3>6. RouteOf(z)' = RouteOf(z) /\ SlotOf(z)' = SlotOf(z)
      BY <1>2, <2>2
    <3>7. SlotOf(z)' = Size2Slot(mem_block_size_'[z]) /\ RouteOf(z)' = FreeRoute(mem_block_size_'[z])
      BY DEF SlotOf, RouteOf
    <3> QED
      BY <3>2, <3>4, <3>5, <3>6, <3>7 DEF SpanListed
  <2> QED
    BY <2>1, <2>2
<1>4. ASSUME NEW u \in Thread, NEW slot \in Slots, NEW z \in tc_span_lists_'[u][slot]
      PROVE  ListedRight(z, slot, "thread")'
  <2>1. z \in Page
    BY <1>1
  <2>2. CASE z # s
    BY <1>0, <1>2, <2>1, <2>2 DEF ListInv, ListedRight, RouteOf, SlotOf
  <2> QED
    BY <2>1, <2>2
<1>5. ASSUME NEW slot \in Slots, NEW z \in cc_span_lists_'[slot]
      PROVE  ListedRight(z, slot, "central")'
  <2>1. z \in Page
    BY <1>1
  <2>2. CASE z # s
    BY <1>0, <1>2, <2>1, <2>2 DEF ListInv, ListedRight, RouteOf, SlotOf
  <2> QED
    BY <2>1, <2>2
<1> QED
  BY <1>3, <1>4, <1>5 DEF ListInv, ListedRight, RouteOf, SlotOf

\* Whose the blocks of a span are stays, whoever calls.
LEMMA OnlyInStays ==
  ASSUME NEW t \in Thread, OpStays(t), NEW z, NEW u \in Thread, OnlyIn(z, u),
         BlocksOf(z)' = BlocksOf(z),
         \A b \in live' : b \in live \/ b.addr \notin BlocksOf(z) \/ b.by = u,
         Freeing(t)' /\ op'[t].block \in BlocksOf(z) =>
           t = u \/ (Freeing(t) /\ op'[t].block = op[t].block)
  PROVE  OnlyIn(z, u)'
<1>1. \A v \in Thread \ {t} : op'[v] = op[v] /\ (Freeing(v)' <=> Freeing(v))
  BY DEF OpStays, Freeing
<1>2. \A b \in live' : b.addr \in BlocksOf(z) => b.by = u
  BY DEF OnlyIn
<1>3. ASSUME NEW v \in Thread, Freeing(v)', op'[v].block \in BlocksOf(z)
      PROVE  v = u
  BY <1>1, <1>3 DEF OnlyIn
<1> QED
  BY <1>2, <1>3 DEF OnlyIn

\* The lists after a step that leaves them alone, and the spans whole or cut.
LEMMA SameLists ==
  ASSUME HeapInv, HeapTyped', NEW t \in Thread, OpStays(t),
         UNCHANGED <<mem_block_size_, mem_block_num_, tc_span_lists_, cc_span_lists_>>,
         \A z \in Page : IsCut(z) /\ RouteOf(z) = "thread" =>
           /\ mem_block_list_'[z] = mem_block_list_[z]
           /\ \A b \in live' \ live : b.addr \notin BlocksOf(z)
           /\ Freeing(t)' /\ op'[t].block \in BlocksOf(z) =>
                \/ \E b \in live : b.addr = op'[t].block /\ b.by = t
                \/ Freeing(t) /\ op'[t].block = op[t].block
  PROVE  ListInv'
<1>1. \A z : BlocksOf(z)' = BlocksOf(z)
  BY DEF BlocksOf, Blocks
<1>2. ASSUME NEW z \in Page, IsCut(z), RouteOf(z) = "thread", NEW u \in Thread, OnlyIn(z, u)
      PROVE  OnlyIn(z, u)'
  <2>1. Freeing(t)' /\ op'[t].block \in BlocksOf(z) =>
           t = u \/ (Freeing(t) /\ op'[t].block = op[t].block)
    BY <1>2 DEF OnlyIn
  <2>2. \A b \in live' : b \in live \/ b.addr \notin BlocksOf(z) \/ b.by = u
    BY <1>2
  <2> QED
    BY <1>1, <1>2, <2>1, <2>2, OnlyInStays
<1>3. \A z \in Page \ {null} :
        /\ mem_block_size_'[z] = mem_block_size_[z]
        /\ \A u \in Thread, slot \in Slots :
             z \in tc_span_lists_'[u][slot] <=> z \in tc_span_lists_[u][slot]
        /\ \A slot \in Slots : z \in cc_span_lists_'[slot] <=> z \in cc_span_lists_[slot]
        /\ IsCut(z) /\ RouteOf(z) = "thread" =>
             /\ mem_block_list_'[z] = {} <=> mem_block_list_[z] = {}
             /\ \A u \in Thread : OnlyIn(z, u) => OnlyIn(z, u)'
  BY <1>2
<1>4. null \notin Page
  BY PageCacheAssumption DEF PageCacheAssumption
<1> QED
  BY <1>3, <1>4, ListsExcept

LEMMA BlockOfOne ==
  ASSUME IInv, HeapInv, NEW s \in Page, NEW z \in Page, IsCut(s), IsCut(z),
         NEW a, a \in BlocksOf(s), a \in BlocksOf(z)
  PROVE  s = z
<1>1. s \in lent /\ z \in lent /\ PageOf(a) \in PagesOf(s) /\ PageOf(a) \in PagesOf(z)
  BY CutSpan DEF HeapInv, BlockInv
<1> QED
  BY <1>1, LentSpansApart

LEMMA ListsPlace ==
  ASSUME HeapInv, NEW s
  PROVE  /\ \A u \in Thread, slot \in Slots : s \in tc_span_lists_[u][slot] =>
              s \in Page /\ ListedRight(s, slot, "thread")
         /\ \A slot \in Slots : s \in cc_span_lists_[slot] =>
              s \in Page /\ ListedRight(s, slot, "central")
<1>1. /\ \A u \in Thread, slot \in Slots : tc_span_lists_[u][slot] \subseteq Page
      /\ \A slot \in Slots : cc_span_lists_[slot] \subseteq Page
  BY DEF HeapInv, HeapTyped
<1> QED
  BY <1>1 DEF HeapInv, ListInv, ListedRight, RouteOf, SlotOf

\* A thread that has a block of a span of a thread cache, or the span in its
\* list, is the one that owns the span.
LEMMA Owner ==
  ASSUME HeapInv, NEW s \in Page, IsCut(s), RouteOf(s) = "thread", NEW t \in Thread,
         \/ s \in tc_span_lists_[t][SlotOf(s)]
         \/ Freeing(t) /\ op[t].block \in BlocksOf(s)
  PROVE  /\ OnlyIn(s, t) /\ SlotOf(s) \in Slots
         /\ s \in tc_span_lists_[t][SlotOf(s)] <=> mem_block_list_[s] # {}
         /\ \A v \in Thread \ {t} : s \notin tc_span_lists_[v][SlotOf(s)]
<1>1. PICK u \in Thread :
         /\ OnlyIn(s, u)
         /\ s \in tc_span_lists_[u][SlotOf(s)] <=> mem_block_list_[s] # {}
         /\ \A v \in Thread \ {u} : s \notin tc_span_lists_[v][SlotOf(s)]
  BY DEF HeapInv, ListInv, SpanListed, RouteOf, SlotOf
<1>2. u = t
  BY <1>1 DEF OnlyIn
<1>3. mem_block_size_[s] \in BlockSizes
  BY DEF HeapInv, HeapTyped, IsCut
<1> QED
  BY <1>1, <1>2, <1>3, BlockSizesTyped DEF SlotOf

LEMMA DistributeMemLists ==
  ASSUME IInv, HeapInv, HeapTyped', NEW t \in Thread, DistributeMem(t)
  PROVE  ListInv'
<1>0. TypeInv /\ HeapTyped /\ SizeKnown(t) /\ BlockInv
  BY DEF IInv, HeapInv
<1>z. PICK slot : slot = Size2Slot(CeilMemSize(op[t].size))
  OBVIOUS
<1>1. PICK s \in tc_span_lists_[t][slot] : \E b \in mem_block_list_[s] :
        /\ mem_block_list_' = [mem_block_list_ EXCEPT ![s] = mem_block_list_[s] \ {b}]
        /\ KeepIfBlocksLeft(t, CeilMemSize(op[t].size), s, mem_block_list_[s] \ {b})
        /\ GiveOut(t, b)
  BY <1>z DEF DistributeMem, TcList, RemoveBlock
<1>2. PICK b \in mem_block_list_[s] :
        /\ mem_block_list_' = [mem_block_list_ EXCEPT ![s] = mem_block_list_[s] \ {b}]
        /\ KeepIfBlocksLeft(t, CeilMemSize(op[t].size), s, mem_block_list_[s] \ {b})
        /\ GiveOut(t, b)
  BY <1>1
<1>u. PICK used : used = mem_block_list_[s] \ {b}
  OBVIOUS
<1>3. /\ mem_block_size_' = mem_block_size_ /\ mem_block_num_' = mem_block_num_
      /\ cc_span_lists_' = cc_span_lists_ /\ op[t].at = "thread malloc"
  BY DEF DistributeMem, OpAt
<1>4. slot \in Slots
  BY <1>0, <1>3, <1>z, BlockSize DEF SizeKnown, Asks
<1>5. s \in Page /\ IsCut(s) /\ RouteOf(s) = "thread" /\ slot = SlotOf(s)
  BY <1>1, <1>4, ListsPlace DEF ListedRight
<1>6. /\ OnlyIn(s, t)
      /\ \A v \in Thread \ {t} : s \notin tc_span_lists_[v][slot]
  BY <1>1, <1>5, Owner
<1>L. PICK L : L = IF used = {} THEN tc_span_lists_[t][slot] \ {s}
                               ELSE tc_span_lists_[t][slot] \cup {s}
  OBVIOUS
<1>7. tc_span_lists_' = [tc_span_lists_ EXCEPT ![t][slot] = L]
  BY <1>0, <1>2, <1>4, <1>z, <1>u, <1>L DEF KeepIfBlocksLeft, HeapTyped
<1>8. \A u \in Thread, k \in Slots :
        tc_span_lists_'[u][k] = IF u = t /\ k = slot THEN L ELSE tc_span_lists_[u][k]
  <2>1. tc_span_lists_ \in [Thread -> [Slots -> SUBSET Page]]
    BY <1>0 DEF HeapTyped
  <2>2. tc_span_lists_[t] \in [Slots -> SUBSET Page]
    BY <2>1
  <2> QED
    BY <1>4, <1>7, <2>1, <2>2
<1>9. \A z \in Page : mem_block_list_'[z] = IF z = s THEN used ELSE mem_block_list_[z]
  BY <1>0, <1>2, <1>5, <1>u DEF HeapTyped
<1>10. /\ OpStays(t) /\ ~Freeing(t)'
       /\ \A c \in live' : c \in live \/ (c.addr = b /\ c.by = t)
  BY <1>0, <1>2, GiveOutStep
<1>11. \A z : BlocksOf(z)' = BlocksOf(z)
  BY <1>3 DEF BlocksOf, Blocks
<1>12. \A z \in Page : IsCut(z) /\ b \in BlocksOf(z) => z = s
  <2>1. b \in BlocksOf(s)
    BY <1>0, <1>5, CutSpan DEF BlockInv
  <2> QED
    BY <1>5, <2>1, BlockOfOne
<1>13. ASSUME NEW z \in Page, IsCut(z), NEW u \in Thread, OnlyIn(z, u), z # s \/ u = t
       PROVE  OnlyIn(z, u)'
  BY <1>10, <1>11, <1>12, <1>13, OnlyInStays
<1>14. IsCut(s)' /\ RouteOf(s)' = "thread" /\ SlotOf(s)' = slot
  BY <1>3, <1>5 DEF IsCut, RouteOf, SlotOf
<1>15. SpanListed(s)'
  <2>1. /\ OnlyIn(s, t)'
        /\ s \in tc_span_lists_'[t][slot] <=> mem_block_list_'[s] # {}
        /\ \A v \in Thread \ {t} : s \notin tc_span_lists_'[v][slot]
    BY <1>4, <1>5, <1>6, <1>8, <1>9, <1>13, <1>L
  <2> QED
    BY <1>14, <2>1 DEF SpanListed, RouteOf, SlotOf
<1>16. \A u \in Thread, k \in Slots :
         s \in tc_span_lists_'[u][k] => ListedRight(s, k, "thread")'
  <2>1. \A u \in Thread, k \in Slots : s \in tc_span_lists_'[u][k] => k = slot
    BY <1>5, <1>8, <1>L, ListsPlace DEF ListedRight
  <2> QED
    BY <1>14, <2>1 DEF ListedRight
<1>17. \A k \in Slots : s \in cc_span_lists_'[k] => ListedRight(s, k, "central")'
  BY <1>3, <1>5, ListsPlace DEF ListedRight
<1>18. \A z \in Page \ {s} :
         /\ mem_block_size_'[z] = mem_block_size_[z]
         /\ \A u \in Thread, k \in Slots :
              z \in tc_span_lists_'[u][k] <=> z \in tc_span_lists_[u][k]
         /\ \A k \in Slots : z \in cc_span_lists_'[k] <=> z \in cc_span_lists_[k]
         /\ IsCut(z) /\ RouteOf(z) = "thread" =>
              /\ mem_block_list_'[z] = {} <=> mem_block_list_[z] = {}
              /\ \A u \in Thread : OnlyIn(z, u) => OnlyIn(z, u)'
  BY <1>3, <1>8, <1>9, <1>13, <1>L
<1> QED
  BY <1>15, <1>16, <1>17, <1>18, ListsExcept

\* A span that is cut for a request: nobody else has a block of it.
LEMMA CutFresh ==
  ASSUME IInv, HeapInv, NEW t \in Thread, NEW b, Cuts(t, b), NEW s, s = call[t].span,
         NEW size, size = CeilMemSize(op[t].size), NEW fresh, fresh = Fresh(t)
  PROVE  /\ s \in Page /\ ~IsCut(s) /\ IsCut(s)'
         /\ SlotOf(s)' = Size2Slot(size) /\ RouteOf(s)' = FreeRoute(size)
         /\ mem_block_list_'[s] = fresh \ {b}
         /\ \A z \in Page \ {s} : /\ mem_block_size_'[z] = mem_block_size_[z]
                                  /\ mem_block_list_'[z] = mem_block_list_[z]
         /\ OnlyIn(s, t)'
         /\ \A z \in Page \ {s}, u \in Thread : IsCut(z) /\ OnlyIn(z, u) => OnlyIn(z, u)'
         /\ \A u \in Thread, k \in Slots : s \notin tc_span_lists_[u][k]
         /\ \A k \in Slots : s \notin cc_span_lists_[k]
<1>0. BlockInv /\ HeapTyped /\ TypeInv /\ SizeKnown(t)
  BY DEF HeapInv, IInv
<1>m. PICK num : num = BlockNum(page_num_[s], size)
  OBVIOUS
<1>f. fresh = Blocks(s, size, num)
  BY <1>m DEF Fresh
<1>1. Fetched(t) /\ s \in lent /\ ~IsCut(s) /\ s \in Page /\ b \in fresh
  BY <1>0, LentSpan DEF Cuts, BlockInv, FetchedWhole
<1>2. size \in Nat \ {0} /\ size # -1
  <2>1. op[t].size \in Requests
    BY <1>0, <1>1 DEF SizeKnown, Asks, Fetched, Fetching
  <2> QED
    BY <2>1, BlockSize
<1>3. \A z \in Page :
        /\ mem_block_list_'[z] = IF z = s THEN fresh \ {b} ELSE mem_block_list_[z]
        /\ mem_block_size_'[z] = IF z = s THEN size ELSE mem_block_size_[z]
        /\ mem_block_num_'[z] = IF z = s THEN num ELSE mem_block_num_[z]
  BY <1>0, <1>m DEF Cuts, HeapTyped
<1>4. /\ IsCut(s)' /\ SlotOf(s)' = Size2Slot(size) /\ RouteOf(s)' = FreeRoute(size)
  BY <1>1, <1>2, <1>3 DEF IsCut, SlotOf, RouteOf
<1>5. \A z \in Page : BlocksOf(z)' = IF z = s THEN fresh ELSE BlocksOf(z)
  <2>1. \A z \in Page \ {s} : BlocksOf(z)' = BlocksOf(z)
    BY <1>3 DEF BlocksOf, Blocks
  <2>2. BlocksOf(s)' = Blocks(s, mem_block_size_'[s], mem_block_num_'[s])
    BY DEF BlocksOf, Blocks
  <2>3. BlocksOf(s)' = fresh
    BY <1>1, <1>3, <1>f, <2>2
  <2> QED
    BY <2>1, <2>3
<1>6. OpStays(t) /\ ~Freeing(t)' /\ \A c \in live' : c \in live \/ (c.addr = b /\ c.by = t)
  BY <1>0, GiveOutStep DEF Cuts
<1>7. \A a \in fresh : PageOf(a) \in PagesOf(s)
  BY <1>1, <1>2, <1>m, <1>f, BlockPage
<1>8. \A a \in fresh : a \notin LiveAddrs /\ \A u \in Thread : Frees(u) => op[u].block # a
  BY <1>1, <1>7, WholeIsNobodys
<1>9. OnlyIn(s, t)'
  <2>1. \A c \in live' : c.addr \in fresh => c.by = t
    BY <1>6, <1>8 DEF LiveAddrs
  <2>2. \A u \in Thread : Freeing(u)' /\ op'[u].block \in fresh => u = t
    BY <1>6, <1>8 DEF OpStays, Freeing, Frees
  <2> QED
    BY <1>1, <1>5, <2>1, <2>2 DEF OnlyIn
<1>10. ASSUME NEW z \in Page \ {s}, NEW u \in Thread, IsCut(z), OnlyIn(z, u)
       PROVE  OnlyIn(z, u)'
  <2>1. b \notin BlocksOf(z)
    <3> SUFFICES ASSUME b \in BlocksOf(z) PROVE FALSE
      OBVIOUS
    <3>1. z \in lent /\ PageOf(b) \in PagesOf(z) /\ PageOf(b) \in PagesOf(s)
      BY <1>0, <1>1, <1>7, <1>10, CutSpan DEF BlockInv
    <3> QED
      BY <1>1, <1>10, <3>1, LentSpansApart
  <2> QED
    BY <1>5, <1>6, <1>10, <2>1, OnlyInStays
<1>11. \A k \in Slots : s \notin cc_span_lists_[k] /\ \A u \in Thread : s \notin tc_span_lists_[u][k]
  BY <1>1, ListsPlace DEF ListedRight
<1>12. \A z \in Page \ {s} : /\ mem_block_size_'[z] = mem_block_size_[z]
                             /\ mem_block_list_'[z] = mem_block_list_[z]
  BY <1>3
<1>13. mem_block_list_'[s] = fresh \ {b}
  BY <1>1, <1>3
<1> QED
  BY <1>1, <1>4, <1>9, <1>10, <1>11, <1>12, <1>13

\* The two steps that cut.
LEMMA FetchedCuts ==
  ASSUME IInv, HeapInv, NEW t \in Thread
  PROVE  /\ SpanFetched(t) => \E b : /\ Cuts(t, b)
                                     /\ KeepIfBlocksLeft(t, CeilMemSize(op[t].size),
                                                         call[t].span, Fresh(t) \ {b})
         /\ CentralFetched(t) => \E b : Cuts(t, b)
<1> DEFINE s == call[t].span
           size == CeilMemSize(op[t].size)
<1>1. ASSUME SpanFetched(t) \/ CentralFetched(t)
      PROVE  Fetched(t) /\ ~IsCut(s) /\ FreeAfterSplit(s, size) = Fresh(t)
  <2>1. Fetched(t)
    BY <1>1 DEF SpanFetched, CentralFetched, Fetched, Fetching, OpAt
  <2>2. ~IsCut(s)
    BY <2>1 DEF HeapInv, BlockInv, FetchedWhole
  <2> QED
    BY <2>1, <2>2 DEF FreeAfterSplit, IsCut, Fresh
<1>2. ASSUME SpanFetched(t)
      PROVE  \E b : Cuts(t, b) /\ KeepIfBlocksLeft(t, size, s, Fresh(t) \ {b})
  <2>1. PICK b \in FreeAfterSplit(s, size) :
          /\ SplitAndKeep(s, size, RemoveBlock(FreeAfterSplit(s, size), b))
          /\ KeepIfBlocksLeft(t, size, s, RemoveBlock(FreeAfterSplit(s, size), b))
          /\ GiveOut(t, b)
    BY <1>2 DEF SpanFetched
  <2>2. Return(t) /\ UNCHANGED system_pages
    BY <1>2 DEF SpanFetched
  <2>3. Cuts(t, b)
    BY <1>1, <1>2, <2>1, <2>2 DEF Cuts, SplitAndKeep, RemoveBlock, IsCut
  <2>4. KeepIfBlocksLeft(t, size, s, Fresh(t) \ {b})
    BY <1>1, <1>2, <2>1 DEF RemoveBlock
  <2> QED
    BY <2>3, <2>4
<1>3. ASSUME CentralFetched(t) PROVE \E b : Cuts(t, b)
  <2>1. PICK b \in FreeAfterSplit(s, size) :
          /\ SplitAndKeep(s, size, RemoveBlock(FreeAfterSplit(s, size), b))
          /\ GiveOut(t, b)
    BY <1>3 DEF CentralFetched
  <2>2. Return(t) /\ UNCHANGED system_pages
    BY <1>3 DEF CentralFetched
  <2> QED
    BY <1>1, <1>3, <2>1, <2>2 DEF Cuts, SplitAndKeep, RemoveBlock, IsCut
<1> QED
  BY <1>2, <1>3

LEMMA SpanFetchedLists ==
  ASSUME IInv, HeapInv, HeapTyped', NEW t \in Thread, SpanFetched(t)
  PROVE  ListInv'
<1>0. HeapTyped /\ SizeKnown(t)
  BY DEF HeapInv
<1>1. PICK b : /\ Cuts(t, b)
               /\ KeepIfBlocksLeft(t, CeilMemSize(op[t].size), call[t].span, Fresh(t) \ {b})
  BY FetchedCuts
<1>s. PICK s : s = call[t].span
  OBVIOUS
<1>f. PICK fresh : fresh = Fresh(t)
  OBVIOUS
<1>z. PICK size : size = CeilMemSize(op[t].size)
  OBVIOUS
<1>k. PICK slot : slot = Size2Slot(size)
  OBVIOUS
<1>L. PICK L : L = IF fresh \ {b} = {} THEN tc_span_lists_[t][slot] \ {s}
                   ELSE tc_span_lists_[t][slot] \cup {s}
  OBVIOUS
<1>2. Asks(t, "thread")
  BY <1>0 DEF SpanFetched, SizeKnown, OpAt
<1>3. slot \in Slots /\ FreeRoute(size) = "thread"
  BY <1>2, <1>k, <1>z, BlockSize, RouteBack DEF Asks
<1>4. /\ s \in Page /\ ~IsCut(s) /\ IsCut(s)'
      /\ SlotOf(s)' = slot /\ RouteOf(s)' = "thread"
      /\ mem_block_list_'[s] = fresh \ {b}
      /\ OnlyIn(s, t)'
      /\ \A u \in Thread, k \in Slots : s \notin tc_span_lists_[u][k]
      /\ \A k \in Slots : s \notin cc_span_lists_[k]
  BY <1>1, <1>3, <1>s, <1>f, <1>z, <1>k, CutFresh
<1>5. /\ \A z \in Page \ {s} : /\ mem_block_size_'[z] = mem_block_size_[z]
                               /\ mem_block_list_'[z] = mem_block_list_[z]
      /\ \A z \in Page \ {s}, u \in Thread : IsCut(z) /\ OnlyIn(z, u) => OnlyIn(z, u)'
  BY <1>1, <1>s, <1>f, <1>z, CutFresh
<1>6. tc_span_lists_' = [tc_span_lists_ EXCEPT ![t][slot] = L] /\ cc_span_lists_' = cc_span_lists_
  <2>1. tc_span_lists_' = [tc_span_lists_ EXCEPT ![t][slot] = L]
    BY <1>0, <1>1, <1>3, <1>s, <1>f, <1>z, <1>k, <1>L DEF KeepIfBlocksLeft, HeapTyped
  <2> QED
    BY <2>1 DEF SpanFetched
<1>7. \A u \in Thread, k \in Slots :
        tc_span_lists_'[u][k] = IF u = t /\ k = slot THEN L ELSE tc_span_lists_[u][k]
  <2>1. tc_span_lists_ \in [Thread -> [Slots -> SUBSET Page]]
    BY <1>0 DEF HeapTyped
  <2>2. tc_span_lists_[t] \in [Slots -> SUBSET Page]
    BY <2>1
  <2> QED
    BY <1>3, <1>6, <2>1, <2>2
<1>8. SpanListed(s)'
  <2>1. /\ s \in tc_span_lists_'[t][slot] <=> mem_block_list_'[s] # {}
        /\ \A v \in Thread \ {t} : s \notin tc_span_lists_'[v][slot]
    BY <1>3, <1>4, <1>7, <1>L
  <2> QED
    BY <1>4, <2>1 DEF SpanListed, RouteOf, SlotOf
<1>9. /\ \A u \in Thread, k \in Slots :
           s \in tc_span_lists_'[u][k] => ListedRight(s, k, "thread")'
      /\ \A k \in Slots : s \in cc_span_lists_'[k] => ListedRight(s, k, "central")'
  BY <1>4, <1>6, <1>7 DEF ListedRight
<1>10. \A z \in Page \ {s} :
         /\ mem_block_size_'[z] = mem_block_size_[z]
         /\ \A u \in Thread, k \in Slots :
              z \in tc_span_lists_'[u][k] <=> z \in tc_span_lists_[u][k]
         /\ \A k \in Slots : z \in cc_span_lists_'[k] <=> z \in cc_span_lists_[k]
         /\ IsCut(z) /\ RouteOf(z) = "thread" =>
              /\ mem_block_list_'[z] = {} <=> mem_block_list_[z] = {}
              /\ \A u \in Thread : OnlyIn(z, u) => OnlyIn(z, u)'
  BY <1>5, <1>6, <1>7, <1>L
<1> QED
  BY <1>8, <1>9, <1>10, ListsExcept

LEMMA CentralFetchedLists ==
  ASSUME IInv, HeapInv, HeapTyped', NEW t \in Thread, CentralFetched(t)
  PROVE  ListInv'
<1>0. HeapTyped /\ SizeKnown(t)
  BY DEF HeapInv
<1>1. PICK b : Cuts(t, b)
  BY FetchedCuts
<1>s. PICK s : s = call[t].span
  OBVIOUS
<1>f. PICK fresh : fresh = Fresh(t)
  OBVIOUS
<1>z. PICK size : size = CeilMemSize(op[t].size)
  OBVIOUS
<1>k. PICK slot : slot = Size2Slot(size)
  OBVIOUS
<1>2. Asks(t, "central")
  BY <1>0 DEF CentralFetched, SizeKnown, OpAt
<1>3. slot \in Slots /\ FreeRoute(size) = "central"
  BY <1>2, <1>k, <1>z, BlockSize, RouteBack DEF Asks
<1>4. /\ s \in Page /\ ~IsCut(s) /\ IsCut(s)'
      /\ SlotOf(s)' = slot /\ RouteOf(s)' = "central"
      /\ \A u \in Thread, k \in Slots : s \notin tc_span_lists_[u][k]
      /\ \A k \in Slots : s \notin cc_span_lists_[k]
  BY <1>1, <1>3, <1>s, <1>f, <1>z, <1>k, CutFresh
<1>5. /\ \A z \in Page \ {s} : /\ mem_block_size_'[z] = mem_block_size_[z]
                               /\ mem_block_list_'[z] = mem_block_list_[z]
      /\ \A z \in Page \ {s}, u \in Thread : IsCut(z) /\ OnlyIn(z, u) => OnlyIn(z, u)'
  BY <1>1, <1>s, <1>f, <1>z, CutFresh
<1>6. \A k \in Slots : cc_span_lists_'[k] = IF k = slot THEN cc_span_lists_[slot] \cup {s}
                                            ELSE cc_span_lists_[k]
  BY <1>0, <1>3, <1>s, <1>z, <1>k DEF CentralFetched, HeapTyped
<1>7. tc_span_lists_' = tc_span_lists_
  BY DEF CentralFetched
<1>8. SpanListed(s)'
  BY <1>3, <1>4, <1>6 DEF SpanListed, RouteOf, SlotOf
<1>9. /\ \A u \in Thread, k \in Slots :
           s \in tc_span_lists_'[u][k] => ListedRight(s, k, "thread")'
      /\ \A k \in Slots : s \in cc_span_lists_'[k] => ListedRight(s, k, "central")'
  BY <1>4, <1>6, <1>7 DEF ListedRight
<1>10. \A z \in Page \ {s} :
         /\ mem_block_size_'[z] = mem_block_size_[z]
         /\ \A u \in Thread, k \in Slots :
              z \in tc_span_lists_'[u][k] <=> z \in tc_span_lists_[u][k]
         /\ \A k \in Slots : z \in cc_span_lists_'[k] <=> z \in cc_span_lists_[k]
         /\ IsCut(z) /\ RouteOf(z) = "thread" =>
              /\ mem_block_list_'[z] = {} <=> mem_block_list_[z] = {}
              /\ \A u \in Thread : OnlyIn(z, u) => OnlyIn(z, u)'
  BY <1>5, <1>6, <1>7
<1> QED
  BY <1>8, <1>9, <1>10, ListsExcept

LEMMA TakeBackMemLists ==
  ASSUME IInv, HeapInv, HeapTyped', NEW t \in Thread, TakeBackMem(t)
  PROVE  ListInv'
<1>0. HeapTyped /\ TypeInv /\ BlockInv /\ FreedBlock(t)
  BY DEF HeapInv, BlockInv, IInv
<1>s. PICK s : s = op[t].span
  OBVIOUS
<1>p. PICK a : a = op[t].block
  OBVIOUS
<1>f. PICK free : free = mem_block_list_[s] \cup {a}
  OBVIOUS
<1>k. PICK slot : slot = SlotOf(s)
  OBVIOUS
<1>1. /\ Freeing(t) /\ s \in Page /\ IsCut(s) /\ a \in BlocksOf(s) \ mem_block_list_[s]
      /\ BlocksBack(t) = free /\ RouteOf(s) = "thread"
  BY <1>0, <1>s, <1>p, <1>f, BlockGoesBack DEF TakeBackMem, FreedBlock, OpAt, RouteOf
<1>2. /\ OnlyIn(s, t) /\ slot \in Slots
      /\ s \in tc_span_lists_[t][slot] <=> mem_block_list_[s] # {}
      /\ \A v \in Thread \ {t} : s \notin tc_span_lists_[v][slot]
  BY <1>1, <1>p, <1>k, Owner
<1>L. PICK L : L = IF Cardinality(free) = 1 THEN tc_span_lists_[t][slot] \cup {s}
                   ELSE tc_span_lists_[t][slot]
  OBVIOUS
<1>3. tc_span_lists_' = [tc_span_lists_ EXCEPT ![t][slot] = L]
  <2>1. tc_span_lists_' = [tc_span_lists_ EXCEPT ![t][slot] =
                              IF Cardinality(free) = 1 THEN @ \cup {s} ELSE @]
    BY <1>1, <1>s, <1>k DEF TakeBackMem, ListSpanAgain, SlotOf
  <2> QED
    BY <1>0, <1>2, <1>L, <2>1 DEF HeapTyped
<1>4. \A u \in Thread, k \in Slots :
        tc_span_lists_'[u][k] = IF u = t /\ k = slot THEN L ELSE tc_span_lists_[u][k]
  <2>1. tc_span_lists_ \in [Thread -> [Slots -> SUBSET Page]]
    BY <1>0 DEF HeapTyped
  <2>2. tc_span_lists_[t] \in [Slots -> SUBSET Page]
    BY <2>1
  <2> QED
    BY <1>2, <1>3, <2>1, <2>2
<1>5. s \in L
  <2>1. CASE mem_block_list_[s] = {}
    <3>1. free = {a}
      BY <1>f, <2>1
    <3>2. Cardinality(free) = 1
      BY <3>1, FS_Singleton
    <3> QED
      BY <1>L, <3>2
  <2>2. CASE mem_block_list_[s] # {}
    BY <1>2, <1>L, <2>2
  <2> QED
    BY <2>1, <2>2
<1>6. /\ mem_block_size_' = mem_block_size_ /\ mem_block_num_' = mem_block_num_
      /\ cc_span_lists_' = cc_span_lists_ /\ live' = live
      /\ op' = [op EXCEPT ![t] = NoOp]
  BY DEF TakeBackMem
<1>7. \A z \in Page : mem_block_list_'[z] = IF z = s THEN free ELSE mem_block_list_[z]
  BY <1>0, <1>1, <1>s DEF TakeBackMem, HeapTyped
<1>8. OpStays(t) /\ ~Freeing(t)'
  <2>1. OpStays(t) /\ op'[t].at = "idle"
    BY <1>0, <1>6, NoOpTyped, OpSetStep DEF HeapTyped
  <2> QED
    BY <2>1 DEF Freeing
<1>9. \A z : BlocksOf(z)' = BlocksOf(z)
  BY <1>6 DEF BlocksOf, Blocks
<1>10. ASSUME NEW z \in Page, NEW u \in Thread, OnlyIn(z, u) PROVE OnlyIn(z, u)'
  BY <1>6, <1>8, <1>9, <1>10, OnlyInStays
<1>11. IsCut(s)' /\ RouteOf(s)' = "thread" /\ SlotOf(s)' = slot
  BY <1>1, <1>6, <1>k DEF IsCut, RouteOf, SlotOf
<1>12. SpanListed(s)'
  <2>1. /\ OnlyIn(s, t)'
        /\ s \in tc_span_lists_'[t][slot] <=> mem_block_list_'[s] # {}
        /\ \A v \in Thread \ {t} : s \notin tc_span_lists_'[v][slot]
    BY <1>1, <1>2, <1>4, <1>5, <1>7, <1>10, <1>f
  <2> QED
    BY <1>11, <2>1 DEF SpanListed, RouteOf, SlotOf
<1>13. /\ \A u \in Thread, k \in Slots :
            s \in tc_span_lists_'[u][k] => ListedRight(s, k, "thread")'
       /\ \A k \in Slots : s \in cc_span_lists_'[k] => ListedRight(s, k, "central")'
  <2>1. \A u \in Thread, k \in Slots : s \in tc_span_lists_'[u][k] => k = slot
    BY <1>4, <1>k, ListsPlace DEF ListedRight
  <2>2. \A k \in Slots : s \notin cc_span_lists_'[k]
    BY <1>1, <1>6, ListsPlace DEF ListedRight
  <2> QED
    BY <1>11, <2>1, <2>2 DEF ListedRight
<1>14. \A z \in Page \ {s} :
         /\ mem_block_size_'[z] = mem_block_size_[z]
         /\ \A u \in Thread, k \in Slots :
              z \in tc_span_lists_'[u][k] <=> z \in tc_span_lists_[u][k]
         /\ \A k \in Slots : z \in cc_span_lists_'[k] <=> z \in cc_span_lists_[k]
         /\ IsCut(z) /\ RouteOf(z) = "thread" =>
              /\ mem_block_list_'[z] = {} <=> mem_block_list_[z] = {}
              /\ \A u \in Thread : OnlyIn(z, u) => OnlyIn(z, u)'
  BY <1>4, <1>6, <1>7, <1>10, <1>L
<1> QED
  BY <1>12, <1>13, <1>14, ListsExcept

\* A span that goes back to the page cache leaves its list.
LEMMA ReleaseLists ==
  ASSUME IInv, HeapInv, HeapTyped', NEW t \in Thread,
         ReleaseSpanToPageCache(t) \/ ReleaseCentralSpan(t)
  PROVE  ListInv'
<1>0. HeapTyped /\ TypeInv /\ BlockInv /\ FreedBlock(t)
  BY DEF HeapInv, BlockInv, IInv
<1>s. PICK s : s = op[t].span
  OBVIOUS
<1>k. PICK slot : slot = SlotOf(s)
  OBVIOUS
<1>1. op[t].at \in {"thread free", "central put"}
  BY DEF ReleaseSpanToPageCache, ReleaseCentralSpan, OpAt
<1>2. s \in Page /\ IsCut(s) /\ Merge(s) /\ live' = live
  BY <1>1, <1>s, BlockGoesBack DEF ReleaseSpanToPageCache, ReleaseCentralSpan
<1>3. /\ op[t].at = "thread free" => RouteOf(s) = "thread"
      /\ op[t].at = "central put" => RouteOf(s) = "central" /\ op[t].size = mem_block_size_[s]
  BY <1>0, <1>s DEF FreedBlock, OpAt, RouteOf
<1>4. slot \in Slots
  <2>1. mem_block_size_[s] \in BlockSizes
    BY <1>0, <1>2 DEF HeapTyped, IsCut
  <2> QED
    BY <1>k, <2>1, BlockSizesTyped DEF SlotOf
<1>5. \A z \in Page :
        /\ mem_block_list_'[z] = IF z = s THEN {} ELSE mem_block_list_[z]
        /\ mem_block_size_'[z] = IF z = s THEN -1 ELSE mem_block_size_[z]
        /\ mem_block_num_'[z] = IF z = s THEN 0 ELSE mem_block_num_[z]
  BY <1>0, <1>2 DEF Merge, HeapTyped
<1>6. ~IsCut(s)'
  BY <1>2, <1>5 DEF IsCut
<1>7. OpStays(t) /\ ~Freeing(t)'
  <2>1. OpStays(t) /\ op'[t].at \in {"thread release", "central release"}
    BY <1>0, ControlStep DEF Moves, HeapInv
  <2> QED
    BY <2>1 DEF Freeing
<1>8. ASSUME NEW z \in Page \ {s}, NEW u \in Thread, OnlyIn(z, u) PROVE OnlyIn(z, u)'
  <2>1. BlocksOf(z)' = BlocksOf(z)
    BY <1>5 DEF BlocksOf, Blocks
  <2> QED
    BY <1>2, <1>7, <1>8, <2>1, OnlyInStays
<1>9. /\ \A u \in Thread, k \in Slots : s \notin tc_span_lists_'[u][k]
      /\ \A k \in Slots : s \notin cc_span_lists_'[k]
      /\ \A z \in Page \ {s} :
         /\ \A u \in Thread, k \in Slots :
              z \in tc_span_lists_'[u][k] <=> z \in tc_span_lists_[u][k]
         /\ \A k \in Slots : z \in cc_span_lists_'[k] <=> z \in cc_span_lists_[k]
  <2>1. CASE ReleaseSpanToPageCache(t)
    <3>1. RouteOf(s) = "thread"
      BY <1>3, <2>1 DEF ReleaseSpanToPageCache, OpAt
    <3>2. /\ tc_span_lists_' = [tc_span_lists_ EXCEPT ![t][slot] = @ \ {s}]
          /\ cc_span_lists_' = cc_span_lists_
      BY <1>s, <1>k, <2>1 DEF ReleaseSpanToPageCache, SlotOf
    <3>3. tc_span_lists_ \in [Thread -> [Slots -> SUBSET Page]]
      BY <1>0 DEF HeapTyped
    <3>4. tc_span_lists_[t] \in [Slots -> SUBSET Page]
      BY <3>3
    <3>5. \A u \in Thread, k \in Slots :
            tc_span_lists_'[u][k] = IF u = t /\ k = slot THEN tc_span_lists_[t][slot] \ {s}
                                    ELSE tc_span_lists_[u][k]
      BY <1>4, <3>2, <3>3, <3>4
    <3>6. \A v \in Thread \ {t} : s \notin tc_span_lists_[v][slot]
      <4>1. Freeing(t) /\ op[t].block \in BlocksOf(s)
        BY <1>1, <1>s, BlockGoesBack
      <4> QED
        BY <1>2, <1>k, <3>1, <4>1, Owner
    <3>7. \A u \in Thread, k \in Slots : s \in tc_span_lists_[u][k] => k = slot
      BY <1>k, ListsPlace DEF ListedRight
    <3>8. \A k \in Slots : s \notin cc_span_lists_[k]
      BY <3>1, ListsPlace DEF ListedRight
    <3> QED
      BY <3>2, <3>5, <3>6, <3>7, <3>8
  <2>2. CASE ReleaseCentralSpan(t)
    <3>1. RouteOf(s) = "central" /\ op[t].size = mem_block_size_[s]
      BY <1>3, <2>2 DEF ReleaseCentralSpan, OpAt
    <3>2. /\ cc_span_lists_' = [cc_span_lists_ EXCEPT ![slot] = @ \ {s}]
          /\ tc_span_lists_' = tc_span_lists_
      BY <1>s, <1>k, <2>2, <3>1 DEF ReleaseCentralSpan, RemoveFromSlot, SlotOf
    <3>3. \A k \in Slots :
            cc_span_lists_'[k] = IF k = slot THEN cc_span_lists_[slot] \ {s}
                                 ELSE cc_span_lists_[k]
      BY <1>0, <1>4, <3>2 DEF HeapTyped
    <3>4. \A k \in Slots : s \in cc_span_lists_[k] => k = slot
      BY <1>k, ListsPlace DEF ListedRight
    <3>5. \A u \in Thread, k \in Slots : s \notin tc_span_lists_[u][k]
      BY <3>1, ListsPlace DEF ListedRight
    <3> QED
      BY <3>2, <3>3, <3>4, <3>5
  <2> QED
    BY <2>1, <2>2
<1>10. \A z \in Page \ {s} :
         /\ mem_block_size_'[z] = mem_block_size_[z]
         /\ IsCut(z) /\ RouteOf(z) = "thread" =>
              /\ mem_block_list_'[z] = {} <=> mem_block_list_[z] = {}
              /\ \A u \in Thread : OnlyIn(z, u) => OnlyIn(z, u)'
  BY <1>5, <1>8
<1> QED
  BY <1>6, <1>9, <1>10, ListsExcept

\* The steps that leave the lists, the blocks and their spans alone.
LEMMA QuietLists ==
  ASSUME IInv, HeapInv, HeapTyped', NEW t \in Thread,
         \/ Inside(t) /\ UNCHANGED heapVars
         \/ FetchSpanFromPageCache(t) \/ LockCentral(t) \/ SearchFails(t)
         \/ SystemMallocFails(t) \/ SystemFree(t) \/ SpanReleased(t)
         \/ LockCentralToFree(t) \/ CentralReleased(t) \/ FoundSpan(t)
  PROVE  ListInv'
<1>0. TypeInv /\ HeapTyped /\ SizeKnown(t) /\ BlockInv
  BY DEF IInv, HeapInv
<1>1. /\ UNCHANGED <<mem_block_size_, mem_block_num_, tc_span_lists_, cc_span_lists_>>
      /\ mem_block_list_' = mem_block_list_ /\ live' = live
  BY DEF heapVars, spanVars, cacheVars, FetchSpanFromPageCache, LockCentral, SearchFails,
         SystemMallocFails, SystemFree, SpanReleased, LockCentralToFree, CentralReleased,
         FoundSpan
<1>2. OpStays(t) /\ (Freeing(t)' => Freeing(t) /\ op'[t].block = op[t].block)
  <2>1. CASE Inside(t) /\ UNCHANGED heapVars
    BY <2>1 DEF heapVars, OpStays, Freeing
  <2>2. CASE \/ FetchSpanFromPageCache(t) \/ LockCentral(t) \/ SearchFails(t)
             \/ SystemMallocFails(t) \/ SystemFree(t) \/ SpanReleased(t)
             \/ CentralReleased(t)
    <3>1. OpStays(t) /\ op'[t].at \in {"thread fetch", "central search", "central fetch",
                                       "killed", "idle"}
      BY <1>0, <2>2, ControlStep DEF Moves
    <3> QED
      BY <3>1 DEF Freeing
  <2>3. CASE LockCentralToFree(t)
    <3>1. OpStays(t) /\ op[t].at = "central free" /\ Keeps(t)
      BY <1>0, <2>3, ControlStep DEF Moves
    <3> QED
      BY <3>1 DEF Freeing, Keeps
  <2>4. CASE FoundSpan(t)
    <3>1. op[t].at = "found" /\ op[t].span \in Page
      BY <1>0, <2>4 DEF FoundSpan, BlockInv, FreedBlock, OpAt
    <3>2. /\ OpStays(t)
          /\ \/ op'[t].at \in {"undefined", "idle"}
             \/ op'[t].block = op[t].block
      BY <1>0, <2>4, <3>1, FoundSpanStep
    <3> QED
      BY <3>1, <3>2 DEF Freeing
  <2> QED
    BY <2>1, <2>2, <2>3, <2>4
<1> QED
  BY <1>1, <1>2, SameLists

LEMMA SearchFindsLists ==
  ASSUME IInv, HeapInv, HeapTyped', NEW t \in Thread, SearchFinds(t)
  PROVE  ListInv'
<1>0. TypeInv /\ HeapTyped /\ SizeKnown(t) /\ BlockInv
  BY DEF IInv, HeapInv
<1>k. PICK slot : slot = Size2Slot(CeilMemSize(op[t].size))
  OBVIOUS
<1>1. PICK s \in cc_span_lists_[slot] : \E b \in mem_block_list_[s] :
        /\ mem_block_list_' = [mem_block_list_ EXCEPT ![s] = mem_block_list_[s] \ {b}]
        /\ GiveOut(t, b)
  BY <1>k DEF SearchFinds, RemoveBlock
<1>2. PICK b \in mem_block_list_[s] :
        /\ mem_block_list_' = [mem_block_list_ EXCEPT ![s] = mem_block_list_[s] \ {b}]
        /\ GiveOut(t, b)
  BY <1>1
<1>3. slot \in Slots
  BY <1>0, <1>k, BlockSize DEF SearchFinds, SizeKnown, Asks, OpAt
<1>4. s \in Page /\ IsCut(s) /\ RouteOf(s) = "central"
  BY <1>1, <1>3, ListsPlace DEF ListedRight
<1>5. OpStays(t) /\ ~Freeing(t)' /\ \A c \in live' : c \in live \/ c.addr = b
  BY <1>0, <1>2, GiveOutStep
<1>6. b \in BlocksOf(s)
  BY <1>0, <1>4, CutSpan DEF BlockInv
<1>7. ASSUME NEW z \in Page, IsCut(z), RouteOf(z) = "thread"
      PROVE  /\ mem_block_list_'[z] = mem_block_list_[z]
             /\ \A c \in live' \ live : c.addr \notin BlocksOf(z)
  <2>1. z # s
    BY <1>4, <1>7
  <2>2. b \notin BlocksOf(z)
    BY <1>4, <1>6, <1>7, <2>1, BlockOfOne
  <2> QED
    BY <1>0, <1>2, <1>5, <2>1, <2>2 DEF HeapTyped
<1>8. UNCHANGED <<mem_block_size_, mem_block_num_, tc_span_lists_, cc_span_lists_>>
  BY DEF SearchFinds
<1> QED
  BY <1>5, <1>7, <1>8, SameLists

LEMMA TakeBackMemBlockLists ==
  ASSUME IInv, HeapInv, HeapTyped', NEW t \in Thread, TakeBackMemBlock(t)
  PROVE  ListInv'
<1>0. TypeInv /\ HeapTyped /\ FreedBlock(t)
  BY DEF IInv, HeapInv, BlockInv
<1>s. PICK s : s = op[t].span
  OBVIOUS
<1>1. RouteOf(s) = "central"
  BY <1>0, <1>s DEF TakeBackMemBlock, FreedBlock, OpAt, RouteOf
<1>2. /\ UNCHANGED <<mem_block_size_, mem_block_num_, tc_span_lists_, cc_span_lists_>>
      /\ live' = live
      /\ mem_block_list_' = [mem_block_list_ EXCEPT ![s] = BlocksBack(t)]
  BY <1>s DEF TakeBackMemBlock
<1>3. OpStays(t) /\ ~Freeing(t)'
  <2>1. OpStays(t) /\ op'[t].at = "idle"
    BY <1>0, ControlStep DEF Moves, HeapInv
  <2> QED
    BY <2>1 DEF Freeing
<1>4. \A z \in Page : RouteOf(z) = "thread" => mem_block_list_'[z] = mem_block_list_[z]
  BY <1>0, <1>1, <1>2 DEF HeapTyped
<1> QED
  BY <1>2, <1>3, <1>4, SameLists

LEMMA SystemMallocLists ==
  ASSUME IInv, HeapInv, HeapTyped', NEW t \in Thread, SystemMalloc(t)
  PROVE  ListInv'
<1>0. TypeInv /\ HeapTyped /\ SizeKnown(t) /\ BlockInv
  BY DEF IInv, HeapInv
<1>n. PICK n : n = SystemPages(CeilMemSize(op[t].size))
  OBVIOUS
<1>1. PICK s \in MapPlaces(n) : GiveOut(t, SystemAddr(s))
  BY <1>n DEF SystemMalloc, SystemAddr
<1>2. s \in Page /\ s \notin mapped
  <2>2. n \in Nat \ {0}
    BY <1>0, <1>n, SystemMallocPages
  <2> QED
    BY <1>1, <2>2, SizesTyped DEF MapPlaces, PagesFrom, Page
<1>a. PICK a : a = SystemAddr(s)
  OBVIOUS
<1>3. PageOf(a) = s
  BY <1>2, <1>a, SystemAddrFacts
<1>4. OpStays(t) /\ ~Freeing(t)' /\ \A c \in live' : c \in live \/ c.addr = a
  BY <1>0, <1>1, <1>a, GiveOutStep
<1>5. ASSUME NEW z \in Page, IsCut(z) PROVE a \notin BlocksOf(z)
  <2> SUFFICES ASSUME a \in BlocksOf(z) PROVE FALSE
    OBVIOUS
  <2>1. z \in lent /\ PageOf(a) \in PagesOf(z)
    BY <1>0, <1>5, CutSpan DEF BlockInv
  <2> QED
    BY <1>2, <1>3, <2>1, LentSpan
<1>6. /\ UNCHANGED <<mem_block_size_, mem_block_num_, tc_span_lists_, cc_span_lists_>>
      /\ mem_block_list_' = mem_block_list_
  BY DEF SystemMalloc, spanVars, cacheVars
<1>7. \A z \in Page : IsCut(z) => \A c \in live' \ live : c.addr \notin BlocksOf(z)
  BY <1>4, <1>5
<1> QED
  BY <1>4, <1>6, <1>7, SameLists

LEMMA MyFreeLists ==
  ASSUME IInv, HeapInv, HeapTyped', NEW t \in Thread, NEW b \in live, MyFree(t, b)
  PROVE  ListInv'
<1>0. TypeInv /\ HeapTyped
  BY DEF IInv, HeapInv
<1>1. /\ OpStays(t) /\ op'[t].block = b.addr /\ live' = live \ {b}
      /\ UNCHANGED <<mem_block_size_, mem_block_num_, tc_span_lists_, cc_span_lists_>>
      /\ mem_block_list_' = mem_block_list_
  BY <1>0, MyFreeStep DEF spanVars, cacheVars
<1>2. ASSUME NEW z \in Page, IsCut(z), RouteOf(z) = "thread" PROVE b.by = t
  BY <1>2, CutRoute DEF MyFree, RouteOf
<1>3. \A z \in Page : IsCut(z) /\ RouteOf(z) = "thread" =>
        \E c \in live : c.addr = op'[t].block /\ c.by = t
  BY <1>1, <1>2
<1>4. \A z \in Page : \A c \in live' \ live : c.addr \notin BlocksOf(z)
  BY <1>1
<1> QED
  BY <1>1, <1>3, <1>4, SameLists

LEMMA MyMallocLists ==
  ASSUME IInv, HeapInv, HeapTyped', NEW t \in Thread, NEW r \in Requests, MyMalloc(t, r)
  PROVE  ListInv'
<1>0. TypeInv /\ HeapTyped
  BY DEF IInv, HeapInv
<1>1. /\ UNCHANGED <<mem_block_size_, mem_block_num_, tc_span_lists_, cc_span_lists_>>
      /\ mem_block_list_' = mem_block_list_ /\ live' = live
  BY DEF MyMalloc, spanVars
<1>2. OpStays(t) /\ ~Freeing(t)'
  BY <1>0, MyMallocStep DEF Freeing
<1> QED
  BY <1>1, <1>2, SameLists

LEMMA ListInvStep ==
  ASSUME IInv, HeapInv, HeapTyped', [Next]_vars
  PROVE  ListInv'
<1>1. ASSUME NEW t \in Thread, Continue(t) PROVE ListInv'
  BY <1>1, QuietLists, DistributeMemLists, SpanFetchedLists, SearchFindsLists,
     CentralFetchedLists, SystemMallocLists, TakeBackMemLists, ReleaseLists,
     TakeBackMemBlockLists DEF Continue
<1>2. CASE UNCHANGED vars
  <2>1. ListInv
    BY DEF HeapInv
  <2>2. /\ mem_block_size_' = mem_block_size_ /\ mem_block_num_' = mem_block_num_
        /\ mem_block_list_' = mem_block_list_ /\ live' = live /\ op' = op
        /\ tc_span_lists_' = tc_span_lists_ /\ cc_span_lists_' = cc_span_lists_
    BY <1>2 DEF vars, heapVars, spanVars, cacheVars
  <2>3. /\ \A z : IsCut(z)' <=> IsCut(z)
        /\ \A z, u : OnlyIn(z, u)' <=> OnlyIn(z, u)
    BY <2>2 DEF IsCut, OnlyIn, BlocksOf, Blocks, Freeing
  <2>4. \A z \in Page : SpanListed(z)' <=> SpanListed(z)
    BY <2>2, <2>3 DEF SpanListed
  <2> QED
    BY <2>1, <2>2, <2>3, <2>4 DEF ListInv
<1> QED
  BY <1>1, <1>2, MyMallocLists, MyFreeLists, NextCases

-----------------------------------------------------------------------------
(* The invariant *)

LEMMA HeapInvStep == IInv /\ HeapInv /\ [Next]_vars => IInv' /\ HeapInv'
<1> SUFFICES ASSUME IInv, HeapInv, [Next]_vars PROVE IInv' /\ HeapInv'
  OBVIOUS
<1>1. \A t \in Thread : SizeKnown(t)
  BY DEF HeapInv
<1>2. IInv'
  BY <1>1, PageStep, IInvStep
<1>3. HeapTyped' /\ CachesMade'
  BY HeapTypedStep, CachesMadeStep
<1>4. \A t \in Thread : CallsPageCache(t)' /\ SizeKnown(t)'
  BY CallsStep
<1>5. CentralMutexMatchesCalls' /\ BlockInv'
  BY CentralStep, BlockInvStep
<1>6. ListInv'
  BY <1>3, ListInvStep
<1> QED
  BY <1>2, <1>3, <1>4, <1>5, <1>6 DEF HeapInv

LEMMA HeapInvInit == Init => IInv /\ HeapInv
<1> SUFFICES ASSUME Init PROVE IInv /\ HeapInv
  OBVIOUS
<1>1. IInv
  BY TypeInvInit, MutexesInit, ListsBoundedInit, PushesFitInit, PlacesInit DEF Init, IInv
<1>2. HeapTyped
  <2>1. NoOp \in OpRecord
    BY NoOpTyped
  <2> QED
    BY <2>1 DEF Init, HeapTyped
<1>3. \A t \in Thread : op[t].at = "idle" /\ call[t].at = "idle"
  BY DEF Init, NoOp, PCInit, Idle, NewCall
<1>4. live = {} /\ lent = {} /\ \A s \in Page :
        /\ ~IsCut(s) /\ mem_block_list_[s] = {} /\ mem_block_num_[s] = 0
        /\ system_pages[s] = 0
  BY DEF Init, PCInit, IsCut
<1>5. \A t \in Thread : ~Frees(t) /\ ~Fetched(t) /\ FreedBlock(t)
  BY <1>3 DEF Frees, Freeing, Fetched, Fetching, FreedBlock, OpAt
<1>6. CachesMade
  BY <1>3, <1>4 DEF CachesMade, OpAt
<1>7. \A t \in Thread : CallsPageCache(t) /\ SizeKnown(t)
  BY <1>3 DEF CallsPageCache, SizeKnown, Fetching, Releasing
<1>8. CentralMutexMatchesCalls
  BY <1>3, PageCacheAssumption DEF Init, CentralMutexMatchesCalls, PageCacheAssumption
<1>9. BlockInv
  BY <1>4, <1>5 DEF BlockInv, FetchedWhole, SpansCut, LentSpansKnown, HeldBlocks, HeldOnce,
                    NoneLost, SystemBlocks
<1>10. ListInv
  BY <1>4 DEF ListInv, Init
<1> QED
  BY <1>1, <1>2, <1>6, <1>7, <1>8, <1>9, <1>10 DEF HeapInv

\* In every state of MyMalloc and MyFree, called by any number of threads with
\* any sizes that agree with the thresholds, the parts of HeapInv and of the
\* page cache's IInv hold.
THEOREM HeapInvariant == Spec => [](IInv /\ HeapInv)
<1>1. Init => IInv /\ HeapInv
  BY HeapInvInit
<1>2. IInv /\ HeapInv /\ [Next]_vars => (IInv /\ HeapInv)'
  BY HeapInvStep
<1> QED
  BY <1>1, <1>2, PTL DEF Spec

-----------------------------------------------------------------------------
(* What HeapInv means for callers and caches *)

LEMMA PlacesOfBlocks ==
  ASSUME IInv, HeapInv
  PROVE  BlocksInOnePlace
<1> SUFFICES ASSUME NEW s \in Cut
             PROVE  /\ mem_block_num_[s] = BlockNum(page_num_[s], mem_block_size_[s])
                    /\ BlocksOf(s) \subseteq
                         mem_block_list_[s] \cup LiveAddrs \cup BlocksBeingFreed
                    /\ mem_block_list_[s] \subseteq BlocksOf(s)
                    /\ mem_block_list_[s] \cap (LiveAddrs \cup BlocksBeingFreed) = {}
                    /\ LiveAddrs \cap BlocksBeingFreed = {}
  BY DEF BlocksInOnePlace
<1>1. s \in Page /\ IsCut(s)
  BY DEF Cut, Spans, IsCut
<1>2. SpansCut /\ NoneLost /\ HeldOnce
  BY DEF HeapInv, BlockInv
<1>3. \A b \in mem_block_list_[s] : b \notin LiveAddrs /\ b \notin BlocksBeingFreed
  BY <1>1, FreeIsNobodys DEF BlocksBeingFreed, Frees
<1>4. LiveAddrs \cap BlocksBeingFreed = {}
  <2>1. \A t \in Thread : Freeing(t) => op[t].block \notin LiveAddrs
    BY <1>2 DEF HeldOnce, Frees
  <2> QED
    BY <2>1 DEF BlocksBeingFreed
<1> QED
  BY <1>1, <1>2, <1>3, <1>4 DEF SpansCut, NoneLost

LEMMA LookupOfBlocks ==
  ASSUME IInv, HeapInv
  PROVE  LookupFindsBlock
<1> SUFFICES ASSUME NEW b \in live, InNoSystemBlock(b.addr), NEW s, s = Lookup(b.addr)
             PROVE  s \in Cut /\ s \in lent /\ b.addr \in BlocksOf(s)
  BY DEF LookupFindsBlock, Lookup
<1>1. s \in Page /\ IsCut(s) /\ b.addr \in BlocksOf(s)
  BY DEF HeapInv, BlockInv, HeldBlocks, HeldBlock, CutFrom
<1>2. s \in lent /\ page_num_[s] # 0
  BY <1>1, CutRoute DEF HeapInv, BlockInv, SpansCut
<1> QED
  BY <1>1, <1>2 DEF Cut, Spans, IsCut

LEMMA LentAreCut ==
  ASSUME IInv, HeapInv
  PROVE  CutWhileLent
<1> SUFFICES ASSUME NEW s \in Spans
             PROVE  IF s \in lent
                      THEN s \in Cut
                             \/ \E t \in Thread : At(t, "distributed") /\ call[t].span = s
                      ELSE s \notin Cut /\ mem_block_num_[s] = 0 /\ mem_block_list_[s] = {}
  BY DEF CutWhileLent
<1>1. s \in Page /\ (s \in Cut <=> IsCut(s))
  BY DEF Spans, Cut, IsCut
<1>2. SpansCut /\ LentSpansKnown
  BY DEF HeapInv, BlockInv
<1> QED
  BY <1>1, <1>2 DEF SpansCut, LentSpansKnown, Fetched

\* Each list has the spans of its slot and of its kind of cache only.
LEMMA ListingOfCut ==
  ASSUME IInv, HeapInv, NEW s \in Cut
  PROVE  /\ \A l, k \in Listings(s) : l = k
         /\ \A l \in Listings(s) : l[2] = SlotOf(s)
         /\ mem_block_list_[s] # {} => Listings(s) # {}
<1>1. s \in Page /\ IsCut(s) /\ nobody \notin Thread
  BY PageCacheAssumption DEF Cut, Spans, IsCut, PageCacheAssumption
<1>2. SpanListed(s) /\ SlotOf(s) \in Slots
  <2>1. mem_block_size_[s] \in BlockSizes
    BY <1>1 DEF HeapInv, HeapTyped, IsCut
  <2> QED
    BY <1>1, <2>1, BlockSizesTyped DEF HeapInv, ListInv, SlotOf
<1>3. \A u \in Thread, slot \in Slots :
        s \in tc_span_lists_[u][slot] => RouteOf(s) = "thread" /\ slot = SlotOf(s)
  BY ListsPlace DEF ListedRight
<1>4. \A slot \in Slots :
        s \in cc_span_lists_[slot] => RouteOf(s) = "central" /\ slot = SlotOf(s)
  BY ListsPlace DEF ListedRight
<1>5. \A l \in Listings(s) :
        \/ \E u \in Thread : /\ l = <<u, SlotOf(s)>> /\ RouteOf(s) = "thread"
                             /\ s \in tc_span_lists_[u][SlotOf(s)]
        \/ l = <<nobody, SlotOf(s)>> /\ RouteOf(s) = "central"
  BY <1>3, <1>4 DEF Listings
<1>6. \A l \in Listings(s) : l[2] = SlotOf(s)
  BY <1>5
<1>7. \A l, k \in Listings(s) : l = k
  <2>1. CASE RouteOf(s) = "thread"
    <3>1. PICK u \in Thread : \A v \in Thread \ {u} : s \notin tc_span_lists_[v][SlotOf(s)]
      BY <1>2, <2>1 DEF SpanListed, SlotOf, RouteOf
    <3>2. \A l \in Listings(s) : l = <<u, SlotOf(s)>>
      BY <1>5, <2>1, <3>1
    <3> QED
      BY <3>2
  <2>2. CASE RouteOf(s) # "thread"
    BY <1>5, <2>2
  <2> QED
    BY <2>1, <2>2
<1>8. mem_block_list_[s] # {} => Listings(s) # {}
  <2>1. CASE RouteOf(s) = "thread"
    <3>1. PICK u \in Thread :
            s \in tc_span_lists_[u][SlotOf(s)] <=> mem_block_list_[s] # {}
      BY <1>2, <2>1 DEF SpanListed, SlotOf, RouteOf
    <3>2. s \in tc_span_lists_[u][SlotOf(s)] => <<u, SlotOf(s)>> \in Listings(s)
      BY <1>2 DEF Listings
    <3> QED
      BY <3>1, <3>2
  <2>2. CASE RouteOf(s) = "central"
    <3>1. s \in cc_span_lists_[SlotOf(s)]
      BY <1>2, <2>2 DEF SpanListed, SlotOf, RouteOf
    <3>2. <<nobody, SlotOf(s)>> \in Listings(s)
      BY <1>2, <3>1 DEF Listings
    <3> QED
      BY <3>2
  <2> QED
    BY <1>2, <2>1, <2>2 DEF SpanListed, RouteOf
<1> QED
  BY <1>6, <1>7, <1>8

LEMMA ListsOfSpans ==
  ASSUME IInv, HeapInv
  PROVE  SpansListedOnce
<1>1. \A s \in Page : IsCut(s) => s \in Cut /\ s \in lent
  BY CutRoute DEF Cut, Spans, IsCut, HeapInv, BlockInv, SpansCut
<1>2. \A t \in Thread, slot \in Slots : \A s \in tc_span_lists_[t][slot] :
        s \in Cut \cap lent /\ mem_block_list_[s] # {}
  <2> SUFFICES ASSUME NEW t \in Thread, NEW slot \in Slots, NEW s \in tc_span_lists_[t][slot]
               PROVE  s \in Cut \cap lent /\ mem_block_list_[s] # {}
    OBVIOUS
  <2>1. s \in Page /\ IsCut(s) /\ RouteOf(s) = "thread" /\ slot = SlotOf(s)
    BY ListsPlace DEF ListedRight
  <2>2. mem_block_list_[s] # {}
    BY <2>1, Owner
  <2> QED
    BY <1>1, <2>1, <2>2
<1>3. \A slot \in Slots : cc_span_lists_[slot] \subseteq Cut \cap lent
  BY <1>1, ListsPlace DEF ListedRight
<1> QED
  BY <1>2, <1>3, ListingOfCut DEF SpansListedOnce, SlotOf

\* No block is lost and none is in two places: free in its span, held by a
\* caller, or in a MyFree that has not put it back (thread-cache.cpp:30-97,
\* central-cache.cpp:23-121).
THEOREM EachBlockInOnePlace == Spec => []BlocksInOnePlace
<1>1. IInv /\ HeapInv => BlocksInOnePlace
  BY PlacesOfBlocks
<1> QED
  BY <1>1, HeapInvariant, PTL

\* The lookup that MyFree makes without a lock (heap-allocator.cpp:62) finds
\* the span that the block was cut from, whatever the others do meanwhile.
THEOREM LookupIsRight == Spec => []LookupFindsBlock
<1>1. IInv /\ HeapInv => LookupFindsBlock
  BY LookupOfBlocks
<1> QED
  BY <1>1, HeapInvariant, PTL

\* A span is cut into blocks exactly while a cache has it (util.h: Split and
\* Merge).
THEOREM CutExactlyWhileLent == Spec => []CutWhileLent
<1>1. IInv /\ HeapInv => CutWhileLent
  BY LentAreCut
<1> QED
  BY <1>1, HeapInvariant, PTL

\* The list of a thread cache or of the central cache has a span with a free
\* block once, and DistributeMem finds one in the first span of its list
\* (thread-cache.cpp:50-51).
THEOREM SpansAreListedOnce == Spec => []SpansListedOnce
<1>1. IInv /\ HeapInv => SpansListedOnce
  BY ListsOfSpans
<1> QED
  BY <1>1, HeapInvariant, PTL

\* The mutex of a central list is with the call between its lock and its
\* unlock and with no other (central-cache.cpp:23-121).
THEOREM CentralMutexes == Spec => []CentralMutexMatchesCalls
<1>1. IInv /\ HeapInv => CentralMutexMatchesCalls
  BY DEF HeapInv
<1> QED
  BY <1>1, HeapInvariant, PTL

\* Every variable has its type, the number of a span's blocks is none below
\* zero (util.h: Split).
THEOREM HeapTypes == Spec => []HeapTypeOK
<1>1. IInv /\ HeapInv => HeapTypeOK
  <2> SUFFICES ASSUME IInv, HeapInv PROVE HeapTypeOK
    OBVIOUS
  <2>1. PCTypeOK
    BY TypeInvImpliesPCTypeOK DEF IInv
  <2>2. HeapTyped /\ SpansCut
    BY DEF HeapInv, BlockInv
  <2>3. \A s \in Page : mem_block_num_[s] \in Nat
    <3> SUFFICES ASSUME NEW s \in Page PROVE mem_block_num_[s] \in Nat
      OBVIOUS
    <3>1. CASE IsCut(s)
      <4>1. IsFiniteSet(BlocksOf(s)) /\ Cardinality(BlocksOf(s)) = mem_block_num_[s]
        BY <2>2, <3>1, CutCount
      <4> QED
        BY <4>1, FS_CardinalityType
    <3>2. CASE ~IsCut(s)
      BY <2>2, <3>2 DEF SpansCut
    <3> QED
      BY <3>1, <3>2
  <2>4. mem_block_num_ \in [Page -> Nat]
    BY <2>2, <2>3 DEF HeapTyped
  <2>5. mem_block_size_ \in [Page -> Nat \cup {-1}]
    <3>1. BlockSizes \cup {-1} \subseteq Nat \cup {-1}
      BY BlockSizesTyped
    <3> QED
      BY <2>2, <3>1 DEF HeapTyped
  <2> QED
    BY <2>1, <2>2, <2>4, <2>5 DEF HeapTypeOK, HeapTyped, Holding, OpRecord
<1> QED
  BY <1>1, HeapInvariant, PTL

-----------------------------------------------------------------------------
(* Headers, and the page cache inside *)

\* What MyFree reads of the span of a held block stays.
LEMMA HeaderStep ==
  ASSUME IInv, HeapInv, [Next]_vars, NEW b \in live, b \in live', InNoSystemBlock(b.addr),
         NEW s, s = Lookup(b.addr)
  PROVE  /\ mem_block_size_'[s] = mem_block_size_[s]
         /\ mem_block_num_'[s] = mem_block_num_[s]
         /\ page_num_'[s] = page_num_[s]
<1>0. HeapTyped /\ BlockInv /\ \A t \in Thread : SizeKnown(t)
  BY DEF HeapInv
<1>1. s \in Page /\ IsCut(s) /\ b.addr \in BlocksOf(s) \ mem_block_list_[s]
  BY <1>0 DEF BlockInv, HeldBlocks, HeldBlock, CutFrom
<1>2. s \in lent
  BY <1>0, <1>1 DEF BlockInv, SpansCut
<1>3. page_num_'[s] = page_num_[s]
  BY <1>0, <1>2, PageStep, LentStep
<1>4. /\ mem_block_size_'[s] = mem_block_size_[s]
      /\ mem_block_num_'[s] = mem_block_num_[s]
  <2>1. ASSUME UNCHANGED spanVars \/ UNCHANGED <<mem_block_size_, mem_block_num_>>
        PROVE  /\ mem_block_size_'[s] = mem_block_size_[s]
               /\ mem_block_num_'[s] = mem_block_num_[s]
    BY <2>1 DEF spanVars
  <2>2. ASSUME NEW t \in Thread, NEW a, Cuts(t, a)
        PROVE  /\ mem_block_size_'[s] = mem_block_size_[s]
               /\ mem_block_num_'[s] = mem_block_num_[s]
    <3>1. PICK z : z = call[t].span
      OBVIOUS
    <3>2. ~IsCut(z)
      BY <1>0, <2>2, <3>1 DEF Cuts, BlockInv, FetchedWhole
    <3>3. s # z
      BY <1>1, <3>2
    <3>4. \E x, y : /\ mem_block_size_' = [mem_block_size_ EXCEPT ![z] = x]
                    /\ mem_block_num_' = [mem_block_num_ EXCEPT ![z] = y]
      BY <2>2, <3>1 DEF Cuts
    <3> QED
      BY <1>0, <1>1, <3>3, <3>4 DEF HeapTyped
  <2>3. ASSUME NEW t \in Thread, GivesBack(t)
        PROVE  /\ mem_block_size_'[s] = mem_block_size_[s]
               /\ mem_block_num_'[s] = mem_block_num_[s]
    <3>1. PICK z : z = op[t].span
      OBVIOUS
    <3>2. PICK a : a = op[t].block
      OBVIOUS
    <3>3. op[t].at \in {"thread free", "central put"}
      BY <2>3 DEF GivesBack
    <3>4. /\ z \in Page /\ IsCut(z) /\ a \notin LiveAddrs
          /\ BlocksBack(t) = mem_block_list_[z] \cup {a} /\ BlocksBack(t) \subseteq BlocksOf(z)
      BY <3>1, <3>2, <3>3, BlockGoesBack
    <3>5. BlocksOf(z) = mem_block_list_[z] \cup {a}
      BY <1>0, <2>3, <3>1, <3>4, AllFree DEF GivesBack, BlockInv
    <3>6. b.addr # a
      BY <3>4 DEF LiveAddrs
    <3>7. s # z
      BY <1>1, <3>5, <3>6
    <3>8. /\ mem_block_num_' = [mem_block_num_ EXCEPT ![z] = 0]
          /\ mem_block_size_' = [mem_block_size_ EXCEPT ![z] = -1]
      BY <2>3, <3>1 DEF GivesBack, Merge
    <3> QED
      BY <1>0, <1>1, <3>7, <3>8 DEF HeapTyped
  <2>4. ASSUME NEW t \in Thread, Continue(t)
        PROVE  \/ UNCHANGED spanVars \/ UNCHANGED <<mem_block_size_, mem_block_num_>>
               \/ \E a : Cuts(t, a)
               \/ GivesBack(t)
    BY <2>4, StepKinds
       DEF heapVars, Gives, PutsBack, Quiet, SystemMalloc, SystemFree, FoundSpan
  <2>5. ASSUME NEW t \in Thread, \/ \E r \in Requests : MyMalloc(t, r)
                                 \/ \E c \in live : MyFree(t, c)
        PROVE  UNCHANGED spanVars
    BY <2>5 DEF MyMalloc, MyFree
  <2>6. UNCHANGED vars => UNCHANGED spanVars
    BY DEF vars, heapVars
  <2> QED
    BY <2>1, <2>2, <2>3, <2>4, <2>5, <2>6, NextCases
<1> QED
  BY <1>3, <1>4

\* While a caller holds a block of a span the header that MyFree will read
\* without a lock (heap-allocator.cpp:62-80) stays what it is.
THEOREM HeadersStable == Spec => HeaderStable
<1>1. IInv /\ HeapInv /\ [Next]_vars =>
        [\A b \in live \cap live' : InNoSystemBlock(b.addr) =>
           LET s == radix_tree_[PageOf(b.addr)] IN
           /\ mem_block_size_'[s] = mem_block_size_[s]
           /\ mem_block_num_'[s] = mem_block_num_[s]
           /\ page_num_'[s] = page_num_[s]]_vars
  BY HeaderStep DEF Lookup
<1> QED
  BY <1>1, HeapInvariant, PTL DEF Spec, HeaderStable

\* The page cache keeps its promise to the caches that call it and among the
\* pages that the third branch maps (page-cache.cpp:13-78).
THEOREM PageCacheInsideIsPool == Spec => ImplementsSpanPool
<1>1. Init => Pool!Init
  BY PoolInit DEF Init
<1>2. IInv /\ HeapInv /\ [Next]_vars => [Pool!Next]_(Pool!vars)
  BY PageStep, PoolStep DEF HeapInv
<1> QED
  BY <1>1, <1>2, HeapInvariant, PTL DEF Spec, ImplementsSpanPool, Pool!Spec

-----------------------------------------------------------------------------
(* Without the third branch nothing is undefined. *)

NoSystemPages == \A p \in Page : system_pages[p] = 0

LEMMA DefinedStep ==
  ASSUME IInv, HeapInv, [Next]_vars, \A r \in Requests : MallocRoute(r) # "system",
         NoSystemPages, NothingUndefined
  PROVE  NoSystemPages' /\ NothingUndefined'
<1>0. TypeInv /\ HeapTyped /\ BlockInv /\ CachesMade /\ \A t \in Thread : SizeKnown(t)
  BY DEF HeapInv, IInv
<1>a. null \notin Page
  BY PageCacheAssumption DEF PageCacheAssumption
<1>b. \A u \in Thread : op[u].at # "undefined"
  BY DEF NothingUndefined, OpAt
<1>1. CASE UNCHANGED vars
  <2>1. op' = op /\ system_pages' = system_pages
    BY <1>1 DEF vars, heapVars
  <2> QED
    BY <2>1 DEF NoSystemPages, NothingUndefined, OpAt
<1>2. ASSUME NEW t \in Thread, OpStays(t), op'[t].at # "undefined",
             system_pages' = system_pages
      PROVE  NoSystemPages' /\ NothingUndefined'
  BY <1>b, <1>2 DEF OpStays, NoSystemPages, NothingUndefined, OpAt
<1>3. ASSUME NEW t \in Thread, NEW r \in Requests, MyMalloc(t, r)
      PROVE  NoSystemPages' /\ NothingUndefined'
  <2>1. OpStays(t) /\ op'[t].at \in {"thread malloc", "central malloc", "system malloc"}
    BY <1>0, <1>3, MyMallocStep
  <2>2. system_pages' = system_pages
    BY <1>3 DEF MyMalloc
  <2> QED
    BY <1>2, <2>1, <2>2
<1>4. ASSUME NEW t \in Thread, NEW b \in live, MyFree(t, b)
      PROVE  NoSystemPages' /\ NothingUndefined'
  <2>1. /\ OpStays(t) /\ system_pages' = system_pages
        /\ op'[t].at = IF ~HasNode(PageOf(b.addr)) THEN "undefined"
                       ELSE IF Lookup(b.addr) = null THEN "system free" ELSE "found"
    BY <1>0, <1>4, MyFreeStep
  <2>2. PageOf(b.addr) \in Page
    BY PageOfHeld
  <2>3. Lookup(b.addr) \in Page
    <3>1. InNoSystemBlock(b.addr) /\ HeldBlock(b)
      BY <1>0, <2>2 DEF NoSystemPages, InNoSystemBlock, BlockInv, HeldBlocks
    <3> QED
      BY <3>1 DEF HeldBlock, CutFrom
  <2>4. HasNode(PageOf(b.addr))
    BY <1>a, <2>2, <2>3 DEF HasNode, Lookup
  <2> QED
    BY <1>2, <2>1, <2>4
<1>5. ASSUME NEW t \in Thread, Continue(t)
      PROVE  NoSystemPages' /\ NothingUndefined'
  <2>1. CASE Inside(t) /\ UNCHANGED heapVars
    <3>1. OpStays(t) /\ op'[t] = op[t] /\ system_pages' = system_pages
      BY <2>1 DEF heapVars, OpStays
    <3> QED
      BY <1>2, <1>b, <3>1
  <2>2. CASE FoundSpan(t)
    <3>1. PICK s : s = op[t].span
      OBVIOUS
    <3>2. op[t].at = "found"
      BY <2>2 DEF FoundSpan, OpAt
    <3>3. FreedBlock(t) /\ op[t].block \in Addr
      BY <1>0 DEF BlockInv, HeapTyped, OpRecord
    <3>4. InNoSystemBlock(op[t].block)
      BY <3>3, PageOfAddr DEF NoSystemPages, InNoSystemBlock
    <3>5. s \in Page /\ IsCut(s) /\ op[t].block \in BlocksOf(s)
      BY <3>1, <3>2, <3>3, <3>4 DEF FreedBlock, CutFrom, OpAt
    <3>6. /\ page_num_[s] # 0
          /\ FreeRoute(mem_block_size_[s]) = "thread" => tls_thread_cache[t]
      <4>1. page_num_[s] # 0 /\ (FreeRoute(mem_block_size_[s]) = "thread" => ~CrossThreadFree)
        BY <3>5, CutRoute
      <4>2. ~CrossThreadFree => tls_thread_cache[t]
        BY <1>0, <3>2 DEF CachesMade, OpAt
      <4> QED
        BY <4>1, <4>2
    <3>7. OpStays(t) /\ op'[t].at # "undefined" /\ system_pages' = system_pages
      BY <1>0, <2>2, <3>1, <3>5, <3>6, FoundSpanStep
    <3> QED
      BY <1>2, <3>7
  <2>3. ~SystemMalloc(t) /\ ~SystemMallocFails(t)
    BY <1>0 DEF SizeKnown, Asks, SystemMalloc, SystemMallocFails, OpAt
  <2>4. CASE SystemFree(t)
    <3>1. op[t].at = "system free" /\ op[t].block \in Addr
      BY <1>0, <2>4 DEF SystemFree, HeapTyped, OpRecord, OpAt
    <3>2. ~InNoSystemBlock(op[t].block)
      BY <1>0, <3>1 DEF BlockInv, FreedBlock, OpAt
    <3> QED
      BY <3>1, <3>2, PageOfAddr DEF NoSystemPages, InNoSystemBlock
  <2>5. CASE \/ DistributeMem(t) \/ FetchSpanFromPageCache(t) \/ SpanFetched(t)
             \/ LockCentral(t) \/ SearchFinds(t) \/ SearchFails(t) \/ CentralFetched(t)
             \/ TakeBackMem(t) \/ ReleaseSpanToPageCache(t) \/ SpanReleased(t)
             \/ LockCentralToFree(t) \/ TakeBackMemBlock(t)
             \/ ReleaseCentralSpan(t) \/ CentralReleased(t)
    <3>1. OpStays(t) /\ op'[t].at # "undefined"
      BY <1>0, <2>5, ControlStep DEF Moves
    <3>2. system_pages' = system_pages
      BY <2>5 DEF DistributeMem, FetchSpanFromPageCache, SpanFetched, LockCentral,
         SearchFinds, SearchFails, CentralFetched, TakeBackMem, ReleaseSpanToPageCache,
         SpanReleased, LockCentralToFree, TakeBackMemBlock, ReleaseCentralSpan,
         CentralReleased
    <3> QED
      BY <1>2, <3>1, <3>2
  <2> QED
    BY <1>5, <2>1, <2>2, <2>3, <2>4, <2>5 DEF Continue
<1> QED
  BY <1>1, <1>3, <1>4, <1>5, NextCases

\* If no request is sent to the system, no call follows a null pointer or
\* takes other memory for a span (heap-allocator.cpp:61-82): it is the lookup
\* of a block of the system that may.
THEOREM CachesNeverUndefined ==
  ASSUME \A r \in Requests : MallocRoute(r) # "system"
  PROVE  Spec => []NothingUndefined
<1>1. Init => NoSystemPages /\ NothingUndefined
  <2> SUFFICES ASSUME Init PROVE NoSystemPages /\ NothingUndefined
    OBVIOUS
  <2>1. \A t \in Thread : op[t] = NoOp
    BY DEF Init
  <2> QED
    BY <2>1 DEF Init, NoSystemPages, NothingUndefined, NoOp, OpAt
<1>2. /\ IInv /\ HeapInv
      /\ NoSystemPages /\ NothingUndefined
      /\ [Next]_vars
      => (NoSystemPages /\ NothingUndefined)'
  BY DefinedStep
<1> QED
  BY <1>1, <1>2, HeapInvariant, PTL DEF Spec

-----------------------------------------------------------------------------
(* MyMalloc and MyFree keep the promise of malloc and free. *)

\* The addresses of a block of a size lie in some pages.
RoomIn(pages, addr, size) ==
    \A x \in Int : addr <= x /\ x < addr + size => x \in Addr /\ PageOf(x) \in pages

LEMMA SpanHasRoom ==
  ASSUME IInv, NEW s \in lent, NEW size \in Nat \ {0},
         NEW b \in Blocks(s, size, BlockNum(page_num_[s], size))
  PROVE  RoomIn(PagesOf(s), b, size)
<1> DEFINE P == kPageSize
           n == page_num_[s]
<1>1. PICK i \in 0 .. BlockNum(n, size) - 1 : b = BlockAddr(s, size, i)
  BY DEF Blocks
<1>2. s \in Page /\ n \in Nat /\ s + n <= NPages /\ s \in Nat
  BY LentSpan DEF Page
<1>3. /\ P \in Nat \ {0} /\ kSpanHeadSize \in Nat /\ NPages \in Nat
      /\ P * s = s * P /\ P * (s + n) = (s + n) * P /\ NPages * P = P * NPages
      /\ s * P \in Nat /\ (s + n) * P \in Nat /\ NPages * P \in Nat
  BY <1>2, SizesTyped
<1>4. b \in Int /\ s * P + kSpanHeadSize <= b /\ b + size <= (s + n) * P
  BY <1>1, <1>2, BlockInSpan
<1>5. P * (s + n) <= P * NPages
  BY <1>2, <1>3, MultipleMonotone
<1> HIDE DEF P, n
<1>6. ASSUME NEW x \in Int, b <= x, x < b + size
      PROVE  x \in Addr /\ PageOf(x) \in PagesOf(s)
  <2>1. P * s <= x /\ x < P * (s + n) /\ 0 <= x /\ x < NPages * P
    BY <1>3, <1>4, <1>5, <1>6
  <2>2. s \in Int /\ s + n \in Int
    BY <1>2
  <2>3. x \div P \in Int /\ s <= x \div P /\ x \div P < s + n
    BY <1>3, <2>1, <2>2, DivIn
  <2> QED
    BY <1>2, <1>3, <2>1, <2>3 DEF Addr, PageOf, PagesOf, PagesFrom, P, n
<1> QED
  BY <1>6 DEF RoomIn

LEMMA SystemHasRoom ==
  ASSUME NEW p \in Page, NEW size \in Nat \ {0}, NEW n, n = PagesWithHead(size),
         PagesFrom(p, n) \subseteq Page
  PROVE  RoomIn(PagesFrom(p, n), SystemAddr(p), size)
<1> DEFINE P == kPageSize
           y == size + kSpanHeadSize + P - 1
           a == SystemAddr(p)
<1>1. P \in Nat \ {0} /\ kSpanHeadSize \in Nat /\ NPages \in Nat /\ p \in Nat
  BY SizesTyped DEF Page
<1>2. n \in Nat \ {0}
  BY PagesWithHeadPositive
<1>3. y \in Int /\ y < P * n + P
  BY <1>1, DivBounds DEF PagesWithHead
<1>4. a = p * P + kSpanHeadSize
  BY DEF SystemAddr
<1>5. p + n <= NPages
  <2>1. p + n - 1 \in PagesFrom(p, n)
    BY <1>1, <1>2 DEF PagesFrom
  <2> QED
    BY <1>1, <1>2, <2>1 DEF Page
<1>6. size + kSpanHeadSize <= P * n
  <2>1. P * n \in Int
    BY <1>1, <1>2
  <2> QED
    BY <1>1, <1>3, <2>1
<1> HIDE DEF y, a, P
<1>7. /\ P * (p + n) = P * p + P * n /\ P * p = p * P /\ P * p \in Nat /\ P * n \in Nat
      /\ NPages * P = P * NPages /\ NPages * P \in Nat
  BY <1>1, <1>2
<1>8. P * (p + n) <= P * NPages
  BY <1>1, <1>2, <1>5, MultipleMonotone
<1>9. ASSUME NEW x \in Int, a <= x, x < a + size
      PROVE  x \in Addr /\ PageOf(x) \in PagesFrom(p, n)
  <2>1. P * p <= x /\ x < P * (p + n) /\ 0 <= x /\ x < NPages * P
    BY <1>1, <1>4, <1>6, <1>7, <1>8, <1>9
  <2>2. p \in Int /\ p + n \in Int
    BY <1>1, <1>2
  <2>3. x \div P \in Int /\ p <= x \div P /\ x \div P < p + n
    BY <1>1, <2>1, <2>2, DivIn
  <2> QED
    BY <1>1, <1>2, <2>1, <2>3 DEF Addr, PageOf, PagesFrom, P
<1> QED
  BY <1>9 DEF RoomIn, a

\* The memory of a block that a caller holds: in the pages of its span, or in
\* pages of its own.
LEMMA HeldHasRoom ==
  ASSUME IInv, HeapInv, NEW b \in live
  PROVE  /\ b.addr \in Int /\ b.size \in Requests
         /\ \/ /\ CutFrom(b.addr, Lookup(b.addr)) /\ Lookup(b.addr) \in lent
               /\ mem_block_size_[Lookup(b.addr)] = CeilMemSize(b.size)
               /\ RoomIn(PagesOf(Lookup(b.addr)), b.addr, CeilMemSize(b.size))
            \/ RoomIn(foreign, b.addr, CeilMemSize(b.size))
<1>1. b \in Holding /\ BlockInv /\ HeapTyped /\ TypeInv
  BY DEF HeapInv, HeapTyped, IInv
<1>2. b.addr \in Addr /\ b.size \in Requests
  BY <1>1 DEF Holding
<1>3. b.addr \in Int /\ PageOf(b.addr) \in Page /\ CeilMemSize(b.size) \in Nat \ {0}
  BY <1>2, PageOfAddr, BlockSize DEF Addr
<1>4. CASE InNoSystemBlock(b.addr)
  <2>1. PICK s : s = Lookup(b.addr)
    OBVIOUS
  <2>2. CutFrom(b.addr, s) /\ mem_block_size_[s] = CeilMemSize(b.size)
    BY <1>1, <1>4, <2>1 DEF BlockInv, HeldBlocks, HeldBlock
  <2>3. /\ s \in lent
        /\ b.addr \in Blocks(s, CeilMemSize(b.size), BlockNum(page_num_[s], CeilMemSize(b.size)))
    BY <1>1, <2>2, CutSpan DEF CutFrom, BlockInv
  <2>4. RoomIn(PagesOf(s), b.addr, CeilMemSize(b.size))
    BY <1>3, <2>3, SpanHasRoom
  <2> QED
    BY <1>2, <1>3, <2>1, <2>2, <2>3, <2>4
<1>5. CASE ~InNoSystemBlock(b.addr)
  <2>1. PICK p \in Page : p = PageOf(b.addr)
    BY <1>3
  <2>2. PICK n : n = SystemPages(CeilMemSize(b.size))
    OBVIOUS
  <2>n. n = PagesWithHead(CeilMemSize(b.size))
    BY <1>2, <2>2, SystemPagesEnough
  <2>3. b.addr = SystemAddr(p) /\ system_pages[p] = n /\ system_pages[p] # 0
    BY <1>1, <1>5, <2>1, <2>2 DEF BlockInv, HeldBlocks, HeldBlock, InNoSystemBlock
  <2>4. PagesFrom(p, n) \subseteq foreign /\ foreign \subseteq Page
    BY <1>1, <2>3 DEF BlockInv, SystemBlocks, TypeInv, SharedTyped
  <2>5. RoomIn(PagesFrom(p, n), b.addr, CeilMemSize(b.size))
    BY <1>3, <2>n, <2>3, <2>4, SystemHasRoom
  <2>6. RoomIn(foreign, b.addr, CeilMemSize(b.size))
    BY <2>4, <2>5 DEF RoomIn
  <2> QED
    BY <1>2, <1>3, <2>6
<1> QED
  BY <1>4, <1>5

\* What a caller gets of a block is part of it.
LEMMA ExtentInRoom ==
  ASSUME NEW addr \in Int, NEW r \in Requests, NEW x \in Service!Extent(addr, r)
  PROVE  x \in Int /\ addr <= x /\ x < addr + CeilMemSize(r)
<1>1. r \in Int /\ CeilMemSize(r) \in Nat \ {0} /\ CeilMemSize(r) >= r
  BY BlockSize, SizesTyped
<1> QED
  BY <1>1 DEF Service!Extent

\* Blocks of different pages do not overlap.
LEMMA RoomsApart ==
  ASSUME NEW a \in Int, NEW q \in Requests, NEW pages, RoomIn(pages, a, CeilMemSize(q)),
         NEW c \in Int, NEW r \in Requests, NEW others, RoomIn(others, c, CeilMemSize(r)),
         pages \cap others = {}
  PROVE  Service!Extent(a, q) \cap Service!Extent(c, r) = {}
<1> SUFFICES ASSUME NEW x \in Service!Extent(a, q), x \in Service!Extent(c, r) PROVE FALSE
  OBVIOUS
<1>1. x \in Int /\ a <= x /\ x < a + CeilMemSize(q) /\ c <= x /\ x < c + CeilMemSize(r)
  BY ExtentInRoom
<1> QED
  BY <1>1 DEF RoomIn

\* A block of size r at addr is in memory and overlaps none that a caller has.
Apart(addr, r) ==
    /\ addr \in Addr
    /\ Service!Extent(addr, r) \subseteq Addr
    /\ \A c \in live : Service!Extent(addr, r) \cap Service!Extent(c.addr, c.size) = {}

LEMMA BlockOfSpanIsApart ==
  ASSUME IInv, HeapInv, NEW r \in Requests, NEW s \in lent,
         NEW a \in Blocks(s, CeilMemSize(r), BlockNum(page_num_[s], CeilMemSize(r))),
         \/ ~IsCut(s)
         \/ mem_block_size_[s] = CeilMemSize(r) /\ a \in mem_block_list_[s]
  PROVE  Apart(a, r)
<1> DEFINE size == CeilMemSize(r)
           num == BlockNum(page_num_[s], size)
<1>1. size \in Nat \ {0}
  BY BlockSize
<1>2. /\ RoomIn(PagesOf(s), a, size)
      /\ a \in Addr /\ a \in Int
  BY <1>1, SpanHasRoom, BlockPage DEF Addr
<1>3. Service!Extent(a, r) \subseteq Addr
  BY <1>2, ExtentInRoom DEF RoomIn
<1>4. PagesOf(s) \cap foreign = {}
  BY LentSpan
<1>5. ASSUME NEW c \in live
      PROVE  Service!Extent(a, r) \cap Service!Extent(c.addr, c.size) = {}
  <2>1. c.addr \in Int /\ c.size \in Requests
    BY HeldHasRoom
  <2>2. CASE RoomIn(foreign, c.addr, CeilMemSize(c.size))
    BY <1>2, <1>4, <2>1, <2>2, RoomsApart
  <2>3. CASE ~RoomIn(foreign, c.addr, CeilMemSize(c.size))
    <3>1. PICK z : z = Lookup(c.addr)
      OBVIOUS
    <3>2. /\ CutFrom(c.addr, z) /\ z \in lent
          /\ mem_block_size_[z] = CeilMemSize(c.size)
          /\ RoomIn(PagesOf(z), c.addr, CeilMemSize(c.size))
      BY <2>3, <3>1, HeldHasRoom
    <3>3. CASE z # s
      <4>1. PagesOf(s) \cap PagesOf(z) = {}
        BY <3>2, <3>3, LentSpansApart
      <4> QED
        BY <1>2, <2>1, <3>2, <4>1, RoomsApart
    <3>4. CASE z = s
      <4>1. /\ IsCut(s) /\ s \in Page /\ mem_block_size_[s] = size
            /\ a \in mem_block_list_[s] /\ CeilMemSize(c.size) = size
            /\ c.addr \in BlocksOf(s) /\ c.addr # a
        BY <3>2, <3>4 DEF CutFrom
      <4>2. BlocksOf(s) = Blocks(s, size, num)
        BY <4>1, CutSpan DEF HeapInv, BlockInv
      <4>3. PICK i \in 0 .. num - 1 : a = BlockAddr(s, size, i)
        BY DEF Blocks
      <4>4. PICK j \in 0 .. num - 1 : c.addr = BlockAddr(s, size, j)
        BY <4>1, <4>2 DEF Blocks
      <4>5. i \in Int /\ j \in Int /\ i # j
        BY <4>1, <4>3, <4>4
      <4>6. a + size <= c.addr \/ c.addr + size <= a
        <5>1. CASE i < j
          BY <1>1, <4>1, <4>3, <4>4, <4>5, <5>1, BlocksApart
        <5>2. CASE j < i
          BY <1>1, <4>1, <4>3, <4>4, <4>5, <5>2, BlocksApart
        <5> QED
          BY <4>5, <5>1, <5>2
      <4>7. ASSUME NEW x \in Service!Extent(a, r), x \in Service!Extent(c.addr, c.size)
            PROVE  FALSE
        <5>1. x \in Int /\ a <= x /\ x < a + size
          BY <1>2, ExtentInRoom
        <5>2. c.addr <= x /\ x < c.addr + size
          BY <2>1, <4>1, <4>7, ExtentInRoom
        <5> HIDE DEF size
        <5> QED
          BY <1>1, <1>2, <2>1, <4>6, <5>1, <5>2
      <4> QED
        BY <4>7
    <3> QED
      BY <3>3, <3>4
  <2> QED
    BY <2>2, <2>3
<1> QED
  BY <1>2, <1>3, <1>5 DEF Apart

LEMMA SystemBlockIsApart ==
  ASSUME IInv, HeapInv, NEW r \in Requests, NEW p \in MapPlaces(SystemPages(CeilMemSize(r)))
  PROVE  Apart(SystemAddr(p), r)
<1> DEFINE n == SystemPages(CeilMemSize(r))
           a == SystemAddr(p)
<1>1. /\ p \in Page /\ PagesFrom(p, n) \subseteq Page
      /\ PagesFrom(p, n) \cap (mapped \cup foreign) = {}
  BY DEF MapPlaces
<1>2. CeilMemSize(r) \in Nat \ {0}
  BY BlockSize
<1>3. RoomIn(PagesFrom(p, n), a, CeilMemSize(r)) /\ a \in Addr /\ a \in Int
  BY <1>1, <1>2, SystemPagesEnough, SystemHasRoom, SystemAddrFacts DEF Addr
<1>4. Service!Extent(a, r) \subseteq Addr
  BY <1>3, ExtentInRoom DEF RoomIn
<1> HIDE DEF n, a
<1>5. ASSUME NEW c \in live
      PROVE  Service!Extent(a, r) \cap Service!Extent(c.addr, c.size) = {}
  <2>1. c.addr \in Int /\ c.size \in Requests
    BY HeldHasRoom
  <2>2. PICK others : /\ others \subseteq mapped \cup foreign
                      /\ RoomIn(others, c.addr, CeilMemSize(c.size))
    <3>1. \A s \in lent : PagesOf(s) \subseteq mapped
      BY LentSpan
    <3> QED
      BY <3>1, HeldHasRoom
  <2>3. PagesFrom(p, n) \cap others = {}
    BY <1>1, <2>2
  <2> QED
    BY <1>3, <2>1, <2>2, <2>3, RoomsApart
<1> QED
  BY <1>3, <1>4, <1>5 DEF Apart, a

-----------------------------------------------------------------------------
(* The calls as their callers see them *)

WaitsForBlock ==
    {"thread malloc", "thread fetch", "central malloc", "central search",
     "central fetch", "system malloc", "killed"}

\* What the caller of one call waits for.
Waiting(o) ==
    IF o.at = "idle" THEN [kind |-> "nothing", size |-> 0]
    ELSE IF o.at \in WaitsForBlock THEN [kind |-> "malloc", size |-> o.size]
    ELSE [kind |-> "free", size |-> 0]

WaitingCalls == [t \in Thread |-> Waiting(op[t])]

CallsSeenBy ==
  [t \in Thread |->
     IF OpAt(t, "idle") THEN [kind |-> "nothing", size |-> 0]
     ELSE IF t \in Allocating \/ OpAt(t, "killed")
       THEN [kind |-> "malloc", size |-> op[t].size]
       ELSE [kind |-> "free", size |-> 0]]

LEMMA CallsSeen == CallsSeenBy = WaitingCalls /\ CallsSeenBy' = WaitingCalls'
<1>1. CallsSeenBy = WaitingCalls
  BY DEF CallsSeenBy, WaitingCalls, Waiting, WaitsForBlock, OpAt, Allocating
<1>2. CallsSeenBy' = WaitingCalls'
  BY DEF CallsSeenBy, WaitingCalls, Waiting, WaitsForBlock, OpAt, Allocating
<1> QED
  BY <1>1, <1>2

\* The steps of the service in terms of the calls of this module.
LEMMA ServiceSteps ==
  ASSUME NEW t \in Thread, OpStays(t)
  PROVE  /\ WaitingCalls' = [WaitingCalls EXCEPT ![t] = Waiting(op'[t])]
         /\ Waiting(op'[t]) = Waiting(op[t]) => WaitingCalls' = WaitingCalls
<1>1. \A u \in Thread : Waiting(op'[u]) =
        IF u = t THEN Waiting(op'[t]) ELSE Waiting(op[u])
  BY DEF OpStays
<1>2. /\ WaitingCalls' = [u \in Thread |-> Waiting(op'[u])]
      /\ WaitingCalls = [u \in Thread |-> Waiting(op[u])]
  BY DEF WaitingCalls
<1> HIDE DEF WaitingCalls, Waiting
<1> QED
  BY <1>1, <1>2

\* A request is answered with memory that nobody has.
LEMMA AnswersRequest ==
  ASSUME IInv, HeapInv, NEW t \in Thread, NEW a, GiveOut(t, a), op[t].at \in WaitsForBlock,
         Apart(a, op[t].size)
  PROVE  Service!MallocReturns(t)
<1> DEFINE b == [addr |-> a, size |-> op[t].size, by |-> t]
<1>0. HeapTyped
  BY DEF HeapInv
<1>1. OpStays(t) /\ op'[t].at = "idle" /\ live' = live \cup {b}
  BY <1>0, GiveOutStep
<1>2. Waiting(op[t]) = [kind |-> "malloc", size |-> op[t].size]
  BY DEF Waiting, WaitsForBlock
<1>3. Waiting(op'[t]) = Service!Nothing
  BY <1>1 DEF Waiting, Service!Nothing
<1>4. WaitingCalls[t] = Waiting(op[t])
  BY DEF WaitingCalls
<1>5. WaitingCalls' = [WaitingCalls EXCEPT ![t] = Service!Nothing]
  BY <1>1, <1>3, ServiceSteps
<1>6. a \in 0 .. NPages * kPageSize - 1
      /\ Service!Extent(a, op[t].size) \subseteq 0 .. NPages * kPageSize - 1
  BY DEF Apart, Addr
<1>7. b.addr = a /\ b.size = op[t].size
  OBVIOUS
<1>8. \A c \in live : ~Service!Overlap(b, c)
  BY <1>7 DEF Apart, Service!Overlap
<1>9. WaitingCalls[t].kind = "malloc" /\ WaitingCalls[t].size = op[t].size
  BY <1>2, <1>4
<1> HIDE DEF WaitingCalls
<1> QED
  BY <1>1, <1>5, <1>6, <1>7, <1>8, <1>9, CallsSeen DEF CallsSeenBy, Service!MallocReturns

LEMMA Answers ==
  ASSUME IInv, HeapInv, NEW t \in Thread,
         \/ \E s, b : Gives(t, s, b)
         \/ \E b : Cuts(t, b)
         \/ SystemMalloc(t)
  PROVE  Service!MallocReturns(t)
<1>0. BlockInv /\ HeapTyped /\ SizeKnown(t)
  BY DEF HeapInv
<1>1. ASSUME NEW s, NEW b, Gives(t, s, b) PROVE Service!MallocReturns(t)
  <2>1. /\ op[t].at \in {"thread malloc", "central search"} /\ s \in Page /\ IsCut(s)
        /\ b \in mem_block_list_[s] /\ mem_block_size_[s] = CeilMemSize(op[t].size)
        /\ GiveOut(t, b)
    BY <1>1 DEF Gives
  <2>2. op[t].size \in Requests /\ op[t].at \in WaitsForBlock
    BY <1>0, <2>1 DEF SizeKnown, Asks, WaitsForBlock
  <2>3. /\ s \in lent
        /\ b \in Blocks(s, CeilMemSize(op[t].size), BlockNum(page_num_[s], CeilMemSize(op[t].size)))
    BY <1>0, <2>1, CutSpan DEF BlockInv
  <2>4. Apart(b, op[t].size)
    BY <2>1, <2>2, <2>3, BlockOfSpanIsApart
  <2> QED
    BY <2>1, <2>2, <2>4, AnswersRequest
<1>2. ASSUME NEW b, Cuts(t, b) PROVE Service!MallocReturns(t)
  <2>1. PICK s : s = call[t].span
    OBVIOUS
  <2>2. Fetched(t) /\ b \in Fresh(t) /\ GiveOut(t, b)
    BY <1>2 DEF Cuts
  <2>3. op[t].size \in Requests /\ op[t].at \in WaitsForBlock
    BY <1>0, <2>2 DEF Fetched, Fetching, SizeKnown, Asks, WaitsForBlock
  <2>4. /\ s \in lent /\ ~IsCut(s)
        /\ b \in Blocks(s, CeilMemSize(op[t].size), BlockNum(page_num_[s], CeilMemSize(op[t].size)))
    BY <1>0, <2>1, <2>2 DEF BlockInv, FetchedWhole, Fresh
  <2>5. Apart(b, op[t].size)
    BY <2>3, <2>4, BlockOfSpanIsApart
  <2> QED
    BY <2>2, <2>3, <2>5, AnswersRequest
<1>3. CASE SystemMalloc(t)
  <2>1. PICK p \in MapPlaces(SystemPages(CeilMemSize(op[t].size))) :
          GiveOut(t, SystemAddr(p))
    BY <1>3 DEF SystemMalloc, SystemAddr
  <2>2. op[t].size \in Requests /\ op[t].at \in WaitsForBlock
    BY <1>0, <1>3 DEF SystemMalloc, SizeKnown, Asks, OpAt, WaitsForBlock
  <2>3. Apart(SystemAddr(p), op[t].size)
    BY <2>2, SystemBlockIsApart
  <2> QED
    BY <2>1, <2>2, <2>3, AnswersRequest
<1> QED
  BY <1>1, <1>2, <1>3

\* The other steps: a call goes on, or a MyFree returns.
LEMMA GoesOnOrReturns ==
  ASSUME NEW t \in Thread, OpStays(t), live' = live,
         \/ op'[t] = op[t]
         \/ /\ op[t].at \in WaitsForBlock /\ op'[t].at \in WaitsForBlock
            /\ op'[t].size = op[t].size
         \/ op[t].at \notin WaitsForBlock \cup {"idle"} /\ op'[t].at \notin WaitsForBlock
  PROVE  Service!FreeReturns(t) \/ UNCHANGED Service!vars
<1>1. \/ Waiting(op'[t]) = Waiting(op[t])
      \/ Waiting(op[t]).kind = "free" /\ Waiting(op'[t]) = Service!Nothing
  BY DEF Waiting, WaitsForBlock, Service!Nothing
<1>2. WaitingCalls[t] = Waiting(op[t])
  BY DEF WaitingCalls
<1>3. CASE Waiting(op'[t]) = Waiting(op[t])
  <2>1. WaitingCalls' = WaitingCalls
    BY <1>3, ServiceSteps
  <2> QED
    BY <2>1, CallsSeen DEF CallsSeenBy, Service!vars
<1>4. CASE Waiting(op[t]).kind = "free" /\ Waiting(op'[t]) = Service!Nothing
  <2>1. WaitingCalls' = [WaitingCalls EXCEPT ![t] = Service!Nothing]
    BY <1>4, ServiceSteps
  <2> HIDE DEF WaitingCalls
  <2> QED
    BY <1>2, <1>4, <2>1, CallsSeen DEF CallsSeenBy, Service!FreeReturns
<1> QED
  BY <1>1, <1>3, <1>4

LEMMA CallsBegin ==
  ASSUME IInv, HeapInv, NEW t \in Thread,
         \/ \E r \in Requests : MyMalloc(t, r)
         \/ \E b \in live : MyFree(t, b)
  PROVE  Service!Next
<1>0. TypeInv /\ HeapTyped
  BY DEF IInv, HeapInv
<1>1. WaitingCalls[t] = Waiting(op[t])
  BY DEF WaitingCalls
<1>2. ASSUME NEW r \in Requests, MyMalloc(t, r) PROVE Service!Malloc(t)
  <2>1. /\ OpStays(t) /\ op[t].at = "idle" /\ op'[t].size = r
        /\ op'[t].at \in {"thread malloc", "central malloc", "system malloc"}
    BY <1>0, <1>2, MyMallocStep
  <2>2. live' = live
    BY <1>2 DEF MyMalloc
  <2>3. /\ Waiting(op[t]) = Service!Nothing
        /\ Waiting(op'[t]) = [kind |-> "malloc", size |-> r]
    BY <2>1 DEF Waiting, WaitsForBlock, Service!Nothing
  <2>4. WaitingCalls' = [WaitingCalls EXCEPT ![t] = [kind |-> "malloc", size |-> r]]
    BY <2>1, <2>3, ServiceSteps
  <2> HIDE DEF WaitingCalls
  <2> QED
    BY <1>1, <2>2, <2>3, <2>4, CallsSeen DEF CallsSeenBy, Service!Malloc
<1>3. ASSUME NEW b \in live, MyFree(t, b) PROVE Service!Free(t)
  <2>1. /\ OpStays(t) /\ op[t].at = "idle" /\ live' = live \ {b}
        /\ op'[t].at \in {"undefined", "system free", "found"}
    BY <1>0, <1>3, MyFreeStep
  <2>2. /\ Waiting(op[t]) = Service!Nothing
        /\ Waiting(op'[t]) = [kind |-> "free", size |-> 0]
    BY <2>1 DEF Waiting, WaitsForBlock, Service!Nothing
  <2>3. WaitingCalls' = [WaitingCalls EXCEPT ![t] = [kind |-> "free", size |-> 0]]
    BY <2>1, <2>2, ServiceSteps
  <2> HIDE DEF WaitingCalls
  <2> QED
    BY <1>1, <2>1, <2>2, <2>3, CallsSeen DEF CallsSeenBy, Service!Free
<1> QED
  BY <1>2, <1>3 DEF Service!Next

LEMMA ServiceStep ==
  ASSUME IInv, HeapInv, [Next]_vars
  PROVE  [Service!Next]_(Service!vars)
<1>0. TypeInv /\ HeapTyped /\ BlockInv /\ \A t \in Thread : SizeKnown(t)
  BY DEF IInv, HeapInv
<1>1. CASE UNCHANGED vars
  <2>1. op' = op /\ live' = live
    BY <1>1 DEF vars, heapVars
  <2>2. WaitingCalls' = WaitingCalls
    BY <2>1 DEF WaitingCalls
  <2> QED
    BY <2>1, <2>2, CallsSeen DEF CallsSeenBy, Service!vars
<1>2. ASSUME NEW t \in Thread, Continue(t)
      PROVE  Service!Next \/ UNCHANGED Service!vars
  <2>1. CASE \/ DistributeMem(t) \/ SearchFinds(t) \/ SpanFetched(t) \/ CentralFetched(t)
             \/ SystemMalloc(t)
    <3>1. op[t].at \in {"thread malloc", "thread fetch", "central search",
                        "central fetch", "system malloc"} /\ op'[t].at = "idle"
      BY <1>0, <2>1, ControlStep DEF Moves
    <3>2. \/ \E s, b : Gives(t, s, b)
          \/ \E b : Cuts(t, b)
          \/ SystemMalloc(t)
      <4>1. ~SystemFree(t) /\ ~FoundSpan(t) /\ ~PutsBack(t) /\ ~GivesBack(t)
        BY <3>1 DEF SystemFree, FoundSpan, PutsBack, GivesBack, OpAt
      <4>2. ~(Inside(t) /\ UNCHANGED heapVars)
        BY <3>1 DEF heapVars
      <4>3. ASSUME Quiet(t) PROVE SystemMalloc(t)
        <5>1. CASE SpanFetched(t) \/ CentralFetched(t)
          BY <4>3, <5>1 DEF SpanFetched, CentralFetched, Quiet, Fetched, Fetching, OpAt
        <5>2. CASE DistributeMem(t) \/ SearchFinds(t)
          <6>1. PICK slot : slot = Size2Slot(CeilMemSize(op[t].size))
            OBVIOUS
          <6>2. op[t].size \in Requests
            BY <1>0, <3>1, <5>2 DEF SizeKnown, Asks, DistributeMem, SearchFinds, OpAt
          <6>3. tc_span_lists_[t][slot] \subseteq Page /\ cc_span_lists_[slot] \subseteq Page
            BY <1>0, <6>1, <6>2, BlockSize DEF HeapTyped
          <6>4. PICK s \in Page : \E b \in mem_block_list_[s] :
                  mem_block_list_' = [mem_block_list_ EXCEPT ![s] = @ \ {b}]
            BY <5>2, <6>1, <6>3 DEF DistributeMem, SearchFinds, TcList, RemoveBlock
          <6>5. mem_block_list_'[s] # mem_block_list_[s]
            BY <1>0, <6>4 DEF HeapTyped
          <6> QED
            BY <4>3, <6>5 DEF Quiet, spanVars
        <5> QED
          BY <2>1, <5>1, <5>2
      <4> QED
        BY <1>2, <4>1, <4>2, <4>3, StepKinds
    <3> QED
      BY <3>2, Answers DEF Service!Next
  <2>2. CASE Inside(t) /\ UNCHANGED heapVars
    <3>1. OpStays(t) /\ live' = live /\ op'[t] = op[t]
      BY <2>2 DEF heapVars, OpStays
    <3> QED
      BY <3>1, GoesOnOrReturns DEF Service!Next
  <2>3. CASE \/ FetchSpanFromPageCache(t) \/ LockCentral(t) \/ SearchFails(t)
             \/ SystemMallocFails(t) \/ SystemFree(t) \/ TakeBackMem(t)
             \/ ReleaseSpanToPageCache(t) \/ SpanReleased(t) \/ LockCentralToFree(t)
             \/ TakeBackMemBlock(t) \/ ReleaseCentralSpan(t) \/ CentralReleased(t)
    <3>1. live' = live
      BY <2>3 DEF FetchSpanFromPageCache, LockCentral, SearchFails, SystemMallocFails,
           SystemFree, TakeBackMem, ReleaseSpanToPageCache, SpanReleased,
           LockCentralToFree, TakeBackMemBlock, ReleaseCentralSpan, CentralReleased
    <3>2. /\ OpStays(t)
          /\ \/ /\ op[t].at \in WaitsForBlock /\ op'[t].at \in WaitsForBlock
                /\ op'[t].size = op[t].size
             \/ op[t].at \notin WaitsForBlock \cup {"idle"} /\ op'[t].at \notin WaitsForBlock
      BY <1>0, <2>3, ControlStep DEF Moves, Keeps, WaitsForBlock
    <3> QED
      BY <3>1, <3>2, GoesOnOrReturns DEF Service!Next
  <2>4. CASE FoundSpan(t)
    <3>1. op[t].span \in Page /\ op[t].at = "found"
      BY <1>0, <2>4 DEF FoundSpan, BlockInv, FreedBlock, OpAt
    <3>2. /\ OpStays(t) /\ live' = live
          /\ op'[t].at \in {"undefined", "thread free", "central free", "idle"}
      BY <1>0, <2>4, <3>1, FoundSpanStep
    <3>3. op[t].at \notin WaitsForBlock \cup {"idle"} /\ op'[t].at \notin WaitsForBlock
      BY <3>1, <3>2 DEF WaitsForBlock
    <3> QED
      BY <3>2, <3>3, GoesOnOrReturns DEF Service!Next
  <2> QED
    BY <1>2, <2>1, <2>2, <2>3, <2>4 DEF Continue
<1> QED
  BY <1>1, <1>2, CallsBegin, NextCases

LEMMA ServiceInit == Init => Service!Init
<1> SUFFICES ASSUME Init PROVE Service!Init
  OBVIOUS
<1>1. live = {} /\ \A t \in Thread : op[t].at = "idle"
  BY DEF Init, NoOp
<1>2. WaitingCalls = [t \in Thread |-> Service!Nothing]
  BY <1>1 DEF WaitingCalls, Waiting, Service!Nothing
<1> QED
  BY <1>1, <1>2, CallsSeen DEF CallsSeenBy, Service!Init

\* MyMalloc and MyFree do what malloc and free promise
\* (heap-allocator/README.md:9): a block that MyMalloc returns lies in memory,
\* is as long as was asked for and overlaps none that a caller holds.
THEOREM ImplementsService == Spec => ImplementsMemoryService
<1>1. IInv /\ HeapInv /\ [Next]_vars => [Service!Next]_(Service!vars)
  BY ServiceStep
<1> QED
  BY <1>1, ServiceInit, HeapInvariant, PTL DEF Spec, ImplementsMemoryService, Service!Spec

-----------------------------------------------------------------------------
(* Everything is given back in the end *)

\* A span that is cut has a block that is not free, and that of a thread cache
\* has two or more.
LEMMA SpansOutStep ==
  ASSUME IInv, HeapInv, SpansOut, \A t \in Thread : FetchedLength(t), [Next]_vars
  PROVE  SpansOut'
<1>0. BlockInv /\ HeapTyped /\ \A t \in Thread : SizeKnown(t)
  BY DEF HeapInv, BlockInv
<1>1. ASSUME UNCHANGED spanVars PROVE SpansOut'
  BY <1>1 DEF spanVars, SpansOut, IsCut, BlocksOf, Blocks
<1>2. ASSUME NEW s \in Page, NEW free, mem_block_list_' = [mem_block_list_ EXCEPT ![s] = free],
             UNCHANGED <<mem_block_size_, mem_block_num_>>, free # BlocksOf(s)
      PROVE  SpansOut'
  <2>1. /\ \A z \in Page : mem_block_list_'[z] = IF z = s THEN free ELSE mem_block_list_[z]
        /\ \A z : BlocksOf(z)' = BlocksOf(z) /\ (IsCut(z)' <=> IsCut(z))
    BY <1>0, <1>2 DEF HeapTyped, BlocksOf, Blocks, IsCut
  <2> QED
    BY <1>2, <2>1 DEF SpansOut
<1>3. ASSUME NEW t \in Thread, NEW s, NEW b, Gives(t, s, b) PROVE SpansOut'
  <2>1. s \in Page /\ IsCut(s) /\ b \in mem_block_list_[s]
    BY <1>3 DEF Gives
  <2>2. b \in BlocksOf(s)
    BY <1>0, <2>1 DEF BlockInv, SpansCut
  <2> QED
    BY <1>2, <1>3, <2>1, <2>2 DEF Gives
<1>4. ASSUME NEW t \in Thread, NEW b, Cuts(t, b) PROVE SpansOut'
  <2>s. PICK s : s = call[t].span
    OBVIOUS
  <2>z. PICK size : size = CeilMemSize(op[t].size)
    OBVIOUS
  <2>n. PICK num : num = BlockNum(page_num_[s], size)
    OBVIOUS
  <2>1. /\ Fetched(t) /\ s \in lent /\ s \in Page
        /\ b \in Blocks(s, size, num)
        /\ mem_block_list_' = [mem_block_list_ EXCEPT ![s] = Blocks(s, size, num) \ {b}]
        /\ mem_block_size_' = [mem_block_size_ EXCEPT ![s] = size]
        /\ mem_block_num_' = [mem_block_num_ EXCEPT ![s] = num]
    BY <1>0, <1>4, <2>s, <2>z, <2>n, LentSpan DEF Cuts, Fresh, BlockInv, FetchedWhole
  <2>2. \A z \in Page :
          /\ mem_block_list_'[z] = IF z = s THEN Blocks(s, size, num) \ {b} ELSE mem_block_list_[z]
          /\ mem_block_size_'[z] = IF z = s THEN size ELSE mem_block_size_[z]
          /\ mem_block_num_'[z] = IF z = s THEN num ELSE mem_block_num_[z]
    BY <1>0, <2>1 DEF HeapTyped
  <2>3. ASSUME FreeRoute(size) = "thread" PROVE num >= 2
    <3>1. op[t].at = "thread fetch" /\ Asks(t, "thread")
      <4>1. op[t].at \in {"thread fetch", "central fetch"}
        BY <2>1 DEF Fetched, Fetching
      <4>2. op[t].at = "central fetch" => Asks(t, "central")
        BY <1>0 DEF SizeKnown
      <4>3. ~Asks(t, "central")
        BY <2>3, <2>z, RouteBack DEF Asks
      <4> QED
        BY <1>0, <4>1, <4>2, <4>3 DEF SizeKnown
    <3>2. page_num_[s] = ThreadPages(size)
      BY <2>1, <2>s, <2>z, <3>1 DEF FetchedLength, Fetched, OpAt
    <3>3. num = BlockNum(ThreadPages(size), size)
      BY <2>n, <3>2
    <3> QED
      BY <2>z, <3>1, <3>3, SpansAssumption DEF SpansAssumption, Asks
  <2>4. ASSUME NEW z \in Page, z # s
        PROVE  /\ IsCut(z)' <=> IsCut(z)
               /\ BlocksOf(z)' = BlocksOf(z)
    BY <2>2, <2>4 DEF IsCut, BlocksOf, Blocks
  <2>5. BlocksOf(s)' = Blocks(s, size, num)
    BY <2>1, <2>2 DEF BlocksOf, Blocks
  <2>6. ASSUME NEW z \in Page, IsCut(z)'
        PROVE  /\ mem_block_list_'[z] # BlocksOf(z)'
               /\ FreeRoute(mem_block_size_'[z]) = "thread" => mem_block_num_'[z] >= 2
    <3>1. CASE z = s
      BY <2>1, <2>2, <2>3, <2>5, <3>1
    <3>2. CASE z # s
      BY <2>2, <2>4, <2>6, <3>2 DEF SpansOut
    <3> QED
      BY <3>1, <3>2
  <2> QED
    BY <2>6 DEF SpansOut
<1>5. ASSUME NEW t \in Thread, PutsBack(t) PROVE SpansOut'
  <2>s. PICK s : s = op[t].span
    OBVIOUS
  <2>f. PICK free : free = BlocksBack(t)
    OBVIOUS
  <2>1. /\ op[t].at \in {"thread free", "central put"}
        /\ s \in Page /\ IsCut(s) /\ free \subseteq BlocksOf(s)
        /\ \/ ~IsFree(s, free)
           \/ op[t].at = "thread free" /\ Cardinality(free) = 1
        /\ mem_block_list_' = [mem_block_list_ EXCEPT ![s] = free]
        /\ UNCHANGED <<mem_block_size_, mem_block_num_>>
    BY <1>5, <2>s, <2>f, BlockGoesBack DEF PutsBack
  <2>2. CASE ~IsFree(s, free)
    <3>1. free # BlocksOf(s)
      BY <1>0, <2>1, <2>2, AllFree DEF BlockInv, IInv
    <3> QED
      BY <1>2, <2>1, <3>1
  <2>3. CASE op[t].at = "thread free" /\ Cardinality(free) = 1
    <3>1. FreeRoute(mem_block_size_[s]) = "thread"
      BY <1>0, <2>3, <2>s DEF BlockInv, FreedBlock, OpAt
    <3>2. mem_block_num_[s] >= 2
      BY <2>1, <3>1 DEF SpansOut
    <3>3. Cardinality(BlocksOf(s)) = mem_block_num_[s] /\ mem_block_num_[s] \in Nat
      BY <1>0, <2>1, CutCount DEF BlockInv
    <3>4. free # BlocksOf(s)
      <4> SUFFICES ASSUME free = BlocksOf(s) PROVE FALSE
        OBVIOUS
      <4>1. mem_block_num_[s] = 1
        BY <2>3, <3>3, Zenon
      <4> QED
        BY <3>2, <4>1
    <3> QED
      BY <1>2, <2>1, <3>4
  <2> QED
    BY <2>1, <2>2, <2>3
<1>6. ASSUME NEW t \in Thread, GivesBack(t) PROVE SpansOut'
  <2>s. PICK s : s = op[t].span
    OBVIOUS
  <2>1. /\ mem_block_list_' = [mem_block_list_ EXCEPT ![s] = {}]
        /\ mem_block_num_' = [mem_block_num_ EXCEPT ![s] = 0]
        /\ mem_block_size_' = [mem_block_size_ EXCEPT ![s] = -1]
    BY <1>6, <2>s DEF GivesBack, Merge
  <2>2. ASSUME NEW z \in Page, IsCut(z)'
        PROVE  /\ IsCut(z) /\ BlocksOf(z)' = BlocksOf(z)
               /\ mem_block_list_'[z] = mem_block_list_[z]
               /\ mem_block_size_'[z] = mem_block_size_[z]
               /\ mem_block_num_'[z] = mem_block_num_[z]
    <3>1. z # s
      BY <1>0, <2>1, <2>2 DEF HeapTyped, IsCut
    <3> QED
      BY <1>0, <2>1, <2>2, <3>1 DEF HeapTyped, IsCut, BlocksOf, Blocks
  <2> QED
    BY <2>2 DEF SpansOut
<1>7. ASSUME NEW t \in Thread, Continue(t) PROVE SpansOut'
  <2>1. ASSUME \/ Inside(t) /\ UNCHANGED heapVars
               \/ Quiet(t) \/ SystemMalloc(t) \/ SystemFree(t) \/ FoundSpan(t)
        PROVE  UNCHANGED spanVars
    BY <2>1 DEF heapVars, Quiet, SystemMalloc, SystemFree, FoundSpan
  <2> QED
    BY <1>1, <1>3, <1>4, <1>5, <1>6, <1>7, <2>1, StepKinds
<1>8. ASSUME \/ UNCHANGED vars
             \/ \E t \in Thread : \/ \E r \in Requests : MyMalloc(t, r)
                                  \/ \E b \in live : MyFree(t, b)
      PROVE  UNCHANGED spanVars
  BY <1>8 DEF vars, heapVars, MyMalloc, MyFree
<1> QED
  BY <1>1, <1>7, <1>8, NextCases

\* The call of the page cache keeps the length it was made with, and what it
\* brings has that length.
LEMMA InsideLength ==
  ASSUME IInv, NEW t \in Thread, Inside(t), call[t].at \in Asking
  PROVE  /\ call'[t].page_num = call[t].page_num
         /\ At(t, "distributed")' => page_num_'[call'[t].span] = call'[t].page_num
<1>0. TypeInv /\ SpanInOnePlace /\ CallKnows(t) /\ call \in [Thread -> CallRecord]
  BY DEF IInv, Places, TypeInv
<1>1. CASE TakeSpan(t)
  <2>n. PICK n : n = call[t].page_num
    OBVIOUS
  <2>1. PICK z \in pc_span_lists_[n] :
          call' = [call EXCEPT ![t].at = "distributed", ![t].span = z]
    BY <1>1, <2>n DEF TakeSpan
  <2>2. n \in Lists /\ page_num_' = page_num_
    BY <1>0, <1>1, <2>n DEF TakeSpan, At, TypeInv, LocalsTyped, Working
  <2>3. page_num_[z] = n
    BY <1>0, <2>1, <2>2 DEF SpanInOnePlace
  <2>4. call'[t].span = z /\ call'[t].page_num = n
    BY <1>0, <2>1, <2>n DEF CallRecord
  <2> QED
    BY <2>2, <2>3, <2>4, <2>n
<1>2. CASE Register(t)
  <2>1. call[t].at = "register" /\ page_num_' = page_num_
    BY <1>2 DEF Register, At
  <2>2. page_num_[call[t].span] = call[t].page_num
    BY <1>0, <2>1 DEF CallKnows, Moving
  <2>3. call'[t].span = call[t].span /\ call'[t].page_num = call[t].page_num
    <3>1. \E label : call' = [call EXCEPT ![t].i = call[t].i + 1, ![t].at = label]
      BY <1>2 DEF Register
    <3> QED
      BY <1>0, <3>1 DEF CallRecord
  <2> QED
    BY <2>1, <2>2, <2>3
<1>3. ASSUME NEW label, label # "distributed", GoTo(t, label)
      PROVE  call'[t].page_num = call[t].page_num /\ ~At(t, "distributed")'
  BY <1>0, <1>3 DEF GoTo, At, CallRecord
<1>4. CASE \/ LockListToDistribute(t) \/ ListIsEmpty(t) \/ LockToMap(t) \/ MapFails(t)
           \/ LockListToTakeBack(t) \/ ListHasRoom(t) \/ PutBack(t) \/ LockToUnmap(t)
           \/ UnmapSpan(t)
  BY <1>3, <1>4
     DEF LockListToDistribute, ListIsEmpty, LockToMap, MapFails, LockListToTakeBack,
         ListHasRoom, PutBack, LockToUnmap, UnmapSpan
<1>5. CASE MapSpan(t)
  <2>1. PICK s \in Page :
          call' = [call EXCEPT ![t].at = "register", ![t].span = s, ![t].i = 0]
    BY <1>5 DEF MapSpan, MapPlaces
  <2> QED
    BY <1>0, <2>1 DEF CallRecord, At
<1>6. CASE EndTakeBack(t)
  BY <1>6 DEF EndTakeBack, At, Asking
<1> QED
  BY <1>1, <1>2, <1>4, <1>5, <1>6 DEF Inside

LEMMA FetchedLengthStep ==
  ASSUME IInv, HeapInv, \A t \in Thread : FetchedLength(t), [Next]_vars
  PROVE  \A t \in Thread : FetchedLength(t)'
<1>0. TypeInv /\ HeapTyped /\ FetchedWhole /\ \A t \in Thread : SizeKnown(t) /\ CallsPageCache(t)
  BY DEF IInv, HeapInv, BlockInv
<1> DEFINE Goal == \A t \in Thread : FetchedLength(t)'
<1>1. [AnyStep]_pageCacheVars
  BY <1>0, PageStep
<1>2. ASSUME NEW t \in Thread, OpStays(t), OthersStay(t), FetchedLength(t)' PROVE Goal
  <2> SUFFICES ASSUME NEW u \in Thread \ {t} PROVE FetchedLength(u)'
    BY <1>2
  <2>s. PICK s : s = call[u].span
    OBVIOUS
  <2>1. op'[u] = op[u] /\ call'[u] = call[u] /\ FetchedLength(u)
    BY <1>2 DEF OpStays, OthersStay
  <2>2. OpAt(u, "thread fetch") /\ At(u, "distributed") => page_num_'[s] = page_num_[s]
    <3> SUFFICES ASSUME OpAt(u, "thread fetch"), At(u, "distributed")
                 PROVE  page_num_'[s] = page_num_[s]
      OBVIOUS
    <3>1. s \in lent
      BY <1>0, <2>s DEF FetchedWhole, Fetched, Fetching, OpAt
    <3> QED
      BY <1>1, <3>1, LentStep
  <2> QED
    BY <2>1, <2>2, <2>s DEF FetchedLength, OpAt, At
<1>3. CASE UNCHANGED vars
  <2>1. op' = op /\ call' = call /\ page_num_' = page_num_
    BY <1>3 DEF vars, heapVars, pageCacheVars
  <2> QED
    BY <2>1 DEF FetchedLength, OpAt, At
<1>4. ASSUME NEW t \in Thread,
             \/ \E r \in Requests : MyMalloc(t, r)
             \/ \E b \in live : MyFree(t, b)
      PROVE  Goal
  <2>1. OpStays(t) /\ op'[t].at # "thread fetch" /\ UNCHANGED call
    BY <1>0, <1>4, MyMallocStep, MyFreeStep DEF pageCacheVars
  <2>2. OthersStay(t)
    BY <1>0, <2>1, CallStays
  <2> QED
    BY <1>2, <2>1, <2>2 DEF FetchedLength, OpAt
<1>5. ASSUME NEW t \in Thread, Continue(t) PROVE Goal
  <2>0. SizeKnown(t) /\ CallsPageCache(t)
    BY <1>0
  <2>1. CASE Inside(t) /\ UNCHANGED heapVars
    <3>1. op' = op /\ OpStays(t)
      BY <2>1 DEF heapVars, OpStays
    <3>2. OpAt(t, "thread fetch") => call[t].at \in Asking
      BY <2>0 DEF CallsPageCache, Fetching, OpAt
    <3>3. FetchedLength(t)'
      BY <2>1, <3>1, <3>2, InsideLength DEF FetchedLength, OpAt
    <3> QED
      BY <1>0, <1>2, <2>1, <3>1, <3>3, InsideStep
  <2>2. CASE FoundSpan(t)
    <3>1. op[t].span \in Page
      BY <2>2 DEF HeapInv, BlockInv, FreedBlock, FoundSpan
    <3>2. OpStays(t) /\ op'[t].at # "thread fetch" /\ UNCHANGED call
      BY <1>0, <2>2, <3>1, FoundSpanStep DEF pageCacheVars
    <3>3. OthersStay(t)
      BY <1>0, <3>2, CallStays
    <3> QED
      BY <1>2, <3>2, <3>3 DEF FetchedLength, OpAt
  <2>3. CASE FetchSpanFromPageCache(t)
    <3>n. PICK n : n = ThreadPages(CeilMemSize(op[t].size))
      OBVIOUS
    <3>1. /\ op[t].at = "thread malloc" /\ op'[t].size = op[t].size
          /\ OpStays(t) /\ OthersStay(t) /\ call'[t].at = "lock list"
      BY <1>0, <2>0, <2>3, ControlStep DEF Moves, Keeps
    <3>2. call'[t].page_num = n
      <4>1. \E label : call' = [call EXCEPT ![t] = NewCall(label, n, null)]
        BY <2>3, <3>n DEF FetchSpanFromPageCache, DistributeSpan
      <4> QED
        BY <1>0, <4>1 DEF TypeInv, NewCall
    <3>3. FetchedLength(t)'
      BY <3>1, <3>2, <3>n DEF FetchedLength, At
    <3> QED
      BY <1>2, <3>1, <3>3
  <2>4. CASE \/ DistributeMem(t) \/ SpanFetched(t) \/ LockCentral(t) \/ SearchFinds(t)
             \/ SearchFails(t) \/ CentralFetched(t) \/ SystemMalloc(t) \/ SystemMallocFails(t)
             \/ SystemFree(t) \/ TakeBackMem(t) \/ ReleaseSpanToPageCache(t)
             \/ SpanReleased(t) \/ LockCentralToFree(t) \/ TakeBackMemBlock(t)
             \/ ReleaseCentralSpan(t) \/ CentralReleased(t)
    <3>1. OpStays(t) /\ OthersStay(t) /\ op'[t].at # "thread fetch"
      BY <1>0, <2>0, <2>4, ControlStep DEF Moves
    <3> QED
      BY <1>2, <3>1 DEF FetchedLength, OpAt
  <2> QED
    BY <1>5, <2>1, <2>2, <2>3, <2>4 DEF Continue
<1> QED
  BY <1>3, <1>4, <1>5, NextCases

\* Who has a system block keeps it, or the step is the one that unmaps it, or
\* MyFree takes it, or the lookup found memory that is no span.
LEMMA SystemOutStep ==
  ASSUME IInv, HeapInv, Stopped \/ SystemOut, [Next]_vars
  PROVE  Stopped' \/ SystemOut'
<1>0. BlockInv /\ HeapTyped /\ TypeInv /\ \A t \in Thread : SizeKnown(t)
  BY DEF HeapInv, BlockInv, IInv
<1> DEFINE Goal == Stopped' \/ SystemOut'
<1>1. CASE UNCHANGED vars
  <2>1. /\ op' = op /\ call' = call /\ foreign' = foreign /\ system_pages' = system_pages
        /\ live' = live
    BY <1>1 DEF vars, heapVars, pageCacheVars
  <2> QED
    BY <2>1 DEF Stopped, Killed, At, SystemOut, HasSystemBlock, LiveAddrs
\* Who had a block has it, and no page is mapped for others.
<1>2. ASSUME SystemOut, UNCHANGED <<foreign, system_pages>>,
             \A p \in Page : system_pages[p] # 0 /\ HasSystemBlock(p) => HasSystemBlock(p)'
      PROVE  SystemOut'
  BY <1>2 DEF SystemOut
<1>3. ASSUME NEW t \in Thread, OpStays(t), op[t].at \notin {"found", "system free"},
             LiveAddrs \subseteq LiveAddrs', NEW p, HasSystemBlock(p)
      PROVE  HasSystemBlock(p)'
  BY <1>3 DEF HasSystemBlock, OpStays
<1>4. ASSUME SystemOut, NEW t \in Thread, OpStays(t), op[t].at \notin {"found", "system free"},
             live \subseteq live', UNCHANGED <<foreign, system_pages>>
      PROVE  SystemOut'
  <2>1. LiveAddrs \subseteq LiveAddrs'
    BY <1>4 DEF LiveAddrs
  <2> QED
    BY <1>2, <1>3, <1>4, <2>1
<1>5. ASSUME SystemOut, NEW t \in Thread, NEW r \in Requests, MyMalloc(t, r) PROVE Goal
  <2>1. OpStays(t) /\ op[t].at = "idle"
    BY <1>0, <1>5, MyMallocStep
  <2>2. live' = live /\ UNCHANGED <<foreign, system_pages>>
    BY <1>5 DEF MyMalloc, pageCacheVars
  <2> QED
    BY <1>4, <1>5, <2>1, <2>2
<1>6. ASSUME SystemOut, NEW t \in Thread, NEW b \in live, MyFree(t, b) PROVE Goal
  <2>1. /\ op[t].at = "idle" /\ OpStays(t) /\ op'[t].block = b.addr
        /\ op'[t].at \in {"undefined", "system free", "found"}
        /\ live' = live \ {b} /\ UNCHANGED <<foreign, system_pages>>
    BY <1>0, <1>6, MyFreeStep DEF pageCacheVars
  <2>2. CASE op'[t].at = "undefined"
    BY <2>2 DEF Stopped
  <2>3. CASE op'[t].at \in {"system free", "found"}
    <3>1. ASSUME NEW p \in Page, HasSystemBlock(p) PROVE HasSystemBlock(p)'
      <4>1. CASE SystemAddr(p) = b.addr
        BY <2>1, <2>3, <4>1 DEF HasSystemBlock
      <4>2. CASE SystemAddr(p) # b.addr
        <5>1. SystemAddr(p) \in LiveAddrs => SystemAddr(p) \in LiveAddrs'
          BY <2>1, <4>2 DEF LiveAddrs
        <5> QED
          BY <2>1, <3>1, <5>1 DEF HasSystemBlock, OpStays
      <4> QED
        BY <4>1, <4>2
    <3> QED
      BY <1>2, <1>6, <2>1, <3>1
  <2> QED
    BY <2>1, <2>2, <2>3
<1>7. ASSUME SystemOut, NEW t \in Thread, SystemMalloc(t) PROVE Goal
  <2>n. PICK n : n = SystemPages(CeilMemSize(op[t].size))
    OBVIOUS
  <2>1. PICK s \in MapPlaces(n) :
          /\ foreign' = foreign \cup PagesFrom(s, n)
          /\ system_pages' = [system_pages EXCEPT ![s] = n]
          /\ GiveOut(t, SystemAddr(s))
    BY <1>7, <2>n DEF SystemMalloc, SystemAddr
  <2>2. op[t].at = "system malloc" /\ s \in Page
    BY <1>7, <2>1 DEF SystemMalloc, MapPlaces, OpAt
  <2>3. n \in Nat \ {0}
    BY <1>0, <1>7, <2>n, SystemMallocPages
  <2>4. /\ OpStays(t)
        /\ live' = live \cup {[addr |-> SystemAddr(s), size |-> op[t].size, by |-> t]}
    BY <1>0, <2>1, GiveOutStep
  <2>5. LiveAddrs \subseteq LiveAddrs' /\ SystemAddr(s) \in LiveAddrs'
    <3>1. PICK b : b = [addr |-> SystemAddr(s), size |-> op[t].size, by |-> t]
      OBVIOUS
    <3>2. live' = live \cup {b} /\ b.addr = SystemAddr(s)
      BY <2>4, <3>1
    <3> QED
      BY <3>2 DEF LiveAddrs
  <2>6. \A p \in Page : system_pages'[p] = IF p = s THEN n ELSE system_pages[p]
    BY <1>0, <2>1, <2>2 DEF HeapTyped
  \* The new place was free: it is in no other block.
  <2>7. ASSUME NEW q \in foreign'
        PROVE  \E p \in Page : system_pages'[p] # 0 /\ q \in PagesFrom(p, system_pages'[p])
    <3>1. CASE q \in PagesFrom(s, n)
      BY <2>2, <2>3, <2>6, <3>1
    <3>2. CASE q \in foreign
      <4>1. PICK p \in Page : system_pages[p] # 0 /\ q \in PagesFrom(p, system_pages[p])
        BY <1>7, <3>2 DEF SystemOut
      <4>2. p # s
        <5>1. p \in foreign
          BY <1>0, <4>1, SystemPage DEF BlockInv
        <5>2. s \notin foreign
          <6>1. s \in PagesFrom(s, n)
            <7>1. s \in Page
              BY <2>2
            <7>2. s \in Nat
              BY <7>1, SizesTyped DEF Page
            <7> QED
              BY <2>3, <7>2 DEF PagesFrom
          <6> QED
            BY <6>1 DEF MapPlaces
        <5> QED
          BY <5>1, <5>2
      <4> QED
        BY <2>6, <4>1, <4>2
    <3> QED
      BY <2>1, <2>7, <3>1, <3>2
  <2>8. ASSUME NEW p \in Page, system_pages'[p] # 0 PROVE HasSystemBlock(p)'
    <3>1. CASE p = s
      BY <2>5, <3>1 DEF HasSystemBlock
    <3>2. CASE p # s
      <4>1. HasSystemBlock(p)
        BY <1>7, <2>6, <2>8, <3>2 DEF SystemOut
      <4> QED
        BY <1>3, <2>2, <2>4, <2>5, <4>1
    <3> QED
      BY <3>1, <3>2
  <2>9. SystemOut'
    BY <2>7, <2>8 DEF SystemOut, PagesFrom
  <2> QED
    BY <2>9
<1>8. ASSUME SystemOut, NEW t \in Thread, SystemFree(t) PROVE Goal
  <2>s. PICK s : s = PageOf(op[t].block)
    OBVIOUS
  <2>1. /\ op[t].at = "system free" /\ live' = live
        /\ foreign' = foreign \ PagesFrom(s, system_pages[s])
        /\ system_pages' = [system_pages EXCEPT ![s] = 0]
        /\ op' = [op EXCEPT ![t] = NoOp]
    BY <1>8, <2>s DEF SystemFree, UnmapBlock, OpAt
  <2>2. OpStays(t)
    BY <1>0, <2>1, NoOpTyped, OpSetStep DEF HeapTyped
  <2>3. \A p \in Page : system_pages'[p] = IF p = s THEN 0 ELSE system_pages[p]
    BY <1>0, <2>1 DEF HeapTyped
  <2>4. ASSUME NEW q \in foreign'
        PROVE  \E p \in Page : system_pages'[p] # 0 /\ q \in PagesFrom(p, system_pages'[p])
    <3>1. PICK p \in Page : system_pages[p] # 0 /\ q \in PagesFrom(p, system_pages[p])
      BY <1>8, <2>1, <2>4 DEF SystemOut
    <3>2. p # s
      BY <2>1, <2>4, <3>1
    <3> QED
      BY <2>3, <3>1, <3>2
  <2>5. ASSUME NEW p \in Page, system_pages'[p] # 0 PROVE HasSystemBlock(p)'
    <3>1. p # s /\ HasSystemBlock(p)
      BY <1>8, <2>3, <2>5 DEF SystemOut
    <3>2. op[t].block # SystemAddr(p)
      BY <2>s, <3>1, SystemAddrFacts
    <3>3. LiveAddrs' = LiveAddrs
      BY <2>1 DEF LiveAddrs
    <3> QED
      BY <2>2, <3>1, <3>2, <3>3 DEF HasSystemBlock, OpStays
  <2>6. SystemOut'
    BY <2>4, <2>5 DEF SystemOut, PagesFrom
  <2> QED
    BY <2>6
<1>9. ASSUME SystemOut, NEW t \in Thread, FoundSpan(t) PROVE Goal
  <2>a. PICK a : a = op[t].block
    OBVIOUS
  <2>s. PICK s : s = op[t].span
    OBVIOUS
  <2>1. op[t].at = "found" /\ FreedBlock(t) /\ s \in Page
    BY <1>0, <1>9, <2>s DEF BlockInv, FreedBlock, FoundSpan, OpAt
  <2>2. /\ OpStays(t)
        /\ op'[t].at = "undefined" \/ a \in BlocksOf(s)
        /\ UNCHANGED <<pageCacheVars, system_pages, live>>
    BY <1>0, <1>9, <2>1, <2>a, <2>s, FoundSpanStep
  <2>3. CASE op'[t].at = "undefined"
    BY <2>3 DEF Stopped
  <2>4. CASE a \in BlocksOf(s)
    <3>1. IsCut(s)
      <4> SUFFICES ASSUME ~IsCut(s) PROVE FALSE
        OBVIOUS
      <4>1. mem_block_num_[s] = 0
        BY <1>0, <2>1 DEF BlockInv, SpansCut
      <4>2. 0 .. mem_block_num_[s] - 1 = {}
        BY <4>1
      <4> QED
        BY <2>4, <4>2 DEF BlocksOf, Blocks
    <3>2. InNoSystemBlock(a)
      BY <2>1, <2>4, <3>1, SystemIsNotCut
    <3>3. ASSUME NEW p \in Page, system_pages[p] # 0, HasSystemBlock(p)
          PROVE  HasSystemBlock(p)'
      <4>1. a # SystemAddr(p)
        BY <3>2, <3>3, SystemAddrFacts DEF InNoSystemBlock
      <4>2. LiveAddrs' = LiveAddrs
        BY <2>2 DEF LiveAddrs
      <4> QED
        BY <2>2, <2>a, <3>3, <4>1, <4>2 DEF HasSystemBlock, OpStays
    <3>4. UNCHANGED <<foreign, system_pages>>
      BY <2>2 DEF pageCacheVars
    <3> QED
      BY <1>2, <1>9, <3>3, <3>4
  <2> QED
    BY <2>2, <2>3, <2>4
\* The other steps leave the system blocks alone.
<1>10. ASSUME SystemOut, NEW t \in Thread,
              \/ Inside(t) /\ UNCHANGED heapVars
              \/ \E s, b : Gives(t, s, b)
              \/ \E b : Cuts(t, b)
              \/ PutsBack(t) \/ GivesBack(t) \/ Quiet(t)
       PROVE  SystemOut'
  <2>1. CASE Inside(t) /\ UNCHANGED heapVars
    <3>1. foreign' = foreign
      BY <1>0, <2>1, InsideStep
    <3>2. op' = op /\ live' = live /\ system_pages' = system_pages
      BY <2>1 DEF heapVars
    <3> QED
      BY <1>2, <1>10, <3>1, <3>2 DEF HasSystemBlock, LiveAddrs
  <2>2. CASE \/ \E s, b : Gives(t, s, b)
             \/ \E b : Cuts(t, b)
    <3>1. PICK b : GiveOut(t, b)
      BY <2>2 DEF Gives, Cuts
    <3>2. OpStays(t) /\ live \subseteq live'
      BY <1>0, <3>1, GiveOutStep
    <3>3. op[t].at \notin {"found", "system free"} /\ UNCHANGED <<foreign, system_pages>>
      BY <2>2 DEF Gives, Cuts, Fetched, Fetching, Return, pageCacheVars
    <3> QED
      BY <1>4, <1>10, <3>2, <3>3
  <2>3. CASE PutsBack(t)
    <3>1. OpStays(t)
      BY <1>0, <2>3, NoOpTyped, OpSetStep DEF HeapTyped, PutsBack
    <3> QED
      BY <1>4, <1>10, <2>3, <3>1 DEF PutsBack, pageCacheVars
  <2>4. CASE GivesBack(t)
    BY <1>4, <1>10, <2>4 DEF GivesBack, TakeBackSpan
  <2>5. CASE Quiet(t)
    BY <1>4, <1>10, <2>5 DEF Quiet, Frees, Freeing, OpAt
  <2> QED
    BY <1>10, <2>1, <2>2, <2>3, <2>4, <2>5
<1>11. ASSUME SystemOut, NEW t \in Thread, Continue(t) PROVE Goal
  BY <1>7, <1>8, <1>9, <1>10, <1>11, StepKinds
<1>12. CASE Stopped
  BY <1>1, <1>12 DEF Next, Step, StayStopped
<1> QED
  BY <1>1, <1>5, <1>6, <1>11, <1>12, NextCases

LEMMA ReturnInvStep == IInv /\ HeapInv /\ ReturnInv /\ [Next]_vars => ReturnInv'
<1> SUFFICES ASSUME IInv, HeapInv, ReturnInv, [Next]_vars PROVE ReturnInv'
  OBVIOUS
<1>1. SpansOut'
  BY SpansOutStep DEF ReturnInv
<1>2. \A t \in Thread : FetchedLength(t)'
  BY FetchedLengthStep DEF ReturnInv
<1>3. Stopped' \/ SystemOut'
  BY SystemOutStep DEF ReturnInv
<1> QED
  BY <1>1, <1>2, <1>3 DEF ReturnInv

LEMMA ReturnInvInit == Init => ReturnInv
<1> SUFFICES ASSUME Init PROVE ReturnInv
  OBVIOUS
<1>1. SpansOut
  BY DEF Init, SpansOut, IsCut
<1>2. \A t \in Thread : FetchedLength(t)
  BY DEF Init, FetchedLength, OpAt, NoOp
<1>3. SystemOut
  BY DEF Init, PCInit, SystemOut
<1> QED
  BY <1>1, <1>2, <1>3 DEF ReturnInv

\* When no caller holds a block and no call is under way, every span would be
\* whole, and the callers and calls had every page of the third branch.
LEMMA NothingOut ==
  ASSUME IInv, HeapInv, ReturnInv
  PROVE  AllReturned
<1> SUFFICES ASSUME live = {}, ~Stopped, \A t \in Thread : OpAt(t, "idle")
             PROVE  lent = {} /\ foreign = {}
  BY DEF AllReturned
<1>1. LiveAddrs = {} /\ BlocksBeingFreed = {}
  BY DEF LiveAddrs, BlocksBeingFreed, Freeing, OpAt
<1>2. lent = {}
  <2> SUFFICES ASSUME NEW s \in lent PROVE FALSE
    OBVIOUS
  <2>1. \A t \in Thread : ~Fetched(t)
    BY DEF Fetched, Fetching, OpAt
  <2>2. s \in Page
    BY LentSpan
  <2>3. IsCut(s)
    BY <2>1 DEF HeapInv, BlockInv, LentSpansKnown
  <2>4. BlocksOf(s) \subseteq mem_block_list_[s] /\ mem_block_list_[s] \subseteq BlocksOf(s)
    BY <1>1, <2>2, <2>3 DEF HeapInv, BlockInv, NoneLost, SpansCut
  <2>5. mem_block_list_[s] # BlocksOf(s)
    BY <2>2, <2>3 DEF ReturnInv, SpansOut
  <2> QED
    BY <2>4, <2>5
<1>3. foreign = {}
  <2>1. \A p \in Page : ~HasSystemBlock(p)
    BY <1>1 DEF HasSystemBlock, OpAt
  <2> QED
    BY <2>1 DEF ReturnInv, SystemOut
<1> QED
  BY <1>2, <1>3

\* When callers hold no block and no call is under way, the caches have given
\* every span back to the page cache and every page of the third branch to the
\* system: TakeBackMem does not release a span whose first block comes back
\* (thread-cache.cpp:68-73), and that is no leak as every span has another.
THEOREM EverythingIsGivenBack == Spec => []AllReturned
<1>1. Init => ReturnInv
  BY ReturnInvInit
<1>2. IInv /\ HeapInv /\ ReturnInv /\ [Next]_vars => ReturnInv'
  BY ReturnInvStep
<1>3. IInv /\ HeapInv /\ ReturnInv => AllReturned
  BY NothingOut
<1> QED
  BY <1>1, <1>2, <1>3, HeapInvariant, PTL DEF Spec
=============================================================================
