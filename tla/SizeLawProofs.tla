--------------------------- MODULE SizeLawProofs ---------------------------
(***************************************************************************)
(* The size laws hold of every request of every length: the runs enumerate *)
(* the requests up to a bound, the proofs do not.                          *)
(***************************************************************************)
EXTENDS SizeLaws, SizeProofs

\* What the two thresholds are to rounding.
LEMMA Thresholds ==
  /\ kThreadCacheMaxSize \in Int /\ kCentralCacheMaxSize \in Int
  /\ kAlign < kThreadCacheMaxSize
  /\ kThreadCacheMaxSize < kCentralCacheMaxSize
  /\ IsBlockSize(kThreadCacheMaxSize) /\ IsBlockSize(kCentralCacheMaxSize)
<1>1. \A k \in Int : k >= 1 => IsBlockSize(kAlign * k)
  BY LargeMultiple
<1>2. IsBlockSize(kThreadCacheMaxSize) /\ IsBlockSize(kCentralCacheMaxSize)
  BY <1>1, Multiples
<1> QED
  BY <1>2, Numbers, FetchAssumption DEF FetchAssumption

LEMMA RouteOf ==
  ASSUME NEW n \in Int
  PROVE  /\ MallocRoute(n) = "thread" <=> 0 <= n /\ n < kThreadCacheMaxSize
         /\ MallocRoute(n) = "central"
              <=> kThreadCacheMaxSize <= n /\ n < kCentralCacheMaxSize
         /\ FreeRoute(n) = "thread" <=> 0 <= n /\ n < kThreadCacheMaxSize
         /\ FreeRoute(n) = "central"
              <=> kThreadCacheMaxSize <= n /\ n < kCentralCacheMaxSize
         /\ MallocRoute(n) \in {"thread", "central", "system"}
         /\ FreeRoute(n) \in {"thread", "central", "nothing"}
  BY Thresholds, Numbers DEF MallocRoute, FreeRoute, Dispatch, Below

\* The block of a request that goes to a cache is no longer than the threshold.
LEMMA BlockOfRoute ==
  ASSUME NEW n \in Int
  PROVE  LET b == CeilMemSize(n)
         IN  /\ b \in Int /\ b >= n /\ b >= kMinSize /\ IsBlockSize(b)
             /\ MallocRoute(n) = "thread" => b <= kThreadCacheMaxSize
             /\ MallocRoute(n) = "central"
                  => kThreadCacheMaxSize <= b /\ b <= kCentralCacheMaxSize
<1>1. IsBlockSize(CeilMemSize(n)) /\ CeilMemSize(n) >= n
  BY CeilIsBlockSize
<1>2. CeilMemSize(n) \in Int /\ CeilMemSize(n) >= kMinSize
  BY <1>1 DEF IsBlockSize
<1>3. n <= kThreadCacheMaxSize => CeilMemSize(n) <= kThreadCacheMaxSize
  BY Thresholds, CeilLeast
<1>4. n <= kCentralCacheMaxSize => CeilMemSize(n) <= kCentralCacheMaxSize
  BY Thresholds, CeilLeast
<1> QED
  BY <1>1, <1>2, <1>3, <1>4, RouteOf, Thresholds

LEMMA SlotOfRoute ==
  ASSUME NEW n \in Int
  PROVE  /\ MallocRoute(n) = "thread"
              => Size2Slot(CeilMemSize(n)) \in 0 .. kTCSpanListNum - 1
         /\ MallocRoute(n) = "central"
              => Size2Slot(CeilMemSize(n)) \in 0 .. kCCSpanListNum - 1
<1> DEFINE b == CeilMemSize(n)
<1>1. IsBlockSize(b) /\ b \in Int
  BY BlockOfRoute
<1>2. ASSUME NEW top \in Int, NEW m \in Int, m >= 1, top = kAlign * m, b <= top
      PROVE  Size2Slot(b) \in 0 .. (top \div kAlign + kAlign \div kSmallAlign) - 1
  <2>1. Size2Slot(b) \in Nat
        /\ Size2Slot(b) <= top \div kAlign + kAlign \div kSmallAlign - 1
    BY <1>1, <1>2, SlotInArray
  <2>2. top \div kAlign \in Int /\ kAlign \div kSmallAlign \in Int
    BY Numbers, DivBounds
  <2> QED
    BY <2>1, <2>2
<1> HIDE DEF b
<1>3. ASSUME MallocRoute(n) = "thread"
      PROVE  Size2Slot(b) \in 0 .. kTCSpanListNum - 1
  <2>1. PICK m \in Int : m >= 1 /\ kThreadCacheMaxSize = kAlign * m
    BY Multiples
  <2>2. b <= kThreadCacheMaxSize
    BY <1>3, BlockOfRoute DEF b
  <2> QED
    BY <1>2, <2>1, <2>2, Thresholds DEF kTCSpanListNum
<1>4. ASSUME MallocRoute(n) = "central"
      PROVE  Size2Slot(b) \in 0 .. kCCSpanListNum - 1
  <2>1. PICK m \in Int : m >= 1 /\ kCentralCacheMaxSize = kAlign * m
    BY Multiples
  <2>2. b <= kCentralCacheMaxSize
    BY <1>4, BlockOfRoute DEF b
  <2> QED
    BY <1>2, <2>1, <2>2, Thresholds DEF kCCSpanListNum
<1> QED
  BY <1>3, <1>4 DEF b

\* The span a thread cache asks for is one of the page cache's and has room
\* for two blocks.
LEMMA SpanOfThreadCache ==
  ASSUME NEW b \in Nat \ {0}, b <= kThreadCacheMaxSize
  PROVE  ThreadPages(b) \in 1 .. kSpanMaxSize - 1 /\ BlockNum(ThreadPages(b), b) >= 2
<1> DEFINE P == kPageSize
           F == kFetchPages
           H == kSpanHeadSize
           T == kThreadCacheMaxSize
           room == F * P
           fit == room \div b
           x == b * FetchBlocks(b)
           q == ThreadPages(b)
<1>1. P \in Nat \ {0} /\ F \in Nat \ {0} /\ H \in Nat \ {0} /\ T \in Nat \ {0}
      /\ kPageShift \in Nat \ {0} /\ kPageShift <= P
      /\ kFetchBlocks \in Nat \ {0} /\ kSpanMaxSize \in Nat \ {0} /\ F < kSpanMaxSize
  BY Numbers, FetchAssumption DEF FetchAssumption
<1>2. room \in Nat /\ kFetchBlocks * T <= room /\ 3 * T + H + P <= room
  BY <1>1, FetchAssumption DEF FetchAssumption
<1>3. fit \in Int /\ b * fit <= room /\ room < b * fit + b
  BY <1>2, DivBounds
<1>4. FetchBlocks(b) = IF fit < kFetchBlocks THEN kFetchBlocks ELSE fit
  BY DEF FetchBlocks, Larger
<1>5. kFetchBlocks * b <= kFetchBlocks * T /\ kFetchBlocks * b = b * kFetchBlocks
  BY <1>1, MultipleMonotone
<1>6. q = (x + kPageShift - 1) \div P
  BY DEF ThreadPages
<1> HIDE DEF fit, room, q, P, F, H, T
<1>7. b * fit <= b * FetchBlocks(b) /\ FetchBlocks(b) \in Int
  BY <1>1, <1>3, <1>4, MultipleMonotone
<1>8. x \in Int /\ x <= room /\ room < x + b
  <2>1. b * FetchBlocks(b) <= room
    BY <1>1, <1>2, <1>3, <1>4, <1>5
  <2>2. b * FetchBlocks(b) \in Int /\ b * fit \in Int
    BY <1>3, <1>7
  <2> QED
    BY <1>2, <1>3, <1>7, <2>1, <2>2
<1> HIDE DEF x
<1>9. q \in Int /\ P * q <= x + kPageShift - 1 /\ x + kPageShift - 1 < P * q + P
  <2>1. x + kPageShift - 1 \in Int
    BY <1>1, <1>8
  <2> QED
    BY <1>1, <1>6, <2>1, DivBounds
<1>10. P * q \in Int /\ P * q = q * P
  BY <1>1, <1>9
<1>11. 2 * T + H < P * q
  BY <1>1, <1>2, <1>8, <1>9, <1>10 DEF T
<1>12. q >= 1
  <2> SUFFICES ASSUME q <= 0 PROVE FALSE
    BY <1>9
  <2>1. P * q <= P * 0
    BY <1>1, <1>9, MultipleMonotone
  <2> QED
    BY <1>1, <1>10, <1>11, <2>1
<1>13. q <= F
  <2> SUFFICES ASSUME F < q PROVE FALSE
    BY <1>1, <1>9
  <2>1. P * F + P <= P * q
    BY <1>1, <1>9, NextMultiple
  <2>2. P * F = room
    BY <1>1 DEF room
  <2> QED
    BY <1>1, <1>2, <1>8, <1>9, <1>10, <2>1, <2>2
<1>14. BlockNum(q, b) >= 2
  <2> DEFINE left == q * P - H
  <2>1. left \in Int /\ b * 2 <= left
    BY <1>1, <1>10, <1>11 DEF T
  <2>2. BlockNum(q, b) = left \div b
    BY DEF BlockNum, P, H
  <2> HIDE DEF left
  <2>3. left \div b \in Int /\ left < b * (left \div b) + b
    BY <2>1, DivBounds
  <2>4. ~ left \div b < 2
    <3> SUFFICES ASSUME left \div b < 2 PROVE FALSE
      OBVIOUS
    <3>1. b * (left \div b) + b <= b * 2
      BY <2>3, NextMultiple
    <3> QED
      BY <2>1, <2>3, <3>1
  <2> QED
    BY <2>2, <2>3, <2>4
<1> QED
  BY <1>1, <1>9, <1>12, <1>13, <1>14 DEF q

\* A span of the central cache has room for one block and not for two.
LEMMA SpanOfCentralCache ==
  ASSUME NEW b \in Nat \ {0}, kThreadCacheMaxSize <= b, b <= kCentralCacheMaxSize
  PROVE  CentralPages(b) \in 1 .. kSpanMaxSize - 1 /\ BlockNum(CentralPages(b), b) = 1
<1> DEFINE P == kPageSize
           H == kSpanHeadSize
           n == b + H
           q == CentralPages(b)
           left == q * P - H
<1>1. P \in Nat \ {0} /\ H \in Nat \ {0} /\ kSpanMaxSize \in Nat \ {0}
      /\ kThreadCacheMaxSize \in Nat /\ P <= kThreadCacheMaxSize
  BY Numbers, PageFitsAssumption DEF PageFitsAssumption
<1>2. n \in Int /\ n > P * 0 /\ n <= P * (kSpanMaxSize - 1) /\ kSpanMaxSize - 1 \in Int
  BY <1>1 DEF kCentralCacheMaxSize
<1>3. q = (n + P - 1) \div P
  BY DEF CentralPages
<1>4. q \in Int /\ n <= q * P /\ q * P <= n + P - 1
      /\ (n <= P * (kSpanMaxSize - 1) => q <= kSpanMaxSize - 1)
      /\ (n > P * 0 => q > 0)
  BY <1>2, <1>3, PagesCover
<1> HIDE DEF q, n, P, H
<1>5. q \in 1 .. kSpanMaxSize - 1
  BY <1>1, <1>2, <1>4
<1>6. left \in Int /\ b * 1 <= left /\ left < b * 2
  BY <1>1, <1>4 DEF n
<1> HIDE DEF left
<1>7. left \div b \in Int /\ 1 <= left \div b /\ left \div b < 2
  BY <1>6, DivIn
<1>8. BlockNum(q, b) = left \div b
  BY DEF BlockNum, left, P, H
<1> QED
  BY <1>5, <1>7, <1>8 DEF q

-----------------------------------------------------------------------------
(* The laws, of a request n *)

\* The block sizes do not grow apart: rounding is monotone, so a step of one
\* byte keeps the slot or takes a later one.
LEMMA SlotsGrow ==
  ASSUME NEW n \in Int
  PROVE  LET b == CeilMemSize(n)
             c == CeilMemSize(n + 1)
         IN  Size2Slot(c) >= Size2Slot(b) /\ (Size2Slot(c) = Size2Slot(b)) = (c = b)
<1> DEFINE b == CeilMemSize(n)
           c == CeilMemSize(n + 1)
<1>1. n + 1 \in Int /\ n <= n + 1
  OBVIOUS
<1>2. b <= c /\ IsBlockSize(b) /\ IsBlockSize(c) /\ b \in Int /\ c \in Int
  BY <1>1, CeilMonotone, BlockOfRoute
<1> HIDE DEF b, c
<1>3. CASE b = c
  <2>1. Size2Slot(c) \in Int
    <3>1. CASE c < kAlign
      BY <1>2, <3>1, Numbers, DivBounds DEF Size2Slot
    <3>2. CASE c >= kAlign
      <4>1. c \div kAlign \in Int /\ kAlign - kSmallAlign \in Int
            /\ kSmallAlign \in Nat \ {0} /\ ~ c < kAlign
        BY <1>2, <3>2, Numbers, DivBounds
      <4>2. (kAlign - kSmallAlign) \div kSmallAlign \in Int
        BY <4>1, DivBounds
      <4> QED
        BY <4>1, <4>2 DEF Size2Slot
    <3> QED
      BY <1>2, <3>1, <3>2, Numbers
  <2> QED
    BY <1>3, <2>1 DEF b, c
<1>4. CASE b < c
  <2>1. Size2Slot(b) \in Int /\ Size2Slot(c) \in Int /\ Size2Slot(b) < Size2Slot(c)
    BY <1>2, <1>4, SlotMonotone
  <2>2. Size2Slot(c) # Size2Slot(b) /\ c # b /\ Size2Slot(c) >= Size2Slot(b)
    BY <1>2, <1>4, <2>1
  <2> QED
    BY <2>2 DEF b, c
<1> QED
  BY <1>2, <1>3, <1>4

\* A request of the last step below a threshold is rounded to the threshold,
\* no other one is.
LEMMA RoundedToThreshold ==
  ASSUME NEW n \in Int, NEW top \in {kThreadCacheMaxSize, kCentralCacheMaxSize}
  PROVE  CeilMemSize(n) >= top <=> n > top - kAlign
<1> DEFINE A == kAlign
<1>1. PICK k \in Int : k >= 1 /\ top = A * k
  BY Multiples
<1>2. A \in Nat \ {0} /\ top \in Int /\ A < top /\ IsBlockSize(top)
  BY Thresholds, Numbers
<1>3. k - 1 \in Int /\ top - A = A * (k - 1) /\ k - 1 >= 1
  <2>1. A * (k - 1) = A * k - A /\ k - 1 \in Int
    BY <1>1, <1>2
  <2>2. k # 1
    BY <1>1, <1>2
  <2> QED
    BY <1>1, <1>2, <2>1, <2>2
<1>4. IsBlockSize(top - A)
  BY <1>3, LargeMultiple
<1>5. CeilMemSize(n) \in Int /\ IsBlockSize(CeilMemSize(n)) /\ CeilMemSize(n) >= n
  BY BlockOfRoute
<1>6. ASSUME n <= top - A PROVE ~ CeilMemSize(n) >= top
  <2>1. CeilMemSize(n) <= top - A
    BY <1>4, <1>6, CeilLeast
  <2> QED
    BY <1>2, <1>5, <2>1
<1>7. ASSUME n > top - A PROVE CeilMemSize(n) >= top
  <2> SUFFICES ASSUME CeilMemSize(n) < top PROVE FALSE
    BY <1>2, <1>5
  <2>1. top - A >= A
    BY <1>3, LargeMultiple
  <2>2. CeilMemSize(n) >= A
    BY <1>2, <1>5, <1>7, <2>1
  <2>3. PICK i \in Int : i >= 1 /\ CeilMemSize(n) = A * i
    BY <1>5, <2>2 DEF IsBlockSize
  <2> HIDE DEF A
  <2>4. ~ i <= k - 1
    <3> SUFFICES ASSUME i <= k - 1 PROVE FALSE
      OBVIOUS
    <3>1. A * i <= A * (k - 1)
      BY <1>1, <1>2, <1>3, <2>3, MultipleMonotone
    <3> QED
      BY <1>2, <1>3, <1>5, <1>7, <2>3, <3>1
  <2>5. A * k <= A * i
    BY <1>1, <1>2, <2>3, <2>4, MultipleMonotone
  <2> QED
    BY <1>1, <1>2, <1>5, <2>3, <2>5
<1> QED
  BY <1>2, <1>5, <1>6, <1>7 DEF A

LEMMA Misrouted ==
  ASSUME NEW n \in Int
  PROVE  ~RoutesAgree(n)
           <=> \/ n > kThreadCacheMaxSize - kAlign /\ n < kThreadCacheMaxSize
               \/ n > kCentralCacheMaxSize - kAlign /\ n < kCentralCacheMaxSize
<1> DEFINE b == CeilMemSize(n)
           T == kThreadCacheMaxSize
           C == kCentralCacheMaxSize
<1>1. b \in Int /\ b >= n /\ T \in Int /\ C \in Int /\ kAlign < T /\ T < C
      /\ kAlign \in Nat \ {0} /\ b >= kMinSize /\ kMinSize \in Nat
  BY BlockOfRoute, Thresholds, Numbers
<1>2. (b >= T <=> n > T - kAlign) /\ (b >= C <=> n > C - kAlign)
  BY RoundedToThreshold
<1>3. T <= C - kAlign
  <2>1. PICK k \in Int : T = kAlign * k
    BY Multiples
  <2>2. PICK m \in Int : C = kAlign * m
    BY Multiples
  <2>3. ~ m <= k
    <3> SUFFICES ASSUME m <= k PROVE FALSE
      OBVIOUS
    <3>1. kAlign * m <= kAlign * k
      BY <1>1, <2>1, <2>2, MultipleMonotone
    <3> QED
      BY <1>1, <2>1, <2>2, <3>1
  <2>4. kAlign * k + kAlign <= kAlign * m
    BY <1>1, <2>1, <2>2, <2>3, NextMultiple
  <2> QED
    BY <1>1, <2>1, <2>2, <2>4
<1>4. /\ MallocRoute(n) = "thread" <=> 0 <= n /\ n < T
      /\ MallocRoute(n) = "central" <=> T <= n /\ n < C
      /\ MallocRoute(n) \in {"thread", "central", "system"}
  BY RouteOf
<1>5. /\ FreeRoute(b) = "thread" <=> 0 <= b /\ b < T
      /\ FreeRoute(b) = "central" <=> T <= b /\ b < C
  BY <1>1, RouteOf
<1> HIDE DEF b, T, C
<1>6. RoutesAgree(n) <=> MallocRoute(n) = "system" \/ FreeRoute(b) = MallocRoute(n)
  BY DEF RoutesAgree, b
<1>7. CASE n < 0 \/ n >= C
  BY <1>1, <1>3, <1>4, <1>6, <1>7 DEF T, C
<1>8. CASE 0 <= n /\ n < T
  <2>1. MallocRoute(n) = "thread"
    BY <1>4, <1>8
  <2>2. RoutesAgree(n) <=> 0 <= b /\ b < T
    BY <1>5, <1>6, <2>1
  <2>3. ~RoutesAgree(n) <=> n > T - kAlign
    BY <1>1, <1>2, <1>8, <2>2
  <2>4. ~ n > C - kAlign
    BY <1>1, <1>3, <1>8
  <2> QED
    BY <1>8, <2>3, <2>4 DEF T, C
<1>9. CASE T <= n /\ n < C
  <2>1. MallocRoute(n) = "central"
    BY <1>4, <1>9
  <2>2. RoutesAgree(n) <=> T <= b /\ b < C
    BY <1>5, <1>6, <2>1
  <2>3. ~RoutesAgree(n) <=> n > C - kAlign
    BY <1>1, <1>2, <1>9, <2>2
  <2>4. ~ n < T
    BY <1>1, <1>9
  <2> QED
    BY <1>9, <2>3, <2>4 DEF T, C
<1> QED
  BY <1>1, <1>7, <1>8, <1>9

LEMMA MultipleHasNoRest ==
  ASSUME NEW b \in Nat \ {0}, NEW k \in Int
  PROVE  (b * k) % b = 0
<1> DEFINE x == b * k
<1>1. x \in Int /\ x = b * k
  OBVIOUS
<1>2. x \div b = k
  BY QuotientOfMultiple
<1> HIDE DEF x
<1>3. x % b = x - b * (x \div b)
  BY <1>1
<1> QED
  BY <1>1, <1>2, <1>3 DEF x

\* All block sizes are multiples of the smaller alignment.
LEMMA BlockIsAligned ==
  ASSUME NEW b, IsBlockSize(b)
  PROVE  b % kSmallAlign = 0
<1> DEFINE a == kSmallAlign
<1>1. a \in Nat \ {0} /\ kAlign \in Int /\ b \in Int
  BY Numbers DEF IsBlockSize
<1>2. PICK j \in Int : kAlign = a * j
  BY Multiples
<1>3. CASE b < kAlign
  BY <1>1, <1>3, MultipleHasNoRest DEF IsBlockSize
<1>4. CASE b >= kAlign
  <2>1. PICK k \in Int : b = kAlign * k
    BY <1>4 DEF IsBlockSize
  <2>2. b = a * (j * k) /\ j * k \in Int
    BY <1>1, <1>2, <2>1
  <2> QED
    BY <1>1, <2>2, MultipleHasNoRest
<1> QED
  BY <1>1, <1>3, <1>4

-----------------------------------------------------------------------------
(* The theorems *)

\* The request is a number; nothing else is needed of the state.
LEMMA SizeIsNumber == Spec => [](size \in Int)
<1>1. Init => size \in Int
  BY RequestsAssumption DEF Init, RequestsAssumption
<1>2. size \in Int /\ [OneByteMore]_size => (size \in Int)'
  BY DEF OneByteMore
<1> QED
  BY <1>1, <1>2, PTL DEF Spec

\* A block is long enough for the request and for its two links, and rounding
\* its size again changes nothing: util.cpp's CeilMemSize, for every request.
THEOREM BlocksFit == Spec => []BlockFits
<1>1. size \in Int => BlockFits
  <2> SUFFICES ASSUME size \in Int PROVE BlockFits
    OBVIOUS
  <2>1. PICK n : n = size
    OBVIOUS
  <2>2. CeilMemSize(n) >= n /\ CeilMemSize(n) >= kMinSize /\ IsBlockSize(CeilMemSize(n))
    BY <2>1, BlockOfRoute
  <2> QED
    BY <2>1, <2>2, CeilFixed DEF BlockFits, Block
<1> QED
  BY <1>1, SizeIsNumber, PTL

\* No request makes a cache use an index behind its array: the slots of the
\* caches and the page numbers of DistributeSpan.
THEOREM IndexesInArrays == Spec => []IndexInArray
<1>1. size \in Int => IndexInArray
  <2> SUFFICES ASSUME size \in Int PROVE IndexInArray
    OBVIOUS
  <2>1. PICK n : n = size
    OBVIOUS
  <2> DEFINE b == CeilMemSize(n)
  <2>2. b \in Int /\ b >= kMinSize /\ kMinSize \in Nat \ {0}
        /\ (MallocRoute(n) = "thread" => b <= kThreadCacheMaxSize)
        /\ (MallocRoute(n) = "central"
              => kThreadCacheMaxSize <= b /\ b <= kCentralCacheMaxSize)
    BY <2>1, BlockOfRoute, Numbers
  <2> HIDE DEF b
  <2>3. b \in Nat \ {0}
    BY <2>2
  <2>4. MallocRoute(n) = "thread" => ThreadPages(b) \in 1 .. kSpanMaxSize - 1
    BY <2>2, <2>3, SpanOfThreadCache
  <2>5. MallocRoute(n) = "central" => CentralPages(b) \in 1 .. kSpanMaxSize - 1
    BY <2>2, <2>3, SpanOfCentralCache
  <2>6. /\ MallocRoute(n) = "thread" => Size2Slot(b) \in 0 .. kTCSpanListNum - 1
        /\ MallocRoute(n) = "central" => Size2Slot(b) \in 0 .. kCCSpanListNum - 1
    BY <2>1, SlotOfRoute DEF b
  <2>7. Block = b /\ Route = MallocRoute(n) /\ kPCSpanListNum = kSpanMaxSize
    BY <2>1 DEF Block, Route, b, kPCSpanListNum
  <2>8. /\ Route = "thread" => Pages = ThreadPages(b)
        /\ Route = "central" => Pages = CentralPages(b)
    BY <2>7 DEF Pages, SpanPages
  <2> QED
    BY <2>4, <2>5, <2>6, <2>7, <2>8 DEF IndexInArray
<1> QED
  BY <1>1, SizeIsNumber, PTL

\* One block and no more fits in every span of the central cache, so a list of
\* the central cache never offers a free block (central-cache.cpp:23).
THEOREM CentralSpansHoldOneBlock == Spec => []CentralSpanHoldsOneBlock
<1>1. size \in Int => CentralSpanHoldsOneBlock
  <2> SUFFICES ASSUME size \in Int, Route = "central" PROVE BlockNum(Pages, Block) = 1
    BY DEF CentralSpanHoldsOneBlock
  <2>1. PICK n : n = size
    OBVIOUS
  <2>2. Block = CeilMemSize(n) /\ MallocRoute(n) = "central" /\ Pages = CentralPages(Block)
    BY <2>1 DEF Block, Route, Pages, SpanPages
  <2>3. CeilMemSize(n) \in Nat \ {0} /\ kThreadCacheMaxSize <= CeilMemSize(n)
        /\ CeilMemSize(n) <= kCentralCacheMaxSize
    BY <2>1, <2>2, BlockOfRoute, Numbers
  <2> QED
    BY <2>2, <2>3, SpanOfCentralCache
<1> QED
  BY <1>1, SizeIsNumber, PTL

\* Two blocks fit in every span of a thread cache, so TakeBackMem sees the span
\* with one block missing before it sees it whole (thread-cache.cpp:68).
THEOREM ThreadSpansHoldBlocks == Spec => []ThreadSpanHoldsBlocks
<1>1. size \in Int => ThreadSpanHoldsBlocks
  <2> SUFFICES ASSUME size \in Int, Route = "thread" PROVE BlockNum(Pages, Block) >= 2
    BY DEF ThreadSpanHoldsBlocks
  <2>1. PICK n : n = size
    OBVIOUS
  <2>2. Block = CeilMemSize(n) /\ MallocRoute(n) = "thread" /\ Pages = ThreadPages(Block)
    BY <2>1 DEF Block, Route, Pages, SpanPages
  <2>3. CeilMemSize(n) \in Nat \ {0} /\ CeilMemSize(n) <= kThreadCacheMaxSize
    BY <2>1, <2>2, BlockOfRoute, Numbers
  <2> QED
    BY <2>2, <2>3, SpanOfThreadCache
<1> QED
  BY <1>1, SizeIsNumber, PTL

\* Which requests MyFree sends to another place than MyMalloc did: those of the
\* last step below a threshold, of any size and for any thresholds.
THEOREM OnlyTheWindowsAreMisrouted == Spec => []MisroutedWindows
<1>1. size \in Int => MisroutedWindows
  <2> SUFFICES ASSUME size \in Int PROVE MisroutedWindows
    OBVIOUS
  <2>1. PICK n : n = size
    OBVIOUS
  <2>2. ~RoutesAgree(n)
           <=> \/ n > kThreadCacheMaxSize - kAlign /\ n < kThreadCacheMaxSize
               \/ n > kCentralCacheMaxSize - kAlign /\ n < kCentralCacheMaxSize
    BY <2>1, Misrouted
  <2> QED
    BY <2>1, <2>2 DEF MisroutedWindows
<1> QED
  BY <1>1, SizeIsNumber, PTL

\* The assertion at central-cache.cpp:17 fails for the threshold and no other
\* request.
THEOREM AssertionFailsOnlyAtThreshold == Spec => []AssertionFailsAtThreshold
<1>1. size \in Int => AssertionFailsAtThreshold
  <2> SUFFICES ASSUME size \in Int PROVE AssertionFailsAtThreshold
    OBVIOUS
  <2>1. PICK n : n = size
    OBVIOUS
  <2> DEFINE b == CeilMemSize(n)
             T == kThreadCacheMaxSize
  <2>2. b \in Int /\ b >= n /\ IsBlockSize(b) /\ T \in Int /\ n \in Int
        /\ T < kCentralCacheMaxSize /\ kCentralCacheMaxSize \in Int
    BY <2>1, BlockOfRoute, Thresholds
  <2>3. b % kSmallAlign = 0
    BY <2>2, BlockIsAligned
  <2>4. CeilMemSize(T) = T
    BY Thresholds, CeilFixed
  <2>5. MallocRoute(n) = "central" <=> T <= n /\ n < kCentralCacheMaxSize
    BY <2>2, RouteOf
  <2>6. n = T => b = T
    BY <2>4
  <2>7. Block = b /\ Route = MallocRoute(n)
    BY <2>1 DEF Block, Route
  <2> HIDE DEF b, T
  <2>8. (MallocRoute(n) = "central" /\ ~ b > T) <=> n = T
    BY <2>2, <2>5, <2>6
  <2> QED
    BY <2>1, <2>3, <2>7, <2>8 DEF AssertionFailsAtThreshold, T
<1> QED
  BY <1>1, SizeIsNumber, PTL

\* Blocks of two sizes never meet in one list of a cache: slots grow with the
\* sizes.
THEOREM SlotsSeparate == Spec => SlotsSeparateSizes
<1>1. size \in Int /\ [OneByteMore]_size
        => [/\ Size2Slot(Block') >= Size2Slot(Block)
            /\ (Size2Slot(Block') = Size2Slot(Block)) = (Block' = Block)]_size
  <2> SUFFICES ASSUME size \in Int, OneByteMore
               PROVE  /\ Size2Slot(Block') >= Size2Slot(Block)
                      /\ (Size2Slot(Block') = Size2Slot(Block)) = (Block' = Block)
    OBVIOUS
  <2>1. PICK n : n = size
    OBVIOUS
  <2>2. n \in Int /\ size' = n + 1
    BY <2>1 DEF OneByteMore
  <2>3. Block = CeilMemSize(n) /\ Block' = CeilMemSize(n + 1)
    BY <2>1, <2>2 DEF Block
  <2> HIDE DEF Block
  <2> QED
    BY <2>2, <2>3, SlotsGrow
<1> QED
  BY <1>1, SizeIsNumber, PTL DEF Spec, SlotsSeparateSizes
=============================================================================
