----------------------------- MODULE SizeProofs -----------------------------
(***************************************************************************)
(* Proofs about the size arithmetic, for every request and for all numbers *)
(* that satisfy SizesAssumption: what a block size is, how far rounding    *)
(* goes, and that the slots are as many as the sizes.                      *)
(***************************************************************************)
EXTENDS AllocatorSizes, TLAPS

(* Arithmetic *)

LEMMA DivBounds ==
  ASSUME NEW a \in Int, NEW b \in Nat \ {0}
  PROVE  a \div b \in Int /\ b * (a \div b) <= a /\ a < b * (a \div b) + b
  OBVIOUS

LEMMA NextMultiple ==
  ASSUME NEW b \in Nat, NEW k \in Int, NEW m \in Int, k < m
  PROVE  b * k + b <= b * m
<1>1. b * (m - k - 1) >= 0
  OBVIOUS
<1>2. b * (m - k - 1) = b * m - b * k - b
  OBVIOUS
<1> QED
  BY <1>1, <1>2

LEMMA MultipleMonotone ==
  ASSUME NEW b \in Nat, NEW k \in Int, NEW m \in Int, k <= m
  PROVE  b * k <= b * m
<1>1. b * (m - k) >= 0
  OBVIOUS
<1>2. b * (m - k) = b * m - b * k
  OBVIOUS
<1> QED
  BY <1>1, <1>2

LEMMA DivIn ==
  ASSUME NEW a \in Int, NEW b \in Nat \ {0}, NEW k \in Int, NEW m \in Int,
         b * k <= a, a < b * m
  PROVE  a \div b \in Int /\ k <= a \div b /\ a \div b < m
<1> DEFINE q == a \div b
<1>1. q \in Int /\ b * q <= a /\ a < b * q + b
  BY DivBounds
<1> HIDE DEF q
<1>2. ~ q < k
  <2> SUFFICES ASSUME q < k PROVE FALSE
    OBVIOUS
  <2>1. b * q + b <= b * k
    BY <1>1, NextMultiple
  <2> QED
    BY <1>1, <2>1
<1>3. ~ m <= q
  <2> SUFFICES ASSUME m <= q PROVE FALSE
    OBVIOUS
  <2>1. CASE m = q
    BY <1>1, <2>1
  <2>2. CASE m < q
    <3>1. b * m + b <= b * q
      BY <1>1, <2>2, NextMultiple
    <3> QED
      BY <1>1, <3>1
  <2> QED
    BY <1>1, <2>1, <2>2
<1> QED
  BY <1>1, <1>2, <1>3 DEF q

LEMMA RoundUpAtLeast ==
  ASSUME NEW n \in Int, NEW unit \in Nat \ {0}
  PROVE  RoundUp(n, unit) \in Int /\ RoundUp(n, unit) >= n
<1> DEFINE q == (n + unit - 1) \div unit
<1>1. q \in Int /\ n + unit - 1 < unit * q + unit
  BY DivBounds
<1> HIDE DEF q
<1>2. RoundUp(n, unit) = q * unit /\ unit * q = q * unit
  BY <1>1 DEF RoundUp, q
<1> QED
  BY <1>1, <1>2

LEMMA ExactQuotient ==
  ASSUME NEW a \in Int, NEW b \in Nat \ {0}, a % b = 0
  PROVE  a \div b \in Int /\ a = b * (a \div b)
  OBVIOUS

LEMMA QuotientOfMultiple ==
  ASSUME NEW b \in Nat \ {0}, NEW k \in Int
  PROVE  (b * k) \div b = k
<1> DEFINE a == b * k
<1>1. a \in Int /\ b * k <= a /\ a < b * (k + 1) /\ k + 1 \in Int
  OBVIOUS
<1> HIDE DEF a
<1>2. a \div b \in Int /\ k <= a \div b /\ a \div b < k + 1
  BY <1>1, DivIn
<1> QED
  BY <1>2 DEF a

-----------------------------------------------------------------------------
(* Rounding *)

LEMMA Numbers ==
  /\ kPageSize \in Nat \ {0} /\ kPageShift \in Nat \ {0} /\ kSpanHeadSize \in Nat \ {0}
  /\ kSpanMaxSize \in Nat \ {0} /\ kThreadCacheMaxSize \in Nat \ {0}
  /\ kMinSize \in Nat \ {0} /\ kSmallAlign \in Nat \ {0} /\ kAlign \in Nat \ {0}
  /\ kFetchPages \in Nat \ {0} /\ kFetchBlocks \in Nat \ {0}
  /\ kCentralCacheMaxSize \in Int /\ kThreadCacheMaxSize < kCentralCacheMaxSize
  /\ kSmallAlign <= kMinSize /\ kMinSize <= kAlign
<1>1. kPageSize \in Int /\ kSpanMaxSize \in Int /\ kSpanHeadSize \in Int
  BY SizesAssumption DEF SizesAssumption
<1>2. kCentralCacheMaxSize \in Int
  BY <1>1 DEF kCentralCacheMaxSize
<1> QED
  BY <1>2, SizesAssumption DEF SizesAssumption

\* The sizes of the blocks: multiples of the alignment of their class.
IsBlockSize(b) ==
    /\ b \in Int /\ b >= kMinSize
    /\ b < kAlign => \E k \in Int : b = kSmallAlign * k
    /\ b >= kAlign => \E k \in Int : k >= 1 /\ b = kAlign * k

\* RoundUp is the least multiple that is not below.
LEMMA RoundUpMultiple ==
  ASSUME NEW n \in Int, NEW unit \in Nat \ {0}
  PROVE  \E k \in Int : RoundUp(n, unit) = unit * k
<1>1. (n + unit - 1) \div unit \in Int
  BY DivBounds
<1>2. RoundUp(n, unit) = unit * ((n + unit - 1) \div unit)
  BY <1>1 DEF RoundUp
<1> QED
  BY <1>1, <1>2

LEMMA RoundUpLeast ==
  ASSUME NEW n \in Int, NEW unit \in Nat \ {0}, NEW k \in Int, n <= unit * k
  PROVE  RoundUp(n, unit) <= unit * k
<1> DEFINE q == (n + unit - 1) \div unit
<1>1. q \in Int /\ unit * q <= n + unit - 1
  BY DivBounds
<1>2. RoundUp(n, unit) = q * unit
  BY DEF RoundUp
<1> HIDE DEF q
<1>3. q * unit = unit * q /\ unit * k \in Int
  BY <1>1
<1>4. q <= k
  <2> SUFFICES ASSUME k < q PROVE FALSE
    BY <1>1
  <2>1. unit * k + unit <= unit * q
    BY <1>1, NextMultiple
  <2> QED
    BY <1>1, <1>3, <2>1
<1>5. unit * q <= unit * k
  BY <1>1, <1>4, MultipleMonotone
<1> QED
  BY <1>2, <1>3, <1>5

\* The alignments and the smallest size are block sizes themselves.
LEMMA Multiples ==
  /\ \E k \in Int : k >= 1 /\ kAlign = kSmallAlign * k
  /\ \E k \in Int : kMinSize = kSmallAlign * k
  /\ \E k \in Int : k >= 1 /\ kThreadCacheMaxSize = kAlign * k
  /\ \E k \in Int : k >= 1 /\ kCentralCacheMaxSize = kAlign * k
<1>1. ASSUME NEW a \in Int, NEW b \in Nat \ {0}, a % b = 0
      PROVE  \E k \in Int : a = b * k /\ (a > 0 => k >= 1)
  <2>1. a \div b \in Int /\ a = b * (a \div b)
    BY <1>1, ExactQuotient
  <2> DEFINE k == a \div b
  <2> HIDE DEF k
  <2>2. a > 0 => k >= 1
    <3> SUFFICES ASSUME a > 0, k <= 0 PROVE FALSE
      BY <2>1 DEF k
    <3>1. b * k <= b * 0
      BY <2>1, MultipleMonotone DEF k
    <3> QED
      BY <2>1, <3>1 DEF k
  <2> QED
    BY <2>1, <2>2 DEF k
<1>2. kAlign > 0 /\ kThreadCacheMaxSize > 0 /\ kCentralCacheMaxSize > 0
      /\ kAlign \in Int /\ kThreadCacheMaxSize \in Int /\ kCentralCacheMaxSize \in Int
      /\ kMinSize \in Int /\ kSmallAlign \in Nat \ {0} /\ kAlign \in Nat \ {0}
  BY Numbers
<1>3. kMinSize % kSmallAlign = 0 /\ kAlign % kSmallAlign = 0
      /\ kThreadCacheMaxSize % kAlign = 0 /\ kCentralCacheMaxSize % kAlign = 0
  BY SizesAssumption DEF SizesAssumption
<1>4. \E k \in Int : k >= 1 /\ kAlign = kSmallAlign * k
  BY <1>1, <1>2, <1>3
<1>5. \E k \in Int : kMinSize = kSmallAlign * k
  BY <1>1, <1>2, <1>3
<1>6. \E k \in Int : k >= 1 /\ kThreadCacheMaxSize = kAlign * k
  BY <1>1, <1>2, <1>3
<1>7. \E k \in Int : k >= 1 /\ kCentralCacheMaxSize = kAlign * k
  BY <1>1, <1>2, <1>3
<1> QED
  BY <1>4, <1>5, <1>6, <1>7

\* A multiple of kAlign is the size of a block.
LEMMA LargeMultiple ==
  ASSUME NEW k \in Int, k >= 1
  PROVE  kAlign * k \in Int /\ kAlign * k >= kAlign /\ IsBlockSize(kAlign * k)
<1>1. kAlign * 1 <= kAlign * k /\ kAlign * 1 = kAlign /\ kAlign * k \in Int
  BY Numbers, MultipleMonotone
<1> HIDE DEF IsBlockSize
<1>2. kAlign * k >= kMinSize /\ kAlign * k >= kAlign
  BY <1>1, Numbers
<1>3. ~ kAlign * k < kAlign
  BY <1>1, Numbers
<1> QED
  BY <1>1, <1>2, <1>3 DEF IsBlockSize

\* What CeilMemSize returns: the least block size that is not below.
LEMMA CeilIsBlockSize ==
  ASSUME NEW n \in Int
  PROVE  /\ IsBlockSize(CeilMemSize(n)) /\ CeilMemSize(n) >= n
         /\ n < kAlign => CeilMemSize(n) <= kAlign
<1> DEFINE a == kSmallAlign
           A == kAlign
           m == kMinSize
           c == CeilMemSize(n)
<1>1. a \in Nat \ {0} /\ A \in Nat \ {0} /\ m \in Nat \ {0} /\ m <= A
  BY Numbers
<1>2. PICK k \in Int : k >= 1 /\ A = a * k
  BY Multiples
<1>3. IsBlockSize(A)
  <2>1. A * 1 = A /\ IsBlockSize(A * 1)
    BY <1>1, LargeMultiple
  <2> QED
    BY <2>1
<1>4. CASE n < m
  <2>1. c = m
    BY <1>4 DEF CeilMemSize
  <2>2. IsBlockSize(m)
    <3>1. CASE m < A
      BY <1>1, <3>1, Multiples DEF IsBlockSize
    <3>2. CASE m = A
      BY <1>3, <3>2
    <3> QED
      BY <1>1, <3>1, <3>2
  <2> QED
    BY <1>1, <1>4, <2>1, <2>2
<1>5. CASE m <= n /\ n < A
  <2>1. c = RoundUp(n, a)
    BY <1>1, <1>5 DEF CeilMemSize
  <2>2. RoundUp(n, a) \in Int /\ RoundUp(n, a) >= n
    BY <1>1, RoundUpAtLeast
  <2>3. \E j \in Int : RoundUp(n, a) = a * j
    BY <1>1, RoundUpMultiple
  <2>4. RoundUp(n, a) <= a * k
    BY <1>1, <1>2, <1>5, RoundUpLeast
  <2> HIDE DEF c
  <2>5. c \in Int /\ c >= n /\ c <= A
    BY <1>2, <2>1, <2>2, <2>4
  <2>6. CASE c = A
    BY <1>1, <1>3, <1>5, <2>5, <2>6 DEF c
  <2>7. CASE c < A
    <3>1. c >= m /\ ~ c >= A
      BY <1>1, <1>5, <2>5, <2>7
    <3>2. IsBlockSize(c)
      BY <2>1, <2>3, <2>5, <2>7, <3>1 DEF IsBlockSize
    <3> QED
      BY <1>1, <2>5, <3>2 DEF c
  <2> QED
    BY <1>1, <2>5, <2>6, <2>7
<1>6. CASE A <= n
  <2>1. c = RoundUp(n, A)
    BY <1>1, <1>6 DEF CeilMemSize
  <2>2. RoundUp(n, A) \in Int /\ RoundUp(n, A) >= n
    BY <1>1, RoundUpAtLeast
  <2>3. PICK j \in Int : RoundUp(n, A) = A * j
    BY <1>1, RoundUpMultiple
  <2> HIDE DEF c
  <2>4. j >= 1
    <3> SUFFICES ASSUME j <= 0 PROVE FALSE
      OBVIOUS
    <3>1. A * j <= A * 0
      BY <1>1, MultipleMonotone
    <3> QED
      BY <1>1, <1>6, <2>2, <2>3, <3>1
  <2>5. IsBlockSize(c)
    BY <2>1, <2>3, <2>4, LargeMultiple
  <2> QED
    BY <1>1, <1>6, <2>1, <2>2, <2>5 DEF c
<1> QED
  BY <1>1, <1>4, <1>5, <1>6

LEMMA CeilLeast ==
  ASSUME NEW n \in Int, NEW b, IsBlockSize(b), n <= b
  PROVE  CeilMemSize(n) <= b
<1>1. b \in Int /\ b >= kMinSize
  BY DEF IsBlockSize
<1>2. CeilMemSize(n) \in Int
  BY CeilIsBlockSize DEF IsBlockSize
<1>3. CASE n < kMinSize
  BY <1>1, <1>3 DEF CeilMemSize
<1>4. CASE n >= kMinSize /\ n < kAlign /\ b < kAlign
  <2>1. PICK k \in Int : b = kSmallAlign * k
    BY <1>4 DEF IsBlockSize
  <2>2. CeilMemSize(n) = RoundUp(n, kSmallAlign)
    BY <1>4, Numbers DEF CeilMemSize
  <2> QED
    BY <2>1, <2>2, Numbers, RoundUpLeast
<1>5. CASE n < kAlign /\ b >= kAlign
  BY <1>1, <1>2, <1>5, Numbers, CeilIsBlockSize
<1>6. CASE n >= kAlign
  <2>1. b >= kAlign
    BY <1>1, <1>6, Numbers
  <2>2. PICK k \in Int : b = kAlign * k
    BY <2>1 DEF IsBlockSize
  <2>3. CeilMemSize(n) = RoundUp(n, kAlign)
    BY <1>6, Numbers DEF CeilMemSize
  <2> QED
    BY <2>2, <2>3, Numbers, RoundUpLeast
<1> QED
  BY <1>1, <1>3, <1>4, <1>5, <1>6, Numbers

LEMMA CeilFixed ==
  ASSUME NEW b, IsBlockSize(b)
  PROVE  CeilMemSize(b) = b
<1>1. b \in Int
  BY DEF IsBlockSize
<1>2. CeilMemSize(b) \in Int /\ CeilMemSize(b) >= b /\ CeilMemSize(b) <= b
  BY <1>1, CeilIsBlockSize, CeilLeast DEF IsBlockSize
<1> QED
  BY <1>1, <1>2

LEMMA CeilMonotone ==
  ASSUME NEW n \in Int, NEW m \in Int, n <= m
  PROVE  CeilMemSize(n) <= CeilMemSize(m)
<1>1. IsBlockSize(CeilMemSize(m)) /\ CeilMemSize(m) >= m /\ CeilMemSize(m) \in Int
  BY CeilIsBlockSize DEF IsBlockSize
<1> QED
  BY <1>1, CeilLeast

-----------------------------------------------------------------------------
(* Slots *)

\* A longer block has a later slot.
LEMMA SlotMonotone ==
  ASSUME NEW b, NEW c, IsBlockSize(b), IsBlockSize(c), b < c
  PROVE  /\ Size2Slot(b) \in Int /\ Size2Slot(c) \in Int
         /\ Size2Slot(b) < Size2Slot(c)
<1> DEFINE a == kSmallAlign
           A == kAlign
           d == (A - a) \div a
<1>1. a \in Nat \ {0} /\ A \in Nat \ {0} /\ b \in Int /\ c \in Int
  BY Numbers DEF IsBlockSize
<1>2. PICK k \in Int : k >= 1 /\ A = a * k
  BY Multiples
<1>3. d = k - 1
  <2>1. A - a = a * (k - 1) /\ k - 1 \in Int
    BY <1>1, <1>2
  <2> QED
    BY <1>1, <2>1, QuotientOfMultiple
<1>4. ASSUME NEW n, IsBlockSize(n), n < A
      PROVE  \E i \in Int : n = a * i /\ Size2Slot(n) = i /\ i < k
  <2>1. PICK i \in Int : n = a * i
    BY <1>4 DEF IsBlockSize
  <2>2. Size2Slot(n) = i
    BY <1>1, <1>4, <2>1, QuotientOfMultiple DEF Size2Slot
  <2>3. i < k
    <3> SUFFICES ASSUME k <= i PROVE FALSE
      BY <1>2
    <3>1. a * k <= a * i
      BY <1>1, <1>2, MultipleMonotone
    <3>2. n \in Int
      BY <1>4 DEF IsBlockSize
    <3> HIDE DEF a, A
    <3> QED
      BY <1>1, <1>2, <1>4, <2>1, <3>1, <3>2
  <2> QED
    BY <2>1, <2>2, <2>3
<1>5. ASSUME NEW n, IsBlockSize(n), n >= A
      PROVE  \E i \in Int : i >= 1 /\ n = A * i /\ Size2Slot(n) = i + (k - 1)
  <2>1. PICK i \in Int : i >= 1 /\ n = A * i
    BY <1>5 DEF IsBlockSize
  <2>2. n \div A = i
    BY <1>1, <2>1, QuotientOfMultiple
  <2>3. ~ n < A
    BY <1>1, <1>5, <2>1
  <2>4. Size2Slot(n) = i + d
    BY <2>2, <2>3 DEF Size2Slot
  <2> QED
    BY <1>3, <2>1, <2>4
<1>6. ASSUME NEW u \in Nat \ {0}, NEW i \in Int, NEW j \in Int, u * i < u * j
      PROVE  i < j
  <2> SUFFICES ASSUME j <= i PROVE FALSE
    OBVIOUS
  <2>1. u * j <= u * i
    BY <1>6, MultipleMonotone
  <2>2. u * j \in Int /\ u * i \in Int
    BY <1>6
  <2> QED
    BY <1>6, <2>1, <2>2
<1> HIDE DEF a, A, d
<1>7. CASE c < A
  <2>1. PICK i \in Int : b = a * i /\ Size2Slot(b) = i /\ i < k
    BY <1>1, <1>4, <1>7
  <2>2. PICK j \in Int : c = a * j /\ Size2Slot(c) = j /\ j < k
    BY <1>4, <1>7
  <2> QED
    BY <1>1, <1>6, <2>1, <2>2
<1>8. CASE b < A /\ A <= c
  <2>1. PICK i \in Int : b = a * i /\ Size2Slot(b) = i /\ i < k
    BY <1>4, <1>8
  <2>2. PICK j \in Int : j >= 1 /\ c = A * j /\ Size2Slot(c) = j + (k - 1)
    BY <1>1, <1>5, <1>8
  <2> QED
    BY <1>2, <2>1, <2>2
<1>9. CASE A <= b
  <2>1. PICK i \in Int : i >= 1 /\ b = A * i /\ Size2Slot(b) = i + (k - 1)
    BY <1>1, <1>5, <1>9
  <2>2. c >= A
    BY <1>1, <1>9
  <2>3. PICK j \in Int : j >= 1 /\ c = A * j /\ Size2Slot(c) = j + (k - 1)
    BY <1>5, <2>2
  <2>4. i < j
    BY <1>1, <1>6, <2>1, <2>3
  <2> QED
    BY <1>2, <2>1, <2>3, <2>4
<1> QED
  BY <1>1, <1>7, <1>8, <1>9

\* As many slots as an array has that is made for blocks up to kAlign * m.
LEMMA SlotInArray ==
  ASSUME NEW b, IsBlockSize(b), NEW m \in Int, m >= 1, b <= kAlign * m
  PROVE  /\ Size2Slot(b) \in Nat
         /\ Size2Slot(b) <= (kAlign * m) \div kAlign + kAlign \div kSmallAlign - 1
<1> DEFINE a == kSmallAlign
           A == kAlign
           top == A * m
<1>1. a \in Nat \ {0} /\ A \in Nat \ {0} /\ b \in Int /\ kMinSize \in Nat \ {0}
      /\ b >= kMinSize
  BY Numbers DEF IsBlockSize
<1>2. PICK k \in Int : k >= 1 /\ A = a * k
  BY Multiples
<1>3. A \div a = k /\ (A - a) \div a = k - 1
  <2>1. A - a = a * (k - 1) /\ k - 1 \in Int
    BY <1>1, <1>2
  <2> QED
    BY <1>1, <1>2, <2>1, QuotientOfMultiple
<1>4. top \div A = m /\ ~ top < A /\ top \in Int
  BY <1>1, LargeMultiple, QuotientOfMultiple
<1>5. IsBlockSize(top)
  BY LargeMultiple
<1>6. Size2Slot(top) = m + (k - 1)
  BY <1>3, <1>4 DEF Size2Slot
<1>7. Size2Slot(b) \in Int /\ Size2Slot(b) <= m + (k - 1)
  <2> HIDE DEF top
  <2>1. CASE b = top
    BY <1>2, <1>6, <2>1
  <2>2. CASE b < top
    BY <1>2, <1>5, <1>6, <2>2, SlotMonotone
  <2> QED
    BY <1>1, <1>4, <2>1, <2>2 DEF top
<1>8. Size2Slot(b) >= 0
  <2>1. CASE b < A
    <3>1. b \div a \in Int /\ 0 <= b \div a
      <4>1. a * 0 <= b
        BY <1>1
      <4>2. b < a * (b + 1)
        <5>1. 1 * (b + 1) <= a * (b + 1)
          <6>1. (b + 1) * 1 <= (b + 1) * a /\ b + 1 \in Nat
            BY <1>1, MultipleMonotone
          <6> QED
            BY <1>1, <6>1
        <5> QED
          BY <1>1, <5>1
      <4> QED
        BY <1>1, <4>1, <4>2, DivIn
    <3> QED
      BY <2>1, <3>1 DEF Size2Slot
  <2>2. CASE A <= b
    <3>1. PICK i \in Int : i >= 1 /\ b = A * i
      BY <2>2 DEF IsBlockSize
    <3>2. b \div A = i /\ ~ b < A
      BY <1>1, <2>2, <3>1, QuotientOfMultiple
    <3>3. Size2Slot(b) = i + (k - 1)
      BY <1>3, <3>2 DEF Size2Slot
    <3> QED
      BY <1>2, <3>1, <3>3
  <2> QED
    BY <1>1, <2>1, <2>2
<1> QED
  BY <1>2, <1>3, <1>4, <1>7, <1>8

-----------------------------------------------------------------------------
(* Pages *)

\* The pages a quotient of CentralPages or ThreadPages stands for.
LEMMA PagesCover ==
  ASSUME NEW n \in Int, NEW k \in Int
  PROVE  LET q == (n + kPageSize - 1) \div kPageSize
         IN  /\ q \in Int /\ n <= q * kPageSize /\ q * kPageSize <= n + kPageSize - 1
             /\ n <= kPageSize * k => q <= k
             /\ n > kPageSize * k => q > k
<1> DEFINE P == kPageSize
           q == (n + P - 1) \div P
<1>1. P \in Nat \ {0}
  BY Numbers
<1>2. q \in Int /\ P * q <= n + P - 1 /\ n + P - 1 < P * q + P
  BY <1>1, DivBounds
<1> HIDE DEF P, q
<1>3. P * q \in Int /\ P * q = q * P /\ P * k \in Int
  BY <1>1, <1>2
<1>4. ASSUME n <= P * k PROVE q <= k
  <2> SUFFICES ASSUME k < q PROVE FALSE
    BY <1>2
  <2>1. P * k + P <= P * q
    BY <1>1, <1>2, NextMultiple
  <2> QED
    BY <1>1, <1>2, <1>3, <1>4, <2>1
<1>5. ASSUME n > P * k PROVE q > k
  <2> SUFFICES ASSUME q <= k PROVE FALSE
    BY <1>2
  <2>1. P * q <= P * k
    BY <1>1, <1>2, MultipleMonotone
  <2> QED
    BY <1>1, <1>2, <1>3, <1>5, <2>1
<1>6. q \in Int /\ n <= q * P /\ q * P <= n + P - 1
  BY <1>1, <1>2, <1>3
<1> QED
  BY <1>4, <1>5, <1>6 DEF P, q
=============================================================================
