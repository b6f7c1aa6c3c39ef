--------------------------- MODULE PageCacheProofs ---------------------------
(***************************************************************************)
(* Proofs about PageCache, for any number of threads, pages and lists:     *)
(* what the variables and the locals of a call are (TypeInv); who holds    *)
(* which mutex, where the spans are and which pages they have (IInv); that *)
(* the page cache implements SpanPool.                                     *)
(*                                                                         *)
(* IInv is one inductive invariant, because each part needs the others: a  *)
(* mutex is given back under the length in the call, which is the span's   *)
(* only while no other call unmaps it; a new span is new because the       *)
(* spans' pages are mapped; and an entry of the radix tree stays because   *)
(* spans do not overlap.                                                   *)
(***************************************************************************)
EXTENDS PageCache, FiniteSetTheorems, TLAPS

CallRecord == [at : CallLabels, page_num : Nat, span : Page \cup {null}, i : Nat]

\* A call is under way and has not got to its end.
Working(t) == call[t].at \notin {"idle", "distributed", "taken back"}

\* What the locals of a call are at its label.
LocalsTyped(t) ==
    /\ Working(t) => call[t].page_num \in Lists
    /\ Moving(t) => call[t].span \in Page

\* The variables other than call; the length of a span is that of a list.
SharedTyped ==
    /\ pc_span_lists_ \in [Lists -> SUBSET Page]
    /\ list_latch \in [Lists -> Thread \cup {nobody}]
    /\ latch_ \in Thread \cup {nobody}
    /\ radix_tree_ \in [Page -> Page \cup {null}]
    /\ page_num_ \in [Page -> Lists]
    /\ mapped \in SUBSET Page
    /\ foreign \in SUBSET Page
    /\ lent \in SUBSET Page

TypeInv ==
    /\ SharedTyped
    /\ call \in [Thread -> CallRecord]
    /\ \A t \in Thread : LocalsTyped(t)

-----------------------------------------------------------------------------
(* The steps of PCNext without the bounds of the model, which no proof needs:  *)
(* the page cache makes these steps in the whole allocator too.                *)

OthersMap ==
    /\ foreign' \in SUBSET (Page \ mapped)
    /\ UNCHANGED <<pc_span_lists_, list_latch, latch_, radix_tree_, page_num_,
                   mapped, lent, call>>

AnyStep ==
    \/ OthersMap
    \/ \E t \in Thread :
         \/ \E n \in PageNums : DistributeSpan(t, n)
         \/ \E s \in lent : TakeBackSpan(t, s)
         \/ Inside(t)
         \/ Return(t)

LEMMA NextIsAnyStep == [PCNext]_pageCacheVars => [AnyStep]_pageCacheVars
<1>1. ForeignStep => OthersMap
  BY DEF ForeignStep, OthersMap
<1>2. QED
  BY <1>1 DEF PCNext, PCStep, StayKilled, AnyStep

-----------------------------------------------------------------------------
(* How the steps change call *)

OthersStay(t) == \A u \in Thread \ {t} : call'[u] = call[u]

\* GoTo changes the label of one call and nothing else.
LEMMA GoToStep ==
  ASSUME call \in [Thread -> CallRecord], NEW t \in Thread,
         NEW label \in CallLabels, GoTo(t, label)
  PROVE  /\ call' \in [Thread -> CallRecord]
         /\ call'[t].at = label
         /\ call'[t].page_num = call[t].page_num
         /\ call'[t].span = call[t].span
         /\ call'[t].i = call[t].i
         /\ OthersStay(t)
  BY DEF GoTo, CallRecord, OthersStay

\* A label and a span are changed by TakeSpan and MapSpan.
LEMMA NewSpanStep ==
  ASSUME call \in [Thread -> CallRecord], NEW t \in Thread,
         NEW label \in CallLabels, NEW s \in Page, NEW i \in Nat,
         call' = [call EXCEPT ![t].at = label, ![t].span = s, ![t].i = i]
  PROVE  /\ call' \in [Thread -> CallRecord]
         /\ call'[t].at = label
         /\ call'[t].page_num = call[t].page_num
         /\ call'[t].span = s
         /\ call'[t].i = i
         /\ OthersStay(t)
  BY DEF CallRecord, OthersStay

LEMMA TakeSpanStep ==
  ASSUME call \in [Thread -> CallRecord], NEW t \in Thread, NEW s \in Page,
         call' = [call EXCEPT ![t].at = "distributed", ![t].span = s]
  PROVE  /\ call' \in [Thread -> CallRecord]
         /\ call'[t].at = "distributed"
         /\ call'[t].page_num = call[t].page_num
         /\ call'[t].span = s
         /\ OthersStay(t)
  BY DEF CallRecord, OthersStay, CallLabels

\* Register counts the pages.
LEMMA RegisterStep ==
  ASSUME call \in [Thread -> CallRecord], NEW t \in Thread, Register(t)
  PROVE  /\ call' \in [Thread -> CallRecord]
         /\ call[t].at = "register"
         /\ call'[t].at = IF call[t].i + 1 = call[t].page_num
                            THEN "distributed" ELSE "register"
         /\ call'[t].page_num = call[t].page_num
         /\ call'[t].span = call[t].span
         /\ call'[t].i = call[t].i + 1
         /\ OthersStay(t)
<1> DEFINE label == IF call[t].i + 1 = call[t].page_num
                      THEN "distributed" ELSE "register"
           i == call[t].i + 1
<1>1. /\ call[t].at = "register"
      /\ call' = [call EXCEPT ![t].i = i, ![t].at = label]
  BY DEF Register, At
<1>2. label \in CallLabels
  BY DEF CallLabels
<1>3. call[t].at \in CallLabels /\ call[t].page_num \in Nat /\ call[t].i \in Nat
      /\ call[t].span \in Page \cup {null} /\ i \in Nat
  BY DEF CallRecord
<1> HIDE DEF label, i
<1>4. /\ call' \in [Thread -> CallRecord]
      /\ call'[t] = [call[t] EXCEPT !.i = i, !.at = label]
      /\ OthersStay(t)
  BY <1>1, <1>2, <1>3 DEF CallRecord, OthersStay
<1>5. /\ call'[t].at = label /\ call'[t].i = i
      /\ call'[t].page_num = call[t].page_num /\ call'[t].span = call[t].span
  BY <1>3, <1>4 DEF CallRecord
<1>6. QED
  BY <1>1, <1>4, <1>5 DEF label, i

\* A call begins or ends.
LEMMA NewCallStep ==
  ASSUME call \in [Thread -> CallRecord], NEW t \in Thread,
         NEW label \in CallLabels, NEW n \in Nat, NEW s \in Page \cup {null},
         call' = [call EXCEPT ![t] = NewCall(label, n, s)]
  PROVE  /\ call' \in [Thread -> CallRecord]
         /\ call'[t].at = label
         /\ call'[t].page_num = n
         /\ call'[t].span = s
         /\ call'[t].i = 0
         /\ OthersStay(t)
  BY DEF NewCall, CallRecord, OthersStay

\* The locals of the other threads stay typed.
LEMMA OthersTyped ==
  ASSUME TypeInv, NEW t \in Thread, OthersStay(t), LocalsTyped(t)'
  PROVE  \A u \in Thread : LocalsTyped(u)'
  BY DEF TypeInv, OthersStay, LocalsTyped, Working, Moving

-----------------------------------------------------------------------------
(* The type invariant *)

LEMMA TypeInvInit == PCInit => TypeInv
<1> SUFFICES ASSUME PCInit PROVE TypeInv
  OBVIOUS
<1>1. SharedTyped
  BY PageCacheAssumption DEF PCInit, SharedTyped, Lists, PageCacheAssumption
<1>2. Idle \in CallRecord
  BY DEF Idle, NewCall, CallRecord, CallLabels
<1>3. call \in [Thread -> CallRecord]
  BY <1>2 DEF PCInit
<1>4. \A t \in Thread : call[t].at = "idle"
  BY DEF PCInit, Idle, NewCall
<1>5. QED
  BY <1>1, <1>3, <1>4
     DEF TypeInv, LocalsTyped, Working, Moving

LEMMA TypeInvStep == TypeInv /\ [AnyStep]_pageCacheVars => TypeInv'
<1> SUFFICES ASSUME TypeInv, [AnyStep]_pageCacheVars PROVE TypeInv'
  OBVIOUS
<1> USE DEF TypeInv
<1>1. ASSUME NEW t \in Thread, NEW n \in PageNums, DistributeSpan(t, n) PROVE TypeInv'
  <2> DEFINE label == IF n > kPCSpanListNum THEN "distributed" ELSE "lock list"
  <2>1. call' = [call EXCEPT ![t] = NewCall(label, n, null)]
    BY <1>1 DEF DistributeSpan
  <2>2. n \in Nat /\ label \in CallLabels /\ (label = "lock list" => n \in Lists)
    BY PageCacheAssumption DEF PageCacheAssumption, CallLabels, Lists
  <2>3. /\ call' \in [Thread -> CallRecord] /\ OthersStay(t)
        /\ call'[t].at = label /\ call'[t].page_num = n
    BY <2>1, <2>2, NewCallStep
  <2>4. LocalsTyped(t)'
    BY <2>2, <2>3 DEF LocalsTyped, Working, Moving
  <2>5. SharedTyped'
    BY <1>1 DEF DistributeSpan, SharedTyped
  <2>6. QED
    BY <2>3, <2>4, <2>5, OthersTyped
<1>2. ASSUME NEW t \in Thread, NEW s \in lent, TakeBackSpan(t, s) PROVE TypeInv'
  <2> DEFINE n == page_num_[s]
             label == "lock list to take back"
  <2>1. /\ s \in Page /\ s \in Page \cup {null} /\ n \in Lists /\ n \in Nat
        /\ label \in CallLabels
    BY PageCacheAssumption
       DEF SharedTyped, PageCacheAssumption, Lists, CallLabels
  <2>2. call' = [call EXCEPT ![t] = NewCall(label, n, s)]
    BY <1>2 DEF TakeBackSpan
  <2> HIDE DEF n
  <2>3. /\ call' \in [Thread -> CallRecord] /\ OthersStay(t)
        /\ call'[t].at = label /\ call'[t].span = s /\ call'[t].page_num = n
    BY <2>1, <2>2, NewCallStep
  <2>4. LocalsTyped(t)'
    BY <2>1, <2>3 DEF LocalsTyped, Working, Moving
  <2>5. SharedTyped'
    BY <1>2 DEF TakeBackSpan, SharedTyped
  <2>6. QED
    BY <2>3, <2>4, <2>5, OthersTyped
<1>3. ASSUME NEW t \in Thread, LockListToDistribute(t) PROVE TypeInv'
  <2>1. call' \in [Thread -> CallRecord] /\ OthersStay(t)
        /\ call[t].at = "lock list" /\ call'[t].at = "take span"
        /\ call'[t].page_num = call[t].page_num
    BY <1>3, GoToStep DEF LockListToDistribute, At, CallLabels
  <2>2. LocalsTyped(t)'
    BY <2>1 DEF LocalsTyped, Working, Moving
  <2>3. SharedTyped'
    BY <1>3 DEF LockListToDistribute, SharedTyped, LockList
  <2>4. QED
    BY <2>1, <2>2, <2>3, OthersTyped
<1>4. ASSUME NEW t \in Thread, ListIsEmpty(t) PROVE TypeInv'
  <2>1. call' \in [Thread -> CallRecord] /\ OthersStay(t)
        /\ call[t].at = "take span" /\ call'[t].at = "lock to map"
        /\ call'[t].page_num = call[t].page_num
    BY <1>4, GoToStep DEF ListIsEmpty, At, CallLabels
  <2>2. LocalsTyped(t)'
    BY <2>1 DEF LocalsTyped, Working, Moving
  <2>3. SharedTyped'
    BY <1>4 DEF ListIsEmpty, SharedTyped, UnlockList
  <2>4. QED
    BY <2>1, <2>2, <2>3, OthersTyped
<1>5. ASSUME NEW t \in Thread, TakeSpan(t) PROVE TypeInv'
  <2>1. PICK s \in pc_span_lists_[call[t].page_num] :
          /\ RemoveFromList(call[t].page_num, s)
          /\ lent' = lent \cup {s}
          /\ call' = [call EXCEPT ![t].at = "distributed", ![t].span = s]
    BY <1>5 DEF TakeSpan
  <2>2. call[t].at = "take span" /\ call[t].page_num \in Lists
    BY <1>5 DEF TakeSpan, At, LocalsTyped, Working
  <2>3. s \in Page
    BY <2>2 DEF SharedTyped
  <2>4. /\ call' \in [Thread -> CallRecord] /\ OthersStay(t)
        /\ call'[t].at = "distributed"
    BY <2>1, <2>3, TakeSpanStep
  <2>5. LocalsTyped(t)'
    BY <2>4 DEF LocalsTyped, Working, Moving
  <2>6. SharedTyped'
    BY <1>5, <2>1, <2>2, <2>3 DEF TakeSpan, SharedTyped, UnlockList, RemoveFromList
  <2>7. QED
    BY <2>4, <2>5, <2>6, OthersTyped
<1>6. ASSUME NEW t \in Thread, LockToMap(t) PROVE TypeInv'
  <2>1. call' \in [Thread -> CallRecord] /\ OthersStay(t)
        /\ call[t].at = "lock to map" /\ call'[t].at = "map"
        /\ call'[t].page_num = call[t].page_num
    BY <1>6, GoToStep DEF LockToMap, At, CallLabels
  <2>2. LocalsTyped(t)'
    BY <2>1 DEF LocalsTyped, Working, Moving
  <2>3. SharedTyped'
    BY <1>6 DEF LockToMap, SharedTyped
  <2>4. QED
    BY <2>1, <2>2, <2>3, OthersTyped
<1>7. ASSUME NEW t \in Thread, MapSpan(t) PROVE TypeInv'
  <2> DEFINE n == call[t].page_num
  <2>1. call[t].at = "map" /\ n \in Lists
    BY <1>7 DEF MapSpan, At, LocalsTyped, Working
  <2>2. PICK s \in MapPlaces(n) :
          /\ Map(s, n)
          /\ page_num_' = [page_num_ EXCEPT ![s] = n]
          /\ call' = [call EXCEPT ![t].at = "register", ![t].span = s, ![t].i = 0]
    BY <1>7 DEF MapSpan
  <2>3. s \in Page /\ PagesFrom(s, n) \subseteq Page
    BY DEF MapPlaces
  <2>4. /\ call' \in [Thread -> CallRecord] /\ OthersStay(t)
        /\ call'[t].at = "register" /\ call'[t].span = s
        /\ call'[t].page_num = n
    BY <2>2, <2>3, NewSpanStep DEF CallLabels
  <2>5. LocalsTyped(t)'
    BY <2>1, <2>3, <2>4 DEF LocalsTyped, Working, Moving
  <2>6. SharedTyped'
    BY <1>7, <2>1, <2>2, <2>3 DEF MapSpan, SharedTyped, Map
  <2>7. QED
    BY <2>4, <2>5, <2>6, OthersTyped
<1>8. ASSUME NEW t \in Thread, MapFails(t) PROVE TypeInv'
  <2>1. call' \in [Thread -> CallRecord] /\ OthersStay(t)
        /\ call[t].at = "map" /\ call'[t].at = "killed"
        /\ call'[t].page_num = call[t].page_num
    BY <1>8, GoToStep DEF MapFails, At, CallLabels
  <2>2. LocalsTyped(t)'
    BY <2>1 DEF LocalsTyped, Working, Moving
  <2>3. SharedTyped'
    BY <1>8 DEF MapFails, SharedTyped
  <2>4. QED
    BY <2>1, <2>2, <2>3, OthersTyped
<1>9. ASSUME NEW t \in Thread, Register(t) PROVE TypeInv'
  <2>1. /\ call' \in [Thread -> CallRecord] /\ OthersStay(t)
        /\ call[t].at = "register" /\ call'[t].at \in {"distributed", "register"}
        /\ call'[t].page_num = call[t].page_num /\ call'[t].span = call[t].span
    BY <1>9, RegisterStep
  <2>2. call[t].span \in Page /\ call[t].page_num \in Lists
    BY <2>1 DEF LocalsTyped, Working, Moving
  <2>3. LocalsTyped(t)'
    BY <2>1, <2>2 DEF LocalsTyped, Working, Moving
  <2>4. SharedTyped'
    BY <1>9, <2>2 DEF Register, SharedTyped, Insert
  <2>5. QED
    BY <2>1, <2>3, <2>4, OthersTyped
<1>10. ASSUME NEW t \in Thread, LockListToTakeBack(t) PROVE TypeInv'
  <2>1. call' \in [Thread -> CallRecord] /\ OthersStay(t)
        /\ call[t].at = "lock list to take back" /\ call'[t].at = "put back"
        /\ call'[t].page_num = call[t].page_num /\ call'[t].span = call[t].span
    BY <1>10, GoToStep DEF LockListToTakeBack, At, CallLabels
  <2>2. call[t].span \in Page /\ call[t].page_num \in Lists
    BY <2>1 DEF LocalsTyped, Working, Moving
  <2>3. LocalsTyped(t)'
    BY <2>1, <2>2 DEF LocalsTyped, Working, Moving
  <2>4. SharedTyped'
    BY <1>10 DEF LockListToTakeBack, SharedTyped, LockList
  <2>5. QED
    BY <2>1, <2>3, <2>4, OthersTyped
<1>r. ASSUME NEW t \in Thread, ListHasRoom(t) PROVE TypeInv'
  <2>1. call' \in [Thread -> CallRecord] /\ OthersStay(t)
        /\ call[t].at = "put back" /\ call'[t].at = "push"
        /\ call'[t].page_num = call[t].page_num /\ call'[t].span = call[t].span
    BY <1>r, GoToStep DEF ListHasRoom, At, CallLabels
  <2>2. LocalsTyped(t)'
    BY <2>1 DEF LocalsTyped, Working, Moving
  <2>3. SharedTyped'
    BY <1>r DEF ListHasRoom, SharedTyped
  <2>4. QED
    BY <2>1, <2>2, <2>3, OthersTyped
<1>11. ASSUME NEW t \in Thread, PutBack(t) PROVE TypeInv'
  <2>1. call' \in [Thread -> CallRecord] /\ OthersStay(t)
        /\ call[t].at = "push" /\ call'[t].at = "unlock list"
        /\ call'[t].page_num = call[t].page_num
    BY <1>11, GoToStep DEF PutBack, At, CallLabels
  <2>2. call[t].span \in Page /\ page_num_[call[t].span] \in Lists
    BY <2>1 DEF LocalsTyped, Moving, SharedTyped
  <2>3. LocalsTyped(t)'
    BY <2>1 DEF LocalsTyped, Working, Moving
  <2>4. SharedTyped'
    BY <1>11, <2>2 DEF PutBack, SharedTyped
  <2>5. QED
    BY <2>1, <2>3, <2>4, OthersTyped
<1>12. ASSUME NEW t \in Thread, LockToUnmap(t) PROVE TypeInv'
  <2>1. call' \in [Thread -> CallRecord] /\ OthersStay(t)
        /\ call[t].at = "put back" /\ call'[t].at = "unmap"
        /\ call'[t].page_num = call[t].page_num /\ call'[t].span = call[t].span
    BY <1>12, GoToStep DEF LockToUnmap, At, CallLabels
  <2>2. LocalsTyped(t)'
    BY <2>1 DEF LocalsTyped, Working, Moving
  <2>3. SharedTyped'
    BY <1>12 DEF LockToUnmap, SharedTyped
  <2>4. QED
    BY <2>1, <2>2, <2>3, OthersTyped
<1>13. ASSUME NEW t \in Thread, UnmapSpan(t) PROVE TypeInv'
  <2>1. call' \in [Thread -> CallRecord] /\ OthersStay(t)
        /\ call[t].at = "unmap" /\ call'[t].at = "unlock list"
        /\ call'[t].page_num = call[t].page_num
    BY <1>13, GoToStep DEF UnmapSpan, At, CallLabels
  <2>2. LocalsTyped(t)'
    BY <2>1 DEF LocalsTyped, Working, Moving
  <2>3. 0 \in Lists
    BY PageCacheAssumption DEF PageCacheAssumption, Lists
  <2>4. SharedTyped'
    BY <1>13, <2>3 DEF UnmapSpan, SharedTyped, Unmap
  <2>5. QED
    BY <2>1, <2>2, <2>4, OthersTyped
<1>14. ASSUME NEW t \in Thread, EndTakeBack(t) PROVE TypeInv'
  <2>1. call' = [call EXCEPT ![t] = NewCall("taken back", 0, null)]
    BY <1>14 DEF EndTakeBack
  <2>2. call' \in [Thread -> CallRecord] /\ OthersStay(t) /\ call'[t].at = "taken back"
    BY <2>1, NewCallStep DEF CallLabels
  <2>3. LocalsTyped(t)'
    BY <2>2 DEF LocalsTyped, Working, Moving
  <2>4. SharedTyped'
    BY <1>14 DEF EndTakeBack, SharedTyped, UnlockList
  <2>5. QED
    BY <2>2, <2>3, <2>4, OthersTyped
<1>15. ASSUME NEW t \in Thread, Return(t) PROVE TypeInv'
  <2>1. call' = [call EXCEPT ![t] = NewCall("idle", 0, null)]
    BY <1>15 DEF Return, Idle
  <2>2. call' \in [Thread -> CallRecord] /\ OthersStay(t) /\ call'[t].at = "idle"
    BY <2>1, NewCallStep DEF CallLabels
  <2>3. LocalsTyped(t)'
    BY <2>2 DEF LocalsTyped, Working, Moving
  <2>4. SharedTyped'
    BY <1>15 DEF Return, SharedTyped
  <2>5. QED
    BY <2>2, <2>3, <2>4, OthersTyped
<1>16. ASSUME OthersMap PROVE TypeInv'
  <2>1. SharedTyped'
    BY <1>16 DEF OthersMap, SharedTyped
  <2>2. QED
    BY <1>16, <2>1 DEF OthersMap, LocalsTyped, Working, Moving
<1>17. ASSUME UNCHANGED pageCacheVars PROVE TypeInv'
  BY <1>17 DEF pageCacheVars, SharedTyped, LocalsTyped, Working, Moving
<1>18. QED
  BY <1>r, <1>1, <1>2, <1>3, <1>4, <1>5, <1>6, <1>7, <1>8, <1>9, <1>10, <1>11,
     <1>12, <1>13, <1>14, <1>15, <1>16, <1>17
     DEF AnyStep, Inside

LEMMA TypeInvImpliesPCTypeOK == TypeInv => PCTypeOK
<1>1. Lists \subseteq Nat
  BY PageCacheAssumption DEF PageCacheAssumption, Lists
<1>2. QED
  BY <1>1 DEF TypeInv, SharedTyped, PCTypeOK, CallRecord

\* Every variable has its type in every state, and a length in a header or in
\* a call is one for which the cache has a list, so that no index is out of
\* range (page-cache.cpp:14-24, 56-64).
THEOREM TypeCorrect == PCSpec => []PCTypeOK
<1>1. PCSpec => []TypeInv
  BY TypeInvInit, TypeInvStep, NextIsAnyStep, PTL DEF PCSpec
<1>2. QED
  BY <1>1, TypeInvImpliesPCTypeOK, PTL

-----------------------------------------------------------------------------
(* Mutexes, places and pages *)

\* What a call under way knows of its span: the length that it read, and
\* that the radix tree leads to it, as far as it has been registered.
CallKnows(t) ==
    /\ Working(t) => call[t].page_num # 0
    /\ Moving(t) => call[t].page_num = page_num_[call[t].span]
    /\ At(t, "register") =>
         /\ call[t].i < call[t].page_num
         /\ \A p \in PagesFrom(call[t].span, call[t].i) : radix_tree_[p] = call[t].span
    /\ Moving(t) /\ ~At(t, "register") =>
         \A p \in PagesOf(call[t].span) : radix_tree_[p] = call[t].span

Places ==
    /\ SpanInOnePlace
    /\ SpansPartitionMapped
    /\ RegisteredWhole
    /\ pc_span_lists_[0] = {}
    /\ \A t \in Thread : CallKnows(t)

\* Between the test and the insertion the list has room for the span.
PushesFit == \A t \in Thread : At(t, "push") => HasRoom(call[t].page_num)

IInv == TypeInv /\ MutexesMatchCalls /\ ListsBounded /\ PushesFit /\ Places

-----------------------------------------------------------------------------
(* Mutexes *)

LEMMA LockListStep ==
  ASSUME TypeInv, MutexesMatchCalls, NEW t \in Thread, OthersStay(t),
         NEW m \in Lists, LockList(m, t), latch_' = latch_,
         ~HoldsList(t), HoldsList(t)', call'[t].page_num = m,
         HoldsLatch(t)' <=> HoldsLatch(t)
  PROVE  MutexesMatchCalls'
<1>1. \A n \in Lists, u \in Thread :
        list_latch'[n] = u <=> HoldsList(u)' /\ call'[u].page_num = n
  <2> SUFFICES ASSUME NEW n \in Lists, NEW u \in Thread
               PROVE list_latch'[n] = u <=> HoldsList(u)' /\ call'[u].page_num = n
    OBVIOUS
  <2>1. list_latch[m] = nobody /\ list_latch' = [list_latch EXCEPT ![m] = t]
        /\ list_latch \in [Lists -> Thread \cup {nobody}] /\ nobody # u
    BY PageCacheAssumption DEF LockList, TypeInv, SharedTyped, PageCacheAssumption
  <2>2. list_latch[n] = u <=> HoldsList(u) /\ call[u].page_num = n
    BY DEF MutexesMatchCalls
  <2>3. list_latch[m] = u <=> HoldsList(u) /\ call[u].page_num = m
    BY DEF MutexesMatchCalls
  <2>4. CASE u = t
    BY <2>1, <2>2, <2>4
  <2>5. CASE u # t
    <3>1. (HoldsList(u)' <=> HoldsList(u)) /\ call'[u].page_num = call[u].page_num
      BY <2>5 DEF OthersStay, HoldsList
    <3>2. QED
      BY <2>1, <2>2, <2>3, <2>5, <3>1
  <2>6. QED
    BY <2>4, <2>5
<1>2. \A u \in Thread : latch_' = u <=> HoldsLatch(u)'
  BY DEF MutexesMatchCalls, OthersStay, HoldsLatch
<1>3. QED
  BY <1>1, <1>2 DEF MutexesMatchCalls

LEMMA UnlockListStep ==
  ASSUME TypeInv, MutexesMatchCalls, NEW t \in Thread, OthersStay(t),
         NEW m \in Lists, UnlockList(m), latch_' = latch_,
         HoldsList(t), call[t].page_num = m, ~HoldsList(t)',
         HoldsLatch(t)' <=> HoldsLatch(t)
  PROVE  MutexesMatchCalls'
<1>1. \A n \in Lists, u \in Thread :
        list_latch'[n] = u <=> HoldsList(u)' /\ call'[u].page_num = n
  <2> SUFFICES ASSUME NEW n \in Lists, NEW u \in Thread
               PROVE list_latch'[n] = u <=> HoldsList(u)' /\ call'[u].page_num = n
    OBVIOUS
  <2>1. list_latch' = [list_latch EXCEPT ![m] = nobody]
        /\ list_latch \in [Lists -> Thread \cup {nobody}] /\ nobody # u
    BY PageCacheAssumption DEF UnlockList, TypeInv, SharedTyped, PageCacheAssumption
  <2>2. list_latch[n] = u <=> HoldsList(u) /\ call[u].page_num = n
    BY DEF MutexesMatchCalls
  <2>3. list_latch[m] = t
    BY DEF MutexesMatchCalls
  <2>4. CASE u = t
    BY <2>1, <2>2, <2>4
  <2>5. CASE u # t
    <3>1. (HoldsList(u)' <=> HoldsList(u)) /\ call'[u].page_num = call[u].page_num
      BY <2>5 DEF OthersStay, HoldsList
    <3>2. QED
      BY <2>1, <2>2, <2>3, <2>5, <3>1
  <2>6. QED
    BY <2>4, <2>5
<1>2. \A u \in Thread : latch_' = u <=> HoldsLatch(u)'
  BY DEF MutexesMatchCalls, OthersStay, HoldsLatch
<1>3. QED
  BY <1>1, <1>2 DEF MutexesMatchCalls

\* The mutex of no list changes hands; latch_ may.
LEMMA LatchStep ==
  ASSUME TypeInv, MutexesMatchCalls, NEW t \in Thread, OthersStay(t),
         list_latch' = list_latch,
         HoldsList(t)' <=> HoldsList(t),
         HoldsList(t) => call'[t].page_num = call[t].page_num,
         \/ latch_' = latch_ /\ (HoldsLatch(t)' <=> HoldsLatch(t))
         \/ latch_ = nobody /\ latch_' = t /\ HoldsLatch(t)'
         \/ HoldsLatch(t) /\ latch_' = nobody /\ ~HoldsLatch(t)'
  PROVE  MutexesMatchCalls'
<1>1. \A n \in Lists, u \in Thread :
        list_latch'[n] = u <=> HoldsList(u)' /\ call'[u].page_num = n
  <2> SUFFICES ASSUME NEW n \in Lists, NEW u \in Thread
               PROVE list_latch'[n] = u <=> HoldsList(u)' /\ call'[u].page_num = n
    OBVIOUS
  <2>1. list_latch'[n] = u <=> HoldsList(u) /\ call[u].page_num = n
    BY DEF MutexesMatchCalls
  <2>2. CASE u = t
    BY <2>1, <2>2
  <2>3. CASE u # t
    BY <2>1, <2>3 DEF OthersStay, HoldsList
  <2>4. QED
    BY <2>2, <2>3
<1>2. \A u \in Thread : latch_' = u <=> HoldsLatch(u)'
  <2>1. nobody \notin Thread
    BY PageCacheAssumption DEF PageCacheAssumption
  <2>2. \A u \in Thread \ {t} : HoldsLatch(u)' <=> HoldsLatch(u)
    BY DEF OthersStay, HoldsLatch
  <2>3. \A u \in Thread : latch_ = u <=> HoldsLatch(u)
    BY DEF MutexesMatchCalls
  <2>4. QED
    BY <2>1, <2>2, <2>3
<1>3. QED
  BY <1>1, <1>2 DEF MutexesMatchCalls

\* The case split on the labels is in the definitions of the two Holds.
LEMMA MutexesStep ==
  ASSUME TypeInv, MutexesMatchCalls, \A t \in Thread : CallKnows(t),
         [AnyStep]_pageCacheVars
  PROVE  MutexesMatchCalls'
<1>1. ASSUME NEW t \in Thread, LockListToDistribute(t) PROVE MutexesMatchCalls'
  <2>1. OthersStay(t) /\ call[t].at = "lock list" /\ call'[t].at = "take span"
        /\ call'[t].page_num = call[t].page_num
    BY <1>1, GoToStep DEF TypeInv, LockListToDistribute, At, CallLabels
  <2>2. call[t].page_num \in Lists /\ LockList(call[t].page_num, t)
    BY <1>1, <2>1 DEF TypeInv, LocalsTyped, Working, LockListToDistribute
  <2>3. QED
    BY <1>1, <2>1, <2>2, LockListStep DEF LockListToDistribute, HoldsList, HoldsLatch
<1>2. ASSUME NEW t \in Thread, ListIsEmpty(t) PROVE MutexesMatchCalls'
  <2>1. OthersStay(t) /\ call[t].at = "take span" /\ call'[t].at = "lock to map"
        /\ call'[t].page_num = call[t].page_num
    BY <1>2, GoToStep DEF TypeInv, ListIsEmpty, At, CallLabels
  <2>2. call[t].page_num \in Lists /\ UnlockList(call[t].page_num)
    BY <1>2, <2>1 DEF TypeInv, LocalsTyped, Working, ListIsEmpty
  <2>3. QED
    BY <1>2, <2>1, <2>2, UnlockListStep DEF ListIsEmpty, HoldsList, HoldsLatch
<1>3. ASSUME NEW t \in Thread, LockToMap(t) PROVE MutexesMatchCalls'
  <2>1. OthersStay(t) /\ call[t].at = "lock to map" /\ call'[t].at = "map"
        /\ call'[t].page_num = call[t].page_num
    BY <1>3, GoToStep DEF TypeInv, LockToMap, At, CallLabels
  <2>2. QED
    BY <1>3, <2>1, LatchStep DEF LockToMap, HoldsList, HoldsLatch
<1>4. ASSUME NEW t \in Thread, MapFails(t) PROVE MutexesMatchCalls'
  <2>1. OthersStay(t) /\ call[t].at = "map" /\ call'[t].at = "killed"
        /\ call'[t].page_num = call[t].page_num
    BY <1>4, GoToStep DEF TypeInv, MapFails, At, CallLabels
  <2>2. QED
    BY <1>4, <2>1, LatchStep DEF MapFails, HoldsList, HoldsLatch
<1>5. ASSUME NEW t \in Thread, LockListToTakeBack(t) PROVE MutexesMatchCalls'
  <2>1. OthersStay(t) /\ call[t].at = "lock list to take back" /\ call'[t].at = "put back"
        /\ call'[t].page_num = call[t].page_num
    BY <1>5, GoToStep DEF TypeInv, LockListToTakeBack, At, CallLabels
  <2>2. call[t].page_num \in Lists /\ LockList(call[t].page_num, t)
    BY <1>5, <2>1 DEF TypeInv, LocalsTyped, Working, LockListToTakeBack,
             CallKnows, Moving
  <2>3. QED
    BY <1>5, <2>1, <2>2, LockListStep DEF LockListToTakeBack, HoldsList, HoldsLatch
<1>r. ASSUME NEW t \in Thread, ListHasRoom(t) PROVE MutexesMatchCalls'
  <2>1. OthersStay(t) /\ call[t].at = "put back" /\ call'[t].at = "push"
        /\ call'[t].page_num = call[t].page_num
    BY <1>r, GoToStep DEF TypeInv, ListHasRoom, At, CallLabels
  <2>2. QED
    BY <1>r, <2>1, LatchStep DEF ListHasRoom, HoldsList, HoldsLatch
<1>6. ASSUME NEW t \in Thread, PutBack(t) PROVE MutexesMatchCalls'
  <2>1. OthersStay(t) /\ call[t].at = "push" /\ call'[t].at = "unlock list"
        /\ call'[t].page_num = call[t].page_num
    BY <1>6, GoToStep DEF TypeInv, PutBack, At, CallLabels
  <2>2. QED
    BY <1>6, <2>1, LatchStep DEF PutBack, HoldsList, HoldsLatch
<1>7. ASSUME NEW t \in Thread, LockToUnmap(t) PROVE MutexesMatchCalls'
  <2>1. OthersStay(t) /\ call[t].at = "put back" /\ call'[t].at = "unmap"
        /\ call'[t].page_num = call[t].page_num
    BY <1>7, GoToStep DEF TypeInv, LockToUnmap, At, CallLabels
  <2>2. QED
    BY <1>7, <2>1, LatchStep DEF LockToUnmap, HoldsList, HoldsLatch
<1>8. ASSUME NEW t \in Thread, UnmapSpan(t) PROVE MutexesMatchCalls'
  <2>1. OthersStay(t) /\ call[t].at = "unmap" /\ call'[t].at = "unlock list"
        /\ call'[t].page_num = call[t].page_num
    BY <1>8, GoToStep DEF TypeInv, UnmapSpan, At, CallLabels
  <2>2. QED
    BY <1>8, <2>1, LatchStep DEF UnmapSpan, HoldsList, HoldsLatch
<1>9. ASSUME NEW t \in Thread, TakeSpan(t) PROVE MutexesMatchCalls'
  <2>1. call[t].at = "take span" /\ call[t].page_num \in Lists
    BY <1>9 DEF TakeSpan, At, TypeInv, LocalsTyped, Working
  <2>2. PICK s \in pc_span_lists_[call[t].page_num] :
          call' = [call EXCEPT ![t].at = "distributed", ![t].span = s]
    BY <1>9 DEF TakeSpan
  <2>3. s \in Page
    BY <2>1 DEF TypeInv, SharedTyped
  <2>4. OthersStay(t) /\ call'[t].at = "distributed"
    BY <2>2, <2>3, TakeSpanStep DEF TypeInv
  <2>5. QED
    BY <1>9, <2>1, <2>4, UnlockListStep DEF TakeSpan, HoldsList, HoldsLatch
<1>10. ASSUME NEW t \in Thread, MapSpan(t) PROVE MutexesMatchCalls'
  <2>1. PICK s \in MapPlaces(call[t].page_num) :
          call' = [call EXCEPT ![t].at = "register", ![t].span = s, ![t].i = 0]
    BY <1>10 DEF MapSpan
  <2>2. OthersStay(t) /\ call'[t].at = "register" /\ call[t].at = "map"
    BY <1>10, <2>1, NewSpanStep DEF TypeInv, MapPlaces, CallLabels, MapSpan, At
  <2>3. QED
    BY <1>10, <2>2, LatchStep DEF MapSpan, HoldsList, HoldsLatch
<1>11. ASSUME NEW t \in Thread, Register(t) PROVE MutexesMatchCalls'
  <2>1. /\ OthersStay(t) /\ call[t].at = "register"
        /\ call'[t].at = IF call[t].i + 1 = call[t].page_num
                            THEN "distributed" ELSE "register"
        /\ latch_' = IF call[t].i + 1 = call[t].page_num THEN nobody ELSE latch_
        /\ list_latch' = list_latch
    BY <1>11, RegisterStep DEF TypeInv, Register
  <2>2. CASE call[t].i + 1 = call[t].page_num
    BY <2>1, <2>2, LatchStep DEF HoldsList, HoldsLatch
  <2>3. CASE call[t].i + 1 # call[t].page_num
    BY <2>1, <2>3, LatchStep DEF HoldsList, HoldsLatch
  <2>4. QED
    BY <2>2, <2>3
<1>12. ASSUME NEW t \in Thread, NEW n \in PageNums, DistributeSpan(t, n)
       PROVE MutexesMatchCalls'
  <2> DEFINE label == IF n > kPCSpanListNum THEN "distributed" ELSE "lock list"
  <2>1. call[t].at = "idle" /\ call' = [call EXCEPT ![t] = NewCall(label, n, null)]
    BY <1>12 DEF DistributeSpan, At
  <2>2. label \in {"distributed", "lock list"} /\ label \in CallLabels /\ n \in Nat
    BY PageCacheAssumption DEF CallLabels, PageCacheAssumption
  <2> HIDE DEF label
  <2>3. OthersStay(t) /\ call'[t].at = label
    <3>1. call \in [Thread -> CallRecord] /\ null \in Page \cup {null}
      BY DEF TypeInv
    <3>2. QED
      BY <2>1, <2>2, <3>1, NewCallStep
  <2>4. /\ ~HoldsList(t) /\ ~HoldsList(t)' /\ ~HoldsLatch(t) /\ ~HoldsLatch(t)'
        /\ list_latch' = list_latch /\ latch_' = latch_
    BY <1>12, <2>1, <2>2, <2>3 DEF DistributeSpan, HoldsList, HoldsLatch
  <2>5. QED
    BY <2>3, <2>4, LatchStep
<1>13. ASSUME NEW t \in Thread, NEW s \in lent, TakeBackSpan(t, s)
       PROVE MutexesMatchCalls'
  <2> DEFINE label == "lock list to take back"
             n == page_num_[s]
  <2>1. call[t].at = "idle" /\ call' = [call EXCEPT ![t] = NewCall(label, n, s)]
    BY <1>13 DEF TakeBackSpan, At
  <2>2. label \in CallLabels /\ n \in Nat /\ s \in Page \cup {null}
    BY PageCacheAssumption
       DEF CallLabels, PageCacheAssumption, TypeInv, SharedTyped, Lists
  <2> HIDE DEF n
  <2>3. OthersStay(t) /\ call'[t].at = label
    BY <2>1, <2>2, NewCallStep DEF TypeInv
  <2>4. QED
    BY <1>13, <2>1, <2>3, LatchStep DEF TakeBackSpan, HoldsList, HoldsLatch
<1>14. ASSUME NEW t \in Thread, EndTakeBack(t) PROVE MutexesMatchCalls'
  <2>1. /\ call[t].at = "unlock list" /\ UnlockList(call[t].page_num)
        /\ call' = [call EXCEPT ![t] = NewCall("taken back", 0, null)]
    BY <1>14 DEF EndTakeBack, At, LengthToUnlock
  <2>2. call[t].page_num \in Lists
    BY <2>1 DEF TypeInv, LocalsTyped, Working
  <2>3. OthersStay(t) /\ call'[t].at = "taken back"
    BY <2>1, NewCallStep DEF TypeInv, CallLabels
  <2>4. QED
    BY <1>14, <2>1, <2>2, <2>3, UnlockListStep DEF EndTakeBack, HoldsList, HoldsLatch
<1>15. ASSUME NEW t \in Thread, Return(t) PROVE MutexesMatchCalls'
  <2>1. /\ call[t].at \in {"distributed", "taken back"}
        /\ call' = [call EXCEPT ![t] = NewCall("idle", 0, null)]
    BY <1>15 DEF Return, Returned, Idle
  <2>2. OthersStay(t) /\ call'[t].at = "idle"
    BY <2>1, NewCallStep DEF TypeInv, CallLabels
  <2>3. QED
    BY <1>15, <2>1, <2>2, LatchStep DEF Return, HoldsList, HoldsLatch
<1>16. ASSUME OthersMap \/ UNCHANGED pageCacheVars PROVE MutexesMatchCalls'
  <2>1. list_latch' = list_latch /\ latch_' = latch_ /\ call' = call
    BY <1>16 DEF OthersMap, pageCacheVars
  <2>2. \A u \in Thread : /\ HoldsList(u)' <=> HoldsList(u)
                          /\ HoldsLatch(u)' <=> HoldsLatch(u)
    BY <2>1 DEF HoldsList, HoldsLatch
  <2>3. QED
    BY <2>1, <2>2 DEF MutexesMatchCalls
<1>17. QED
  BY <1>r, <1>1, <1>2, <1>3, <1>4, <1>5, <1>6, <1>7, <1>8, <1>9, <1>10, <1>11,
     <1>12, <1>13, <1>14, <1>15, <1>16
     DEF AnyStep, Inside

-----------------------------------------------------------------------------
(* Places: steps that move no span *)

LEMMA SpanFacts ==
  ASSUME TypeInv, SpansPartitionMapped, NEW s \in Spans
  PROVE  /\ s \in Page
         /\ page_num_[s] \in Nat \ {0}
         /\ s \in PagesOf(s)
         /\ PagesOf(s) \subseteq mapped
<1>1. s \in Page /\ page_num_[s] \in Nat \ {0}
  BY PageCacheAssumption
     DEF Spans, TypeInv, SharedTyped, Lists, PageCacheAssumption
<1>2. s \in PagesOf(s)
  BY <1>1 DEF PagesOf, PagesFrom, Page
<1>3. PagesOf(s) \subseteq mapped
  BY DEF SpansPartitionMapped
<1>4. QED
  BY <1>1, <1>2, <1>3

\* A call that keeps its span, or has none before and after.
LEMMA QuietStep ==
  ASSUME Places, NEW t \in Thread, OthersStay(t),
         pc_span_lists_' = pc_span_lists_, page_num_' = page_num_,
         mapped' = mapped, foreign' = foreign, lent' = lent,
         radix_tree_' = radix_tree_,
         Moving(t)' <=> Moving(t),
         Moving(t) => call'[t].span = call[t].span
                        /\ call'[t].page_num = call[t].page_num,
         ~At(t, "register"), ~At(t, "register")',
         Working(t)' => call'[t].page_num # 0
  PROVE  Places'
<1>1. \A u \in Thread :
        /\ Moving(u)' <=> Moving(u)
        /\ Moving(u) => call'[u].span = call[u].span
                          /\ call'[u].page_num = call[u].page_num
        /\ At(u, "register")' <=> At(u, "register")
        /\ At(u, "register") => call'[u] = call[u]
  BY DEF OthersStay, Moving, At
<1>2. Spans' = Spans /\ Cached' = Cached /\ \A s : PagesOf(s)' = PagesOf(s)
  BY DEF Spans, Cached, PagesOf
<1>3. SpanInOnePlace'
  BY <1>1, <1>2 DEF Places, SpanInOnePlace
<1>4. SpansPartitionMapped'
  BY <1>2 DEF Places, SpansPartitionMapped
<1>5. RegisteredWhole'
  BY <1>2 DEF Places, RegisteredWhole
<1>6. \A u \in Thread : CallKnows(u)'
  <2> SUFFICES ASSUME NEW u \in Thread PROVE CallKnows(u)'
    OBVIOUS
  <2>1. CallKnows(u)
    BY DEF Places
  <2>2. Working(u)' => call'[u].page_num # 0
    BY <2>1 DEF CallKnows, OthersStay, Working
  <2>3. QED
    BY <1>1, <1>2, <2>1, <2>2 DEF CallKnows
<1>7. pc_span_lists_'[0] = {}
  BY DEF Places
<1>8. QED
  BY <1>3, <1>4, <1>5, <1>6, <1>7 DEF Places

-----------------------------------------------------------------------------
(* Places: steps that move a span *)

LEMMA PlacedAreSpans ==
  ASSUME TypeInv, Places
  PROVE  lent \subseteq Spans /\ Cached \subseteq Spans
<1>1. lent \subseteq Spans
  BY DEF Places, SpanInOnePlace
<1>2. ASSUME NEW n \in Lists, NEW s \in pc_span_lists_[n] PROVE s \in Spans
  <2>1. page_num_[s] = n /\ n # 0
    BY DEF Places, SpanInOnePlace
  <2>2. s \in Page
    BY DEF TypeInv, SharedTyped
  <2>3. QED
    BY <2>1, <2>2 DEF Spans
<1>3. QED
  BY <1>1, <1>2 DEF Cached

\* What another call knows stays true when its span is left alone.
LEMMA OtherKnows ==
  ASSUME TypeInv, NEW u \in Thread, CallKnows(u), call'[u] = call[u],
         Moving(u) => /\ page_num_'[call[u].span] = page_num_[call[u].span]
                      /\ \A p \in PagesOf(call[u].span) :
                           radix_tree_'[p] = radix_tree_[p]
  PROVE  CallKnows(u)'
<1> DEFINE s == call[u].span
<1>1. call[u].i \in Nat /\ call[u].page_num \in Nat
  BY DEF TypeInv, CallRecord
<1>2. Moving(u) => s \in Page
  BY DEF TypeInv, LocalsTyped
<1>3. At(u, "register") => PagesFrom(s, call[u].i) \subseteq PagesOf(s)
  BY <1>1, <1>2 DEF CallKnows, Moving, At, PagesOf, PagesFrom, Page
<1>4. Moving(u) => PagesOf(s)' = PagesOf(s)
  BY DEF PagesOf
<1>5. Working(u)' => call'[u].page_num # 0
  BY DEF CallKnows, Working
<1>6. Moving(u)' => call'[u].page_num = page_num_'[call'[u].span]
  BY DEF CallKnows, Moving
<1>7. At(u, "register")' =>
         /\ call'[u].i < call'[u].page_num
         /\ \A p \in PagesFrom(call'[u].span, call'[u].i) :
              radix_tree_'[p] = call'[u].span
  BY <1>3 DEF CallKnows, Moving, At
<1>8. (Moving(u) /\ ~At(u, "register") =>
         \A p \in PagesOf(call[u].span) : radix_tree_[p] = call[u].span)'
  <2> SUFFICES ASSUME Moving(u), ~At(u, "register")
               PROVE \A p \in PagesOf(s) : radix_tree_'[p] = s
    BY <1>4 DEF Moving, At
  <2>1. QED
    BY DEF CallKnows
<1>9. QED
  BY <1>5, <1>6, <1>7, <1>8 DEF CallKnows

LEMMA TakeSpanPlaces ==
  ASSUME TypeInv, Places, NEW t \in Thread, TakeSpan(t)
  PROVE  Places'
<1> DEFINE n == call[t].page_num
<1>1. call[t].at = "take span" /\ n \in Lists /\ n # 0
  BY DEF TakeSpan, At, TypeInv, LocalsTyped, Working, Places, CallKnows
<1>2. PICK s \in pc_span_lists_[n] :
        /\ pc_span_lists_' = [pc_span_lists_ EXCEPT ![n] = @ \ {s}]
        /\ lent' = lent \cup {s}
        /\ call' = [call EXCEPT ![t].at = "distributed", ![t].span = s]
  BY DEF TakeSpan, RemoveFromList
<1>3. s \in Page /\ pc_span_lists_ \in [Lists -> SUBSET Page]
  BY <1>1 DEF TypeInv, SharedTyped
<1>4. OthersStay(t) /\ call'[t].at = "distributed"
  BY <1>2, <1>3, TakeSpanStep DEF TypeInv
<1>5. /\ page_num_' = page_num_ /\ mapped' = mapped /\ foreign' = foreign
      /\ radix_tree_' = radix_tree_
  BY DEF TakeSpan
<1>6. Spans' = Spans /\ \A u : PagesOf(u)' = PagesOf(u)
  BY <1>5 DEF Spans, PagesOf
<1>7. \A m \in Lists : \A u : u \in pc_span_lists_'[m]
                                  <=> u \in pc_span_lists_[m] /\ u # s
  <2>1. \A m \in Lists : s \in pc_span_lists_[m] => m = n
    <3>1. \A m \in Lists : \A u \in pc_span_lists_[m] : page_num_[u] = m
      BY DEF Places, SpanInOnePlace
    <3>2. n \in Lists /\ s \in pc_span_lists_[n]
      BY <1>1
    <3>3. QED
      BY <3>1, <3>2
  <2> HIDE DEF n
  <2>2. QED
    BY <1>1, <1>2, <1>3, <2>1
<1>8. \A u : u \in Cached' <=> u \in Cached /\ u # s
  BY <1>7 DEF Cached
<1>9. s \in Cached /\ s \in Spans
  BY <1>1, PlacedAreSpans DEF Cached
<1> HIDE DEF n
<1>10. \A u \in Thread : (Moving(u)' <=> Moving(u)) /\ (Moving(u) => call'[u] = call[u])
  BY <1>1, <1>4 DEF OthersStay, Moving
<1>11. SpanInOnePlace'
  <2>1. \A m \in Lists : \A u \in pc_span_lists_'[m] :
          page_num_'[u] = m /\ u \notin lent'
    BY <1>2, <1>5, <1>7 DEF Places, SpanInOnePlace
  <2>2. \A u \in Thread : Moving(u)' =>
          /\ call'[u].span \in Spans' \ (lent' \cup Cached')
          /\ \A v \in Thread \ {u} : Moving(v)' => call'[v].span # call'[u].span
    <3> SUFFICES ASSUME NEW u \in Thread, Moving(u)
                 PROVE  /\ call[u].span \in Spans \ (lent' \cup Cached')
                        /\ \A v \in Thread \ {u} :
                             Moving(v) => call[v].span # call[u].span
      BY <1>6, <1>10
    <3>1. QED
      BY <1>2, <1>8, <1>9 DEF Places, SpanInOnePlace
  <2>3. \A u \in Spans' : \/ u \in lent' \cup Cached'
                          \/ \E v \in Thread : Moving(v)' /\ call'[v].span = u
    BY <1>2, <1>6, <1>8, <1>10 DEF Places, SpanInOnePlace
  <2>4. lent' \subseteq Spans'
    BY <1>2, <1>6, <1>9, PlacedAreSpans
  <2>5. QED
    BY <2>1, <2>2, <2>3, <2>4 DEF SpanInOnePlace
<1>12. SpansPartitionMapped'
  BY <1>5, <1>6 DEF Places, SpansPartitionMapped
<1>13. RegisteredWhole'
  BY <1>2, <1>5, <1>6, <1>8, <1>9 DEF Places, RegisteredWhole
<1>14. \A u \in Thread : CallKnows(u)'
  <2>1. CallKnows(t)'
    BY <1>4 DEF CallKnows, Working, Moving, At
  <2>2. QED
    BY <1>4, <1>5, <2>1, OtherKnows DEF OthersStay, Places
<1>15. pc_span_lists_'[0] = {}
  <2>1. 0 \in Lists
    BY PageCacheAssumption DEF PageCacheAssumption, Lists
  <2>2. QED
    BY <1>7, <2>1 DEF Places
<1>16. QED
  BY <1>11, <1>12, <1>13, <1>14, <1>15 DEF Places

LEMMA PutBackPlaces ==
  ASSUME TypeInv, Places, NEW t \in Thread, PutBack(t)
  PROVE  Places'
<1> DEFINE s == call[t].span
           n == page_num_[s]
<1>1. call[t].at = "push" /\ Moving(t) /\ s \in Page /\ call[t].page_num # 0
  BY DEF PutBack, At, TypeInv, LocalsTyped, Moving, Working, Places, CallKnows
<1>2. /\ pc_span_lists_' = [pc_span_lists_ EXCEPT ![n] = @ \cup {s}]
      /\ page_num_' = page_num_ /\ mapped' = mapped /\ foreign' = foreign
      /\ radix_tree_' = radix_tree_ /\ lent' = lent
  BY DEF PutBack
<1>3. n \in Lists /\ pc_span_lists_ \in [Lists -> SUBSET Page]
  BY <1>1 DEF TypeInv, SharedTyped
<1>4. /\ OthersStay(t) /\ call'[t].at = "unlock list"
      /\ call'[t].page_num = call[t].page_num
  BY GoToStep DEF TypeInv, PutBack, CallLabels
<1>5. s \in Spans /\ s \notin lent /\ s \notin Cached /\ n # 0
  BY <1>1 DEF Places, SpanInOnePlace, Spans
<1>6. \A u \in Thread \ {t} : Moving(u) => call[u].span # s
  BY <1>1 DEF Places, SpanInOnePlace
<1>7. \A p \in PagesOf(s) : radix_tree_[p] = s
  BY <1>1 DEF Places, CallKnows, At
<1>8. \A m \in Lists : \A u : u \in pc_span_lists_'[m]
                                  <=> u \in pc_span_lists_[m] \/ (u = s /\ m = n)
  <2> HIDE DEF n, s
  <2>1. QED
    BY <1>2, <1>3
<1> HIDE DEF n
<1>9. Spans' = Spans /\ \A u : PagesOf(u)' = PagesOf(u)
  BY <1>2 DEF Spans, PagesOf
<1>10. \A u : u \in Cached' <=> u \in Cached \/ u = s
  BY <1>3, <1>8 DEF Cached
<1>11. \A u \in Thread : Moving(u)' => Moving(u) /\ call'[u] = call[u] /\ u # t
  BY <1>4 DEF OthersStay, Moving
<1>12. \A u \in Thread \ {t} : Moving(u) => Moving(u)' /\ call'[u] = call[u]
  BY <1>4 DEF OthersStay, Moving
<1>13. SpanInOnePlace'
  <2>1. \A m \in Lists : \A u \in pc_span_lists_'[m] :
          page_num_'[u] = m /\ u \notin lent'
    BY <1>2, <1>5, <1>8 DEF Places, SpanInOnePlace, n
  <2>2. \A u \in Thread : Moving(u)' =>
          /\ call'[u].span \in Spans' \ (lent' \cup Cached')
          /\ \A v \in Thread \ {u} : Moving(v)' => call'[v].span # call'[u].span
    <3> SUFFICES ASSUME NEW u \in Thread, Moving(u), u # t
                 PROVE  /\ call[u].span \in Spans \ (lent \cup Cached')
                        /\ \A v \in Thread \ {u} :
                             Moving(v) => call[v].span # call[u].span
      BY <1>2, <1>9, <1>11
    <3>1. QED
      BY <1>6, <1>10 DEF Places, SpanInOnePlace
  <2>3. \A u \in Spans' : \/ u \in lent' \cup Cached'
                          \/ \E v \in Thread : Moving(v)' /\ call'[v].span = u
    <3> SUFFICES ASSUME NEW u \in Spans, u \notin lent, u \notin Cached, u # s
                 PROVE  \E v \in Thread : Moving(v)' /\ call'[v].span = u
      BY <1>2, <1>9, <1>10
    <3>1. PICK v \in Thread : Moving(v) /\ call[v].span = u
      BY DEF Places, SpanInOnePlace
    <3>2. QED
      BY <1>12, <3>1
  <2>4. lent' \subseteq Spans'
    BY <1>2, <1>9, PlacedAreSpans
  <2>5. QED
    BY <2>1, <2>2, <2>3, <2>4 DEF SpanInOnePlace
<1>14. SpansPartitionMapped'
  BY <1>2, <1>9 DEF Places, SpansPartitionMapped
<1>15. RegisteredWhole'
  BY <1>2, <1>7, <1>9, <1>10 DEF Places, RegisteredWhole
<1>16. \A u \in Thread : CallKnows(u)'
  <2>1. CallKnows(t)'
    BY <1>1, <1>4 DEF CallKnows, Working, Moving, At
  <2>2. QED
    BY <1>2, <1>4, <2>1, OtherKnows DEF OthersStay, Places
<1>17. pc_span_lists_'[0] = {}
  <2>1. 0 \in Lists
    BY PageCacheAssumption DEF PageCacheAssumption, Lists
  <2>2. QED
    BY <1>5, <1>8, <2>1 DEF Places
<1>18. QED
  BY <1>13, <1>14, <1>15, <1>16, <1>17 DEF Places

LEMMA TakeBackSpanPlaces ==
  ASSUME TypeInv, Places, NEW t \in Thread, NEW s \in lent, TakeBackSpan(t, s)
  PROVE  Places'
<1> DEFINE label == "lock list to take back"
           n == page_num_[s]
<1>1. /\ call[t].at = "idle" /\ lent' = lent \ {s}
      /\ call' = [call EXCEPT ![t] = NewCall(label, n, s)]
      /\ pc_span_lists_' = pc_span_lists_ /\ page_num_' = page_num_
      /\ mapped' = mapped /\ foreign' = foreign /\ radix_tree_' = radix_tree_
  BY DEF TakeBackSpan, At
<1>2. s \in Spans /\ s \in Page /\ n \in Nat \ {0}
  BY PlacedAreSpans, SpanFacts DEF Places
<1>3. /\ OthersStay(t) /\ call'[t].at = label
      /\ call'[t].page_num = n /\ call'[t].span = s
  <2>1. /\ label \in CallLabels /\ n \in Nat /\ s \in Page \cup {null}
        /\ call \in [Thread -> CallRecord]
    BY <1>2 DEF TypeInv, CallLabels
  <2> HIDE DEF n, label
  <2>2. QED
    BY <1>1, <2>1, NewCallStep
<1> HIDE DEF n
<1>4. s \notin Cached
  BY DEF Places, SpanInOnePlace, Cached
<1>5. \A u \in Thread : Moving(u) => call[u].span # s /\ u # t
  BY <1>1 DEF Places, SpanInOnePlace, Moving
<1>6. \A p \in PagesOf(s) : radix_tree_[p] = s
  BY DEF Places, RegisteredWhole
<1>7. Spans' = Spans /\ Cached' = Cached /\ \A u : PagesOf(u)' = PagesOf(u)
  BY <1>1 DEF Spans, Cached, PagesOf
<1>8. \A u \in Thread \ {t} : /\ Moving(u)' <=> Moving(u)
                              /\ Moving(u) => call'[u] = call[u]
  BY <1>3 DEF OthersStay, Moving
<1>9. Moving(t)'
  BY <1>3 DEF Moving
<1>10. SpanInOnePlace'
  <2>1. \A m \in Lists : \A u \in pc_span_lists_'[m] :
          page_num_'[u] = m /\ u \notin lent'
    BY <1>1 DEF Places, SpanInOnePlace
  <2>2. \A u \in Thread : Moving(u)' =>
          /\ call'[u].span \in Spans' \ (lent' \cup Cached')
          /\ \A v \in Thread \ {u} : Moving(v)' => call'[v].span # call'[u].span
    <3>1. ASSUME NEW u \in Thread \ {t}, Moving(u)
          PROVE  /\ call[u].span \in Spans \ (lent \cup Cached)
                 /\ \A v \in Thread \ {u, t} :
                      Moving(v) => call[v].span # call[u].span
      BY <3>1 DEF Places, SpanInOnePlace
    <3>2. ASSUME NEW u \in Thread \ {t}, Moving(u)'
          PROVE  /\ call'[u].span \in Spans' \ (lent' \cup Cached')
                 /\ \A v \in Thread \ {u} : Moving(v)' => call'[v].span # call'[u].span
      <4>1. Moving(u) /\ call'[u] = call[u] /\ call[u].span # s
        BY <1>5, <1>8, <3>2
      <4>2. call[u].span \in Spans' \ (lent' \cup Cached')
        BY <1>1, <1>7, <3>1, <4>1
      <4>3. \A v \in Thread \ {u} : Moving(v)' => call'[v].span # call[u].span
        BY <1>3, <1>8, <3>1, <4>1
      <4>4. QED
        BY <4>1, <4>2, <4>3
    <3>3. call'[t].span \in Spans' \ (lent' \cup Cached')
      <4>1. s \in Spans' /\ s \notin Cached'
        BY <1>2, <1>4, <1>7
      <4>2. s \notin lent'
        BY <1>1
      <4>3. QED
        BY <1>3, <4>1, <4>2
    <3>4. \A v \in Thread \ {t} : Moving(v)' => call'[v].span # call'[t].span
      BY <1>3, <1>5, <1>8
    <3>5. QED
      BY <3>2, <3>3, <3>4
  <2>3. \A u \in Spans' : \/ u \in lent' \cup Cached'
                          \/ \E v \in Thread : Moving(v)' /\ call'[v].span = u
    <3> SUFFICES ASSUME NEW u \in Spans, u \notin lent, u \notin Cached
                 PROVE  \E v \in Thread : Moving(v)' /\ call'[v].span = u
      BY <1>1, <1>3, <1>7, <1>9
    <3>1. PICK v \in Thread : Moving(v) /\ call[v].span = u
      BY DEF Places, SpanInOnePlace
    <3>2. QED
      BY <1>5, <1>8, <3>1
  <2>4. lent' \subseteq Spans'
    BY <1>1, <1>7, PlacedAreSpans
  <2>5. QED
    BY <2>1, <2>2, <2>3, <2>4 DEF SpanInOnePlace
<1>11. SpansPartitionMapped'
  BY <1>1, <1>7 DEF Places, SpansPartitionMapped
<1>12. RegisteredWhole'
  BY <1>1, <1>7 DEF Places, RegisteredWhole
<1>13. \A u \in Thread : CallKnows(u)'
  <2>1. CallKnows(t)'
    BY <1>1, <1>2, <1>3, <1>6, <1>7 DEF CallKnows, Moving, At, n
  <2>2. QED
    BY <1>1, <1>3, <2>1, OtherKnows DEF OthersStay, Places
<1>14. QED
  BY <1>1, <1>10, <1>11, <1>12, <1>13 DEF Places

\* The new span is new because the pages of all others are mapped.
LEMMA MapSpanPlaces ==
  ASSUME TypeInv, Places, NEW t \in Thread, MapSpan(t)
  PROVE  Places'
<1> DEFINE n == call[t].page_num
<1>1. call[t].at = "map" /\ n \in Lists /\ n \in Nat \ {0} /\ ~Moving(t)
  <2>1. call[t].at = "map"
    BY DEF MapSpan, At
  <2>2. Working(t) /\ ~Moving(t)
    BY <2>1 DEF Working, Moving
  <2>3. n \in Lists /\ n # 0
    BY <2>2 DEF TypeInv, LocalsTyped, Places, CallKnows
  <2>4. Lists \subseteq Nat
    BY PageCacheAssumption DEF Lists, PageCacheAssumption
  <2>5. QED
    BY <2>1, <2>2, <2>3, <2>4
<1>2. PICK s \in MapPlaces(n) :
        /\ mapped' = mapped \cup PagesFrom(s, n)
        /\ page_num_' = [page_num_ EXCEPT ![s] = n]
        /\ call' = [call EXCEPT ![t].at = "register", ![t].span = s, ![t].i = 0]
  BY DEF MapSpan, Map
<1>3. /\ pc_span_lists_' = pc_span_lists_ /\ foreign' = foreign
      /\ lent' = lent /\ radix_tree_' = radix_tree_
  BY DEF MapSpan
<1>4. /\ s \in Page /\ page_num_ \in [Page -> Lists]
      /\ PagesFrom(s, n) \cap mapped = {} /\ PagesFrom(s, n) \cap foreign = {}
  BY DEF MapPlaces, TypeInv, SharedTyped
<1>5. /\ OthersStay(t) /\ call'[t].at = "register" /\ call'[t].span = s
      /\ call'[t].page_num = n /\ call'[t].i = 0
  <2> DEFINE label == "register"
             i == 0
  <2>1. label \in CallLabels /\ call \in [Thread -> CallRecord] /\ i \in Nat
    BY DEF CallLabels, TypeInv
  <2>2. call' = [call EXCEPT ![t].at = label, ![t].span = s, ![t].i = i]
    BY <1>2
  <2>3. s \in Page
    BY <1>4
  <2> HIDE DEF label, i
  <2>4. /\ OthersStay(t) /\ call'[t].at = label /\ call'[t].span = s
        /\ call'[t].page_num = call[t].page_num /\ call'[t].i = i
    BY <2>1, <2>2, <2>3 DEF CallRecord, OthersStay
  <2>5. QED
    BY <2>4 DEF label, i
<1>6. s \notin Spans
  <2>1. s \in PagesFrom(s, n)
    BY <1>1, <1>4 DEF PagesFrom, Page
  <2>2. QED
    BY <1>4, <2>1, SpanFacts DEF Places
<1> HIDE DEF n
<1>7. /\ \A u \in Page : page_num_'[u] = IF u = s THEN n ELSE page_num_[u]
      /\ \A u : u \in Spans' <=> u \in Spans \/ u = s
  BY <1>1, <1>2, <1>4 DEF Spans
<1>8. /\ \A u \in Spans : PagesOf(u)' = PagesOf(u)
      /\ PagesOf(s)' = PagesFrom(s, n)
  BY <1>4, <1>6, <1>7 DEF PagesOf, Spans
<1>9. Cached' = Cached /\ lent \subseteq Spans /\ Cached \subseteq Spans
  BY <1>3, PlacedAreSpans DEF Cached
<1>10. \A u \in Thread \ {t} : /\ Moving(u)' <=> Moving(u)
                               /\ Moving(u) => call'[u] = call[u]
  BY <1>5 DEF OthersStay, Moving
<1>11. Moving(t)'
  BY <1>5 DEF Moving
<1>12. \A u \in Thread : Moving(u) => call[u].span \in Spans /\ u # t
  BY <1>1 DEF Places, SpanInOnePlace
<1>13. SpanInOnePlace'
  <2>1. ASSUME NEW m \in Lists, NEW u \in pc_span_lists_[m]
        PROVE  page_num_'[u] = m /\ u \notin lent'
    <3>1. page_num_[u] = m /\ u \notin lent
      BY DEF Places, SpanInOnePlace
    <3>2. u \in Spans /\ u \in Page
      BY <1>9 DEF Cached, Spans
    <3>3. QED
      BY <1>3, <1>6, <1>7, <3>1, <3>2
  <2>2. ASSUME NEW u \in Thread \ {t}, Moving(u)'
        PROVE  /\ call'[u].span \in Spans' \ (lent' \cup Cached')
               /\ \A v \in Thread \ {u} : Moving(v)' => call'[v].span # call'[u].span
    <3>1. Moving(u) /\ call'[u] = call[u] /\ call[u].span # s
      BY <1>6, <1>10, <1>12, <2>2
    <3>2. /\ call[u].span \in Spans \ (lent \cup Cached)
          /\ \A v \in Thread \ {u} : Moving(v) => call[v].span # call[u].span
      BY <3>1 DEF Places, SpanInOnePlace
    <3>3. \A v \in Thread \ {u} : Moving(v)' => call'[v].span # call[u].span
      BY <1>5, <1>10, <3>1, <3>2
    <3>4. QED
      BY <1>3, <1>7, <1>9, <3>1, <3>2, <3>3
  <2>3. call'[t].span \in Spans' \ (lent' \cup Cached')
    BY <1>3, <1>5, <1>6, <1>7, <1>9
  <2>4. \A v \in Thread \ {t} : Moving(v)' => call'[v].span # call'[t].span
    BY <1>5, <1>6, <1>10, <1>12
  <2>5. ASSUME NEW u \in Spans'
        PROVE  \/ u \in lent' \cup Cached'
               \/ \E v \in Thread : Moving(v)' /\ call'[v].span = u
    <3>1. CASE u = s
      BY <1>5, <1>11, <3>1
    <3>2. CASE u # s
      <4>1. \/ u \in lent \cup Cached
            \/ \E v \in Thread : Moving(v) /\ call[v].span = u
        BY <1>7, <3>2 DEF Places, SpanInOnePlace
      <4>2. QED
        BY <1>3, <1>9, <1>10, <1>12, <4>1
    <3>3. QED
      BY <3>1, <3>2
  <2>6. lent' \subseteq Spans'
    BY <1>3, <1>7, <1>9
  <2>7. \A m \in Lists : \A u \in pc_span_lists_'[m] :
          page_num_'[u] = m /\ u \notin lent'
    BY <1>3, <2>1
  <2>8. QED
    BY <2>2, <2>3, <2>4, <2>5, <2>6, <2>7 DEF SpanInOnePlace
<1>14. SpansPartitionMapped'
  <2>1. \A u \in Spans : PagesOf(u) \subseteq mapped
    BY SpanFacts DEF Places
  <2>2. \A u, v \in Spans' : u # v => (PagesOf(u) \cap PagesOf(v) = {})'
    <3> SUFFICES ASSUME NEW u \in Spans', NEW v \in Spans', u # v
                 PROVE  (PagesOf(u) \cap PagesOf(v) = {})'
      OBVIOUS
    <3>1. CASE u # s /\ v # s
      BY <1>7, <1>8, <3>1 DEF Places, SpansPartitionMapped
    <3>2. CASE u = s
      BY <1>4, <1>7, <1>8, <2>1, <3>2
    <3>3. CASE v = s
      BY <1>4, <1>7, <1>8, <2>1, <3>3
    <3>4. QED
      BY <3>1, <3>2, <3>3
  <2>3. mapped' = UNION {PagesOf(u)' : u \in Spans'}
    <3>1. mapped = UNION {PagesOf(u) : u \in Spans}
      BY DEF Places, SpansPartitionMapped
    <3>2. \A p : p \in mapped' <=> \E u \in Spans' : p \in PagesOf(u)'
      BY <1>2, <1>7, <1>8, <3>1
    <3>3. QED
      BY <3>2
  <2>4. mapped' \cap foreign' = {}
    BY <1>2, <1>3, <1>4 DEF Places, SpansPartitionMapped
  <2>5. QED
    BY <2>2, <2>3, <2>4 DEF SpansPartitionMapped
<1>15. RegisteredWhole'
  BY <1>3, <1>8, <1>9 DEF Places, RegisteredWhole
<1>16. \A u \in Thread : CallKnows(u)'
  <2>1. CallKnows(t)'
    <3>1. page_num_'[s] = n
      BY <1>4, <1>7
    <3>2. PagesFrom(s, 0) = {}
      BY <1>4 DEF PagesFrom, Page
    <3>3. QED
      BY <1>1, <1>5, <3>1, <3>2 DEF CallKnows, Moving, At
  <2>2. ASSUME NEW u \in Thread \ {t} PROVE CallKnows(u)'
    <3>1. Moving(u) => page_num_'[call[u].span] = page_num_[call[u].span]
      BY <1>6, <1>7, <1>12 DEF Spans
    <3>2. QED
      BY <1>3, <1>5, <3>1, OtherKnows DEF OthersStay, Places
  <2>3. QED
    BY <2>1, <2>2
<1>17. QED
  BY <1>3, <1>13, <1>14, <1>15, <1>16 DEF Places

\* The pages that are unmapped are those of the one span: no other has any.
LEMMA UnmapSpanPlaces ==
  ASSUME TypeInv, Places, NEW t \in Thread, UnmapSpan(t)
  PROVE  Places'
<1> DEFINE s == call[t].span
<1>1. call[t].at = "unmap" /\ Moving(t) /\ s \in Page /\ call[t].page_num # 0
  BY DEF UnmapSpan, At, TypeInv, LocalsTyped, Moving, Working, Places, CallKnows
<1>2. /\ mapped' = mapped \ PagesOf(s)
      /\ page_num_' = [page_num_ EXCEPT ![s] = 0]
      /\ pc_span_lists_' = pc_span_lists_ /\ foreign' = foreign
      /\ lent' = lent /\ radix_tree_' = radix_tree_
  BY DEF UnmapSpan, Unmap, PagesOf
<1>3. /\ OthersStay(t) /\ call'[t].at = "unlock list"
      /\ call'[t].page_num = call[t].page_num
  BY GoToStep DEF TypeInv, UnmapSpan, CallLabels
<1>4. s \in Spans /\ s \notin lent /\ s \notin Cached
  BY <1>1 DEF Places, SpanInOnePlace
<1>5. \A u \in Thread \ {t} : Moving(u) => call[u].span \in Spans \ {s}
  BY <1>1 DEF Places, SpanInOnePlace
<1>6. page_num_ \in [Page -> Lists]
  BY DEF TypeInv, SharedTyped
<1> HIDE DEF s
<1>7. /\ \A u \in Page : page_num_'[u] = IF u = s THEN 0 ELSE page_num_[u]
      /\ \A u : u \in Spans' <=> u \in Spans /\ u # s
  BY <1>1, <1>2, <1>6 DEF Spans
<1>8. \A u \in Spans' : PagesOf(u)' = PagesOf(u)
  BY <1>7 DEF PagesOf, Spans
<1>9. Cached' = Cached /\ lent \subseteq Spans /\ Cached \subseteq Spans
  BY <1>2, PlacedAreSpans DEF Cached
<1>10. \A u \in Thread : Moving(u)' => Moving(u) /\ call'[u] = call[u] /\ u # t
  BY <1>3 DEF OthersStay, Moving
<1>11. \A u \in Thread \ {t} : Moving(u) => Moving(u)' /\ call'[u] = call[u]
  BY <1>3 DEF OthersStay, Moving
<1>12. SpanInOnePlace'
  <2>1. ASSUME NEW m \in Lists, NEW u \in pc_span_lists_[m]
        PROVE  page_num_'[u] = m /\ u \notin lent'
    <3>1. page_num_[u] = m /\ u \notin lent
      BY DEF Places, SpanInOnePlace
    <3>2. u \in Cached /\ u \in Page
      BY <1>9 DEF Cached, Spans
    <3>3. QED
      BY <1>2, <1>4, <1>7, <3>1, <3>2
  <2>2. ASSUME NEW u \in Thread, Moving(u)'
        PROVE  /\ call'[u].span \in Spans' \ (lent' \cup Cached')
               /\ \A v \in Thread \ {u} : Moving(v)' => call'[v].span # call'[u].span
    <3>1. Moving(u) /\ call'[u] = call[u] /\ u # t
      BY <1>10, <2>2
    <3>2. /\ call[u].span \in Spans \ (lent \cup Cached)
          /\ \A v \in Thread \ {u} : Moving(v) => call[v].span # call[u].span
      BY <3>1 DEF Places, SpanInOnePlace
    <3>3. call[u].span \in Spans'
      BY <1>5, <1>7, <3>1
    <3>4. \A v \in Thread \ {u} : Moving(v)' => call'[v].span # call[u].span
      BY <1>10, <3>2
    <3>5. QED
      BY <1>2, <1>9, <3>1, <3>2, <3>3, <3>4
  <2>3. ASSUME NEW u \in Spans'
        PROVE  \/ u \in lent' \cup Cached'
               \/ \E v \in Thread : Moving(v)' /\ call'[v].span = u
    <3>1. \/ u \in lent \cup Cached
          \/ \E v \in Thread : Moving(v) /\ call[v].span = u
      BY <1>7 DEF Places, SpanInOnePlace
    <3>2. CASE u \in lent \cup Cached
      BY <1>2, <1>9, <3>2
    <3>3. CASE \E v \in Thread : Moving(v) /\ call[v].span = u
      <4>1. PICK v \in Thread : Moving(v) /\ call[v].span = u
        BY <3>3
      <4>2. v # t
        BY <1>7, <4>1 DEF s
      <4>3. QED
        BY <1>11, <4>1, <4>2
    <3>4. QED
      BY <3>1, <3>2, <3>3
  <2>4. lent' \subseteq Spans'
    BY <1>2, <1>4, <1>7, <1>9
  <2>5. \A m \in Lists : \A u \in pc_span_lists_'[m] :
          page_num_'[u] = m /\ u \notin lent'
    BY <1>2, <2>1
  <2>6. QED
    BY <2>2, <2>3, <2>4, <2>5 DEF SpanInOnePlace
<1>13. SpansPartitionMapped'
  <2>1. \A u, v \in Spans' : u # v => (PagesOf(u) \cap PagesOf(v) = {})'
    BY <1>7, <1>8 DEF Places, SpansPartitionMapped
  <2>2. mapped' = UNION {PagesOf(u)' : u \in Spans'}
    <3>1. mapped = UNION {PagesOf(u) : u \in Spans}
      BY DEF Places, SpansPartitionMapped
    <3>2. \A u \in Spans' : PagesOf(u) \cap PagesOf(s) = {}
      BY <1>4, <1>7 DEF Places, SpansPartitionMapped
    <3>3. \A p : p \in mapped' <=> \E u \in Spans' : p \in PagesOf(u)'
      BY <1>2, <1>7, <1>8, <3>1, <3>2
    <3>4. QED
      BY <3>3
  <2>3. mapped' \cap foreign' = {}
    BY <1>2 DEF Places, SpansPartitionMapped
  <2>4. QED
    BY <2>1, <2>2, <2>3 DEF SpansPartitionMapped
<1>14. RegisteredWhole'
  <2>1. lent' \cup Cached' \subseteq Spans'
    BY <1>2, <1>4, <1>7, <1>9
  <2>2. QED
    BY <1>2, <1>8, <1>9, <2>1 DEF Places, RegisteredWhole
<1>15. \A u \in Thread : CallKnows(u)'
  <2>1. CallKnows(t)'
    BY <1>1, <1>3 DEF CallKnows, Working, Moving, At
  <2>2. ASSUME NEW u \in Thread \ {t} PROVE CallKnows(u)'
    <3>1. Moving(u) => page_num_'[call[u].span] = page_num_[call[u].span]
      BY <1>5, <1>7 DEF Spans
    <3>2. QED
      BY <1>2, <1>3, <3>1, OtherKnows DEF OthersStay, Places
  <2>3. QED
    BY <2>1, <2>2
<1>16. QED
  BY <1>2, <1>12, <1>13, <1>14, <1>15 DEF Places

\* The entry that is written is that of a page of the call's span, so of no
\* other span.
LEMMA RegisterPlaces ==
  ASSUME TypeInv, Places, NEW t \in Thread, Register(t)
  PROVE  Places'
<1> DEFINE s == call[t].span
           i == call[t].i
           n == call[t].page_num
           last == i + 1 = n
<1>1. /\ call[t].at = "register" /\ Moving(t) /\ Working(t) /\ s \in Page
      /\ i \in Nat /\ n \in Nat
  BY DEF Register, At, TypeInv, LocalsTyped, Moving, Working, CallRecord
<1>2. /\ n = page_num_[s] /\ i < n /\ n # 0
      /\ \A p \in PagesFrom(s, i) : radix_tree_[p] = s
  BY <1>1 DEF Places, CallKnows, At
<1>3. /\ radix_tree_' = [radix_tree_ EXCEPT ![s + i] = s]
      /\ lent' = IF last THEN lent \cup {s} ELSE lent
      /\ page_num_' = page_num_ /\ mapped' = mapped /\ foreign' = foreign
      /\ pc_span_lists_' = pc_span_lists_
  BY DEF Register, Insert
<1>4. /\ OthersStay(t) /\ call'[t].span = s /\ call'[t].i = i + 1
      /\ call'[t].page_num = n
      /\ call'[t].at = IF last THEN "distributed" ELSE "register"
  BY RegisterStep DEF TypeInv
<1>5. s \in Spans /\ s \notin lent /\ s \notin Cached
  BY <1>1 DEF Places, SpanInOnePlace
<1>6. \A u \in Thread \ {t} : Moving(u) => call[u].span \in Spans \ {s}
  BY <1>1 DEF Places, SpanInOnePlace
<1> HIDE DEF s, i, n
<1>7. s + i \in PagesOf(s) /\ PagesFrom(s, i + 1) = PagesFrom(s, i) \cup {s + i}
  BY <1>1, <1>2 DEF PagesOf, PagesFrom, Page
<1>8. s + i \in Page
  <2>1. PagesOf(s) \subseteq mapped
    BY <1>5, SpanFacts DEF Places
  <2>2. QED
    BY <1>7, <2>1 DEF TypeInv, SharedTyped
<1>9. \A p \in Page : radix_tree_'[p] = IF p = s + i THEN s ELSE radix_tree_[p]
  BY <1>3, <1>8 DEF TypeInv, SharedTyped
<1>10. \A u \in Spans \ {s} : \A p \in PagesOf(u) : radix_tree_'[p] = radix_tree_[p]
  <2> SUFFICES ASSUME NEW u \in Spans \ {s}, NEW p \in PagesOf(u)
               PROVE  radix_tree_'[p] = radix_tree_[p]
    OBVIOUS
  <2>1. p # s + i
    BY <1>5, <1>7 DEF Places, SpansPartitionMapped
  <2>2. p \in Page
    BY SpanFacts DEF Places, TypeInv, SharedTyped
  <2>3. QED
    BY <1>9, <2>1, <2>2
<1>11. \A p \in PagesFrom(s, i + 1) : radix_tree_'[p] = s
  <2>1. PagesFrom(s, i) \subseteq Page
    <3>1. PagesFrom(s, i) \subseteq PagesOf(s)
      BY <1>1, <1>2 DEF PagesOf, PagesFrom, Page
    <3>2. QED
      BY <1>5, <3>1, SpanFacts DEF Places, TypeInv, SharedTyped
  <2>2. QED
    BY <1>2, <1>7, <1>8, <1>9, <2>1
<1>12. Spans' = Spans /\ Cached' = Cached /\ \A u : PagesOf(u)' = PagesOf(u)
  BY <1>3 DEF Spans, Cached, PagesOf
<1>13. lent \subseteq Spans /\ Cached \subseteq Spans
  BY PlacedAreSpans
<1>14. \A u \in Thread \ {t} : /\ Moving(u)' <=> Moving(u)
                               /\ Moving(u) => call'[u] = call[u]
  BY <1>4 DEF OthersStay, Moving
<1>15. (Moving(t)' <=> ~last) /\ (At(t, "register")' <=> ~last)
  BY <1>4 DEF Moving, At
<1> HIDE DEF last
<1>16. SpanInOnePlace'
  <2>1. \A m \in Lists : \A u \in pc_span_lists_'[m] :
          page_num_'[u] = m /\ u \notin lent'
    <3>1. \A m \in Lists : s \notin pc_span_lists_[m]
      BY <1>5 DEF Cached
    <3>2. QED
      BY <1>3, <3>1 DEF Places, SpanInOnePlace
  <2>2. ASSUME NEW u \in Thread \ {t}, Moving(u)'
        PROVE  /\ call'[u].span \in Spans' \ (lent' \cup Cached')
               /\ \A v \in Thread \ {u} : Moving(v)' => call'[v].span # call'[u].span
    <3>1. Moving(u) /\ call'[u] = call[u] /\ call[u].span # s
      BY <1>6, <1>14, <2>2
    <3>2. /\ call[u].span \in Spans \ (lent \cup Cached)
          /\ \A v \in Thread \ {u} : Moving(v) => call[v].span # call[u].span
      BY <3>1 DEF Places, SpanInOnePlace
    <3>3. \A v \in Thread \ {u} : Moving(v)' => call'[v].span # call[u].span
      BY <1>4, <1>14, <3>1, <3>2
    <3>4. QED
      BY <1>3, <1>12, <3>1, <3>2, <3>3
  <2>3. ASSUME Moving(t)'
        PROVE  /\ call'[t].span \in Spans' \ (lent' \cup Cached')
               /\ \A v \in Thread \ {t} : Moving(v)' => call'[v].span # call'[t].span
    BY <1>3, <1>4, <1>5, <1>6, <1>12, <1>14, <1>15, <2>3
  <2>4. ASSUME NEW u \in Spans'
        PROVE  \/ u \in lent' \cup Cached'
               \/ \E v \in Thread : Moving(v)' /\ call'[v].span = u
    <3>1. CASE u = s
      BY <1>3, <1>4, <1>15, <3>1
    <3>2. CASE u # s
      <4>1. \/ u \in lent \cup Cached
            \/ \E v \in Thread : Moving(v) /\ call[v].span = u
        BY <1>12 DEF Places, SpanInOnePlace
      <4>2. CASE u \in lent \cup Cached
        BY <1>3, <1>12, <4>2
      <4>3. CASE \E v \in Thread : Moving(v) /\ call[v].span = u
        BY <1>14, <3>2, <4>3 DEF s
      <4>4. QED
        BY <4>1, <4>2, <4>3
    <3>3. QED
      BY <3>1, <3>2
  <2>5. lent' \subseteq Spans'
    BY <1>3, <1>5, <1>12, <1>13
  <2>6. QED
    BY <2>1, <2>2, <2>3, <2>4, <2>5 DEF SpanInOnePlace
<1>17. SpansPartitionMapped'
  BY <1>3, <1>12 DEF Places, SpansPartitionMapped
<1>18. RegisteredWhole'
  <2>1. ASSUME NEW u \in lent \cup Cached, NEW p \in PagesOf(u)
        PROVE  radix_tree_'[p] = u
    BY <1>5, <1>10, <1>13 DEF Places, RegisteredWhole
  <2>2. ASSUME last, NEW p \in PagesOf(s) PROVE radix_tree_'[p] = s
    BY <1>2, <1>11, <2>2 DEF last, PagesOf
  <2>3. QED
    BY <1>3, <1>12, <2>1, <2>2 DEF RegisteredWhole
<1>19. \A u \in Thread : CallKnows(u)'
  <2>1. CallKnows(t)'
    <3>1. CASE last
      BY <1>4, <1>15, <3>1 DEF CallKnows, Working, Moving, At, last
    <3>2. CASE ~last
      BY <1>1, <1>2, <1>3, <1>4, <1>11, <1>15, <3>2 DEF CallKnows, last
    <3>3. QED
      BY <3>1, <3>2
  <2>2. ASSUME NEW u \in Thread \ {t} PROVE CallKnows(u)'
    <3>1. Moving(u) => \A p \in PagesOf(call[u].span) : radix_tree_'[p] = radix_tree_[p]
      BY <1>6, <1>10
    <3>2. QED
      BY <1>3, <1>4, <3>1, OtherKnows DEF OthersStay, Places
  <2>3. QED
    BY <2>1, <2>2
<1>20. QED
  BY <1>3, <1>16, <1>17, <1>18, <1>19 DEF Places

-----------------------------------------------------------------------------
(* Places: all steps *)

LEMMA PlacesInit == PCInit => Places
<1> SUFFICES ASSUME PCInit PROVE Places
  OBVIOUS
<1>1. 0 \in Lists
  BY PageCacheAssumption DEF PageCacheAssumption, Lists
<1>2. Spans = {} /\ Cached = {}
  BY DEF PCInit, Spans, Cached
<1>3. \A t \in Thread : ~Moving(t) /\ ~Working(t) /\ ~At(t, "register")
  BY DEF PCInit, Idle, NewCall, Moving, Working, At
<1>4. SpanInOnePlace /\ RegisteredWhole
  BY <1>2, <1>3 DEF PCInit, SpanInOnePlace, RegisteredWhole
<1>5. SpansPartitionMapped
  BY <1>2 DEF PCInit, SpansPartitionMapped
<1>6. \A t \in Thread : CallKnows(t)
  BY <1>3 DEF CallKnows
<1>7. QED
  BY <1>1, <1>4, <1>5, <1>6 DEF PCInit, Places

LEMMA PlacesStep ==
  ASSUME TypeInv, Places, [AnyStep]_pageCacheVars
  PROVE  Places'
<1>1. ASSUME NEW t \in Thread, LockListToDistribute(t) PROVE Places'
  <2>1. /\ OthersStay(t) /\ call[t].at = "lock list"
        /\ call'[t].at = "take span"
        /\ call'[t].page_num = call[t].page_num /\ call'[t].span = call[t].span
    BY <1>1, GoToStep DEF TypeInv, LockListToDistribute, At, CallLabels
  <2>2. call'[t].page_num # 0
    BY <2>1 DEF Places, CallKnows, Working
  <2>3. QED
    BY <1>1, <2>1, <2>2, QuietStep DEF LockListToDistribute, Moving, At
<1>2. ASSUME NEW t \in Thread, ListIsEmpty(t) PROVE Places'
  <2>1. /\ OthersStay(t) /\ call[t].at = "take span"
        /\ call'[t].at = "lock to map"
        /\ call'[t].page_num = call[t].page_num /\ call'[t].span = call[t].span
    BY <1>2, GoToStep DEF TypeInv, ListIsEmpty, At, CallLabels
  <2>2. call'[t].page_num # 0
    BY <2>1 DEF Places, CallKnows, Working
  <2>3. QED
    BY <1>2, <2>1, <2>2, QuietStep DEF ListIsEmpty, Moving, At
<1>3. ASSUME NEW t \in Thread, LockToMap(t) PROVE Places'
  <2>1. /\ OthersStay(t) /\ call[t].at = "lock to map"
        /\ call'[t].at = "map"
        /\ call'[t].page_num = call[t].page_num /\ call'[t].span = call[t].span
    BY <1>3, GoToStep DEF TypeInv, LockToMap, At, CallLabels
  <2>2. call'[t].page_num # 0
    BY <2>1 DEF Places, CallKnows, Working
  <2>3. QED
    BY <1>3, <2>1, <2>2, QuietStep DEF LockToMap, Moving, At
<1>4. ASSUME NEW t \in Thread, MapFails(t) PROVE Places'
  <2>1. /\ OthersStay(t) /\ call[t].at = "map"
        /\ call'[t].at = "killed"
        /\ call'[t].page_num = call[t].page_num /\ call'[t].span = call[t].span
    BY <1>4, GoToStep DEF TypeInv, MapFails, At, CallLabels
  <2>2. call'[t].page_num # 0
    BY <2>1 DEF Places, CallKnows, Working
  <2>3. QED
    BY <1>4, <2>1, <2>2, QuietStep DEF MapFails, Moving, At
<1>5. ASSUME NEW t \in Thread, LockListToTakeBack(t) PROVE Places'
  <2>1. /\ OthersStay(t) /\ call[t].at = "lock list to take back"
        /\ call'[t].at = "put back"
        /\ call'[t].page_num = call[t].page_num /\ call'[t].span = call[t].span
    BY <1>5, GoToStep DEF TypeInv, LockListToTakeBack, At, CallLabels
  <2>2. call'[t].page_num # 0
    BY <2>1 DEF Places, CallKnows, Working
  <2>3. QED
    BY <1>5, <2>1, <2>2, QuietStep DEF LockListToTakeBack, Moving, At
<1>r. ASSUME NEW t \in Thread, ListHasRoom(t) PROVE Places'
  <2>1. /\ OthersStay(t) /\ call[t].at = "put back"
        /\ call'[t].at = "push"
        /\ call'[t].page_num = call[t].page_num /\ call'[t].span = call[t].span
    BY <1>r, GoToStep DEF TypeInv, ListHasRoom, At, CallLabels
  <2>2. call'[t].page_num # 0
    BY <2>1 DEF Places, CallKnows, Working
  <2>3. QED
    BY <1>r, <2>1, <2>2, QuietStep DEF ListHasRoom, Moving, At
<1>6. ASSUME NEW t \in Thread, LockToUnmap(t) PROVE Places'
  <2>1. /\ OthersStay(t) /\ call[t].at = "put back"
        /\ call'[t].at = "unmap"
        /\ call'[t].page_num = call[t].page_num /\ call'[t].span = call[t].span
    BY <1>6, GoToStep DEF TypeInv, LockToUnmap, At, CallLabels
  <2>2. call'[t].page_num # 0
    BY <2>1 DEF Places, CallKnows, Working
  <2>3. QED
    BY <1>6, <2>1, <2>2, QuietStep DEF LockToUnmap, Moving, At
<1>7. ASSUME NEW t \in Thread, NEW n \in PageNums, DistributeSpan(t, n) PROVE Places'
  <2> DEFINE label == IF n > kPCSpanListNum THEN "distributed" ELSE "lock list"
  <2>1. call[t].at = "idle" /\ call' = [call EXCEPT ![t] = NewCall(label, n, null)]
    BY <1>7 DEF DistributeSpan, At
  <2>2. /\ label \in {"distributed", "lock list"} /\ label \in CallLabels
        /\ n \in Nat /\ n # 0
    BY PageCacheAssumption DEF CallLabels, PageCacheAssumption
  <2> HIDE DEF label
  <2>3. OthersStay(t) /\ call'[t].at = label /\ call'[t].page_num = n
    <3>1. call \in [Thread -> CallRecord] /\ null \in Page \cup {null}
      BY DEF TypeInv
    <3>2. QED
      BY <2>1, <2>2, <3>1, NewCallStep
  <2>4. ~Moving(t) /\ ~Moving(t)' /\ ~At(t, "register") /\ ~At(t, "register")'
    BY <2>1, <2>2, <2>3 DEF Moving, At
  <2>5. QED
    BY <1>7, <2>2, <2>3, <2>4, QuietStep DEF DistributeSpan
<1>8. ASSUME NEW t \in Thread, EndTakeBack(t) PROVE Places'
  <2>1. /\ call[t].at = "unlock list"
        /\ call' = [call EXCEPT ![t] = NewCall("taken back", 0, null)]
    BY <1>8 DEF EndTakeBack, At
  <2>2. OthersStay(t) /\ call'[t].at = "taken back"
    BY <2>1, NewCallStep DEF TypeInv, CallLabels
  <2>3. QED
    BY <1>8, <2>1, <2>2, QuietStep DEF EndTakeBack, Moving, Working, At
<1>9. ASSUME NEW t \in Thread, Return(t) PROVE Places'
  <2>1. /\ call[t].at \in {"distributed", "taken back"}
        /\ call' = [call EXCEPT ![t] = NewCall("idle", 0, null)]
    BY <1>9 DEF Return, Returned, Idle
  <2>2. OthersStay(t) /\ call'[t].at = "idle"
    BY <2>1, NewCallStep DEF TypeInv, CallLabels
  <2>3. QED
    BY <1>9, <2>1, <2>2, QuietStep DEF Return, Moving, Working, At
<1>10. ASSUME OthersMap \/ UNCHANGED pageCacheVars PROVE Places'
  <2>1. /\ pc_span_lists_' = pc_span_lists_ /\ page_num_' = page_num_
        /\ mapped' = mapped /\ lent' = lent /\ radix_tree_' = radix_tree_
        /\ call' = call
    BY <1>10 DEF OthersMap, pageCacheVars
  <2>2. Spans' = Spans /\ Cached' = Cached /\ \A s : PagesOf(s)' = PagesOf(s)
    BY <2>1 DEF Spans, Cached, PagesOf
  <2>3. \A u \in Thread : /\ Moving(u)' <=> Moving(u)
                          /\ Working(u)' <=> Working(u)
                          /\ At(u, "register")' <=> At(u, "register")
    BY <2>1 DEF Moving, Working, At
  <2>4. SpanInOnePlace'
    BY <2>1, <2>2, <2>3 DEF Places, SpanInOnePlace
  <2>5. mapped' \cap foreign' = {}
    BY <1>10 DEF OthersMap, pageCacheVars, Places, SpansPartitionMapped
  <2>6. SpansPartitionMapped'
    BY <2>1, <2>2, <2>5 DEF Places, SpansPartitionMapped
  <2>7. RegisteredWhole'
    BY <2>1, <2>2 DEF Places, RegisteredWhole
  <2>8. \A u \in Thread : CallKnows(u)'
    BY <2>1, <2>2, <2>3 DEF Places, CallKnows
  <2>9. QED
    BY <2>1, <2>4, <2>6, <2>7, <2>8 DEF Places
<1>11. QED
  BY <1>1, <1>2, <1>3, <1>4, <1>5, <1>6, <1>7, <1>8, <1>9, <1>10, <1>r,
     TakeSpanPlaces, MapSpanPlaces, RegisterPlaces, TakeBackSpanPlaces,
     PutBackPlaces, UnmapSpanPlaces
     DEF AnyStep, Inside

-----------------------------------------------------------------------------
(* The lists *)

\* A list grows in PutBack only, and then it has room.
LEMMA ListsBoundedStep ==
  ASSUME TypeInv, Places, ListsBounded, PushesFit, [AnyStep]_pageCacheVars
  PROVE  ListsBounded'
<1>1. \A n \in Lists : IsFiniteSet(pc_span_lists_[n])
  <2>1. IsFiniteSet(Page)
    BY FS_Interval, PageCacheAssumption DEF Page, PageCacheAssumption
  <2>2. QED
    BY <2>1, FS_Subset DEF TypeInv, SharedTyped
<1>2. ASSUME NEW t \in Thread, PutBack(t) PROVE ListsBounded'
  <2> DEFINE s == call[t].span
             m == page_num_[s]
  <2>1. /\ Cardinality(pc_span_lists_[m]) < kSpanMaxListSize
        /\ pc_span_lists_' = [pc_span_lists_ EXCEPT ![m] = @ \cup {s}]
    BY <1>2 DEF PutBack, At, PushesFit, HasRoom, Places, CallKnows, Moving
  <2>2. s \in Page /\ m \in Lists
    BY <1>2 DEF PutBack, At, TypeInv, LocalsTyped, Moving, SharedTyped
  <2> HIDE DEF s, m
  <2>3. \A n \in Lists : pc_span_lists_'[n] =
          IF n = m THEN pc_span_lists_[m] \cup {s} ELSE pc_span_lists_[n]
    BY <2>1, <2>2 DEF TypeInv, SharedTyped
  <2>4. Cardinality(pc_span_lists_[m] \cup {s}) <= kSpanMaxListSize
    <3> DEFINE L == pc_span_lists_[m]
    <3>1. IsFiniteSet(L)
      BY <1>1, <2>2
    <3>2. Cardinality(L) \in Nat /\ kSpanMaxListSize \in Nat
      BY <3>1, FS_CardinalityType, PageCacheAssumption DEF PageCacheAssumption
    <3> HIDE DEF L
    <3>3. Cardinality(L \cup {s}) = IF s \in L THEN Cardinality(L) ELSE Cardinality(L) + 1
      BY <3>1, FS_AddElement
    <3>4. Cardinality(L) < kSpanMaxListSize
      BY <2>1 DEF L
    <3>5. Cardinality(L \cup {s}) <= kSpanMaxListSize
      BY <3>2, <3>3, <3>4
    <3>6. QED
      BY <3>5 DEF L
  <2>5. QED
    BY <2>3, <2>4 DEF ListsBounded
<1>3. ASSUME NEW t \in Thread, TakeSpan(t) PROVE ListsBounded'
  <2> DEFINE m == call[t].page_num
  <2>1. PICK s \in pc_span_lists_[m] :
          pc_span_lists_' = [pc_span_lists_ EXCEPT ![m] = @ \ {s}]
    BY <1>3 DEF TakeSpan, RemoveFromList
  <2>2. m \in Lists
    BY <1>3 DEF TakeSpan, At, TypeInv, LocalsTyped, Working
  <2> HIDE DEF m
  <2>3. \A n \in Lists : pc_span_lists_'[n] =
          IF n = m THEN pc_span_lists_[m] \ {s} ELSE pc_span_lists_[n]
    BY <2>1, <2>2 DEF TypeInv, SharedTyped
  <2>4. Cardinality(pc_span_lists_[m] \ {s}) <= kSpanMaxListSize
    <3> DEFINE L == pc_span_lists_[m]
    <3>1. IsFiniteSet(L) /\ Cardinality(L) <= kSpanMaxListSize
      BY <1>1, <2>2 DEF ListsBounded
    <3>2. Cardinality(L) \in Nat /\ kSpanMaxListSize \in Nat
      BY <3>1, FS_CardinalityType, PageCacheAssumption DEF PageCacheAssumption
    <3> HIDE DEF L
    <3>3. Cardinality(L \ {s}) = IF s \in L THEN Cardinality(L) - 1 ELSE Cardinality(L)
      BY <3>1, FS_RemoveElement
    <3>4. Cardinality(L \ {s}) <= kSpanMaxListSize
      BY <3>1, <3>2, <3>3
    <3>5. QED
      BY <3>4 DEF L
  <2>5. QED
    BY <2>3, <2>4 DEF ListsBounded
<1>4. ASSUME pc_span_lists_' = pc_span_lists_ PROVE ListsBounded'
  BY <1>4 DEF ListsBounded
<1>5. QED
  <2>1. ASSUME NEW t \in Thread, Inside(t) \/ Return(t) PROVE ListsBounded'
    BY <1>2, <1>3, <1>4, <2>1
       DEF Inside, Return, LockListToDistribute, ListIsEmpty, LockToMap,
           MapSpan, MapFails, Register, LockListToTakeBack, ListHasRoom, LockToUnmap,
           UnmapSpan, EndTakeBack
  <2>2. ASSUME NEW t \in Thread, \/ \E n \in PageNums : DistributeSpan(t, n)
                                 \/ \E s \in lent : TakeBackSpan(t, s)
        PROVE ListsBounded'
    BY <1>4, <2>2 DEF DistributeSpan, TakeBackSpan
  <2>3. ASSUME OthersMap \/ UNCHANGED pageCacheVars PROVE ListsBounded'
    BY <1>4, <2>3 DEF OthersMap, pageCacheVars
  <2>4. QED
    BY <2>1, <2>2, <2>3 DEF AnyStep

\* What a step of t does to the list of a length whose mutex t does not hold.
LEMMA OtherLists ==
  ASSUME TypeInv, Places, NEW t \in Thread, PutBack(t) \/ TakeSpan(t),
         NEW n \in Lists
  PROVE  \/ n = call[t].page_num /\ HoldsList(t)
         \/ pc_span_lists_'[n] = pc_span_lists_[n]
<1>1. pc_span_lists_ \in [Lists -> SUBSET Page]
  BY DEF TypeInv, SharedTyped
<1>2. CASE PutBack(t)
  <2>1. call[t].at = "push" /\ page_num_[call[t].span] = call[t].page_num
    BY <1>2 DEF PutBack, At, Places, CallKnows, Moving
  <2>2. PICK m : m = call[t].page_num
    OBVIOUS
  <2>3. pc_span_lists_' = [pc_span_lists_ EXCEPT ![m] = @ \cup {call[t].span}]
    BY <1>2, <2>1, <2>2 DEF PutBack
  <2> QED
    BY <1>1, <2>1, <2>2, <2>3 DEF HoldsList
<1>3. CASE TakeSpan(t)
  <2>1. call[t].at = "take span"
    BY <1>3 DEF TakeSpan, At
  <2>2. PICK m : m = call[t].page_num
    OBVIOUS
  <2>3. PICK s : pc_span_lists_' = [pc_span_lists_ EXCEPT ![m] = @ \ {s}]
    BY <1>3, <2>2 DEF TakeSpan, RemoveFromList
  <2> QED
    BY <1>1, <2>1, <2>2, <2>3 DEF HoldsList
<1> QED
  BY <1>2, <1>3

\* The list of a call between the test and the insertion is its own.
LEMMA PushesFitStep ==
  ASSUME TypeInv, MutexesMatchCalls, Places, PushesFit, [AnyStep]_pageCacheVars
  PROVE  PushesFit'
<1>0. /\ call \in [Thread -> CallRecord]
      /\ \A t \in Thread : call[t].at \in CallLabels /\ LocalsTyped(t)
  BY DEF TypeInv, CallRecord
<1>1. ASSUME NEW t \in Thread, call'[t].at # "push", OthersStay(t),
             \/ pc_span_lists_' = pc_span_lists_
             \/ PutBack(t) \/ TakeSpan(t)
      PROVE  PushesFit'
  <2> SUFFICES ASSUME NEW u \in Thread, At(u, "push")' PROVE HasRoom(call[u].page_num)'
    BY DEF PushesFit
  <2>1. u # t /\ call'[u] = call[u] /\ At(u, "push")
    BY <1>1 DEF OthersStay, At
  <2>2. PICK n \in Lists : n = call[u].page_num
    BY <1>0, <2>1 DEF LocalsTyped, Working, At
  <2>3. HasRoom(n)
    BY <2>1, <2>2 DEF PushesFit
  <2>4. list_latch[n] = u
    BY <2>1, <2>2 DEF MutexesMatchCalls, HoldsList, At
  <2>5. ~(n = call[t].page_num /\ HoldsList(t))
    BY <2>1, <2>4 DEF MutexesMatchCalls
  <2>6. pc_span_lists_'[n] = pc_span_lists_[n]
    BY <1>1, <2>5, OtherLists
  <2>7. HasRoom(n)'
    BY <2>3, <2>6 DEF HasRoom
  <2> QED
    BY <2>1, <2>2, <2>7
<1>2. ASSUME NEW t \in Thread, ListHasRoom(t) PROVE PushesFit'
  <2>1. /\ OthersStay(t) /\ call[t].at = "put back"
        /\ call'[t].page_num = call[t].page_num
    BY <1>2, GoToStep DEF TypeInv, ListHasRoom, At, CallLabels
  <2>2. page_num_[call[t].span] = call[t].page_num
    BY <2>1 DEF Places, CallKnows, Moving
  <2>3. HasRoom(call[t].page_num) /\ pc_span_lists_' = pc_span_lists_
    BY <1>2, <2>2 DEF ListHasRoom
  <2> SUFFICES ASSUME NEW u \in Thread, At(u, "push")' PROVE HasRoom(call[u].page_num)'
    BY DEF PushesFit
  <2>4. call'[u].page_num = call[u].page_num /\ HasRoom(call[u].page_num)
    BY <2>1, <2>3 DEF OthersStay, At, PushesFit
  <2> QED
    BY <2>3, <2>4 DEF HasRoom
<1>3. ASSUME NEW t \in Thread, NEW label \in CallLabels \ {"push"}, GoTo(t, label)
      PROVE  OthersStay(t) /\ call'[t].at # "push"
  BY <1>0, <1>3, GoToStep
<1>4. ASSUME NEW t \in Thread,
             \/ LockListToDistribute(t) \/ ListIsEmpty(t) \/ LockToMap(t)
             \/ MapFails(t) \/ LockListToTakeBack(t) \/ LockToUnmap(t) \/ UnmapSpan(t)
      PROVE  /\ pc_span_lists_' = pc_span_lists_
             /\ \E label \in CallLabels \ {"push"} : GoTo(t, label)
  BY <1>4 DEF LockListToDistribute, ListIsEmpty, LockToMap, MapFails,
              LockListToTakeBack, LockToUnmap, UnmapSpan, CallLabels
<1>5. ASSUME NEW t \in Thread, PutBack(t) PROVE OthersStay(t) /\ call'[t].at # "push"
  <2>1. GoTo(t, "unlock list")
    BY <1>5 DEF PutBack
  <2> QED
    BY <1>3, <2>1 DEF CallLabels
<1>6. ASSUME NEW t \in Thread, MapSpan(t) \/ Register(t) \/ TakeSpan(t)
      PROVE  OthersStay(t) /\ call'[t].at # "push"
  <2>1. CASE MapSpan(t)
    BY <1>0, <2>1 DEF MapSpan, OthersStay, CallRecord
  <2>2. CASE Register(t)
    BY <1>0, <2>2 DEF Register, OthersStay, CallRecord
  <2>3. CASE TakeSpan(t)
    BY <1>0, <2>3 DEF TakeSpan, OthersStay, CallRecord
  <2> QED
    BY <1>6, <2>1, <2>2, <2>3
<1>7. ASSUME NEW t \in Thread, NEW label, label # "push", NEW n, NEW s,
             call' = [call EXCEPT ![t] = NewCall(label, n, s)]
      PROVE  OthersStay(t) /\ call'[t].at # "push"
  BY <1>0, <1>7 DEF NewCall, OthersStay
<1>8. ASSUME NEW t \in Thread, Inside(t) \/ Return(t) PROVE PushesFit'
  <2>1. CASE ListHasRoom(t)
    BY <1>2, <2>1
  <2>2. CASE PutBack(t)
    BY <1>1, <1>5, <2>2
  <2>3. CASE TakeSpan(t)
    BY <1>1, <1>6, <2>3
  <2>4. CASE MapSpan(t) \/ Register(t)
    <3>1. pc_span_lists_' = pc_span_lists_
      BY <2>4 DEF MapSpan, Register
    <3> QED
      BY <1>1, <1>6, <2>4, <3>1
  <2>5. CASE \/ LockListToDistribute(t) \/ ListIsEmpty(t) \/ LockToMap(t)
             \/ MapFails(t) \/ LockListToTakeBack(t) \/ LockToUnmap(t) \/ UnmapSpan(t)
    BY <1>1, <1>3, <1>4, <2>5
  <2>6. CASE EndTakeBack(t) \/ Return(t)
    <3>1. pc_span_lists_' = pc_span_lists_
      BY <2>6 DEF EndTakeBack, Return
    <3>2. \E label \in {"taken back", "idle"} :
            call' = [call EXCEPT ![t] = NewCall(label, 0, null)]
      BY <2>6 DEF EndTakeBack, Return, Idle
    <3>3. OthersStay(t) /\ call'[t].at # "push"
      BY <1>7, <3>2
    <3> QED
      BY <1>1, <3>1, <3>3
  <2> QED
    BY <1>8, <2>1, <2>2, <2>3, <2>4, <2>5, <2>6 DEF Inside
<1>9. ASSUME NEW t \in Thread, \/ \E n \in PageNums : DistributeSpan(t, n)
                               \/ \E s \in lent : TakeBackSpan(t, s)
      PROVE  PushesFit'
  <2>1. pc_span_lists_' = pc_span_lists_
    BY <1>9 DEF DistributeSpan, TakeBackSpan
  <2>2. \E label \in CallLabels \ {"push"} : \E n, s :
          call' = [call EXCEPT ![t] = NewCall(label, n, s)]
    BY <1>9 DEF DistributeSpan, TakeBackSpan, CallLabels
  <2>3. OthersStay(t) /\ call'[t].at # "push"
    BY <1>7, <2>2
  <2> QED
    BY <1>1, <2>1, <2>3
<1>10. ASSUME OthersMap \/ UNCHANGED pageCacheVars PROVE PushesFit'
  BY <1>10 DEF OthersMap, pageCacheVars, PushesFit, At, HasRoom
<1> QED
  BY <1>8, <1>9, <1>10 DEF AnyStep

LEMMA PushesFitInit == PCInit => PushesFit
  BY DEF PCInit, PushesFit, At, Idle, NewCall

LEMMA ListsBoundedInit == PCInit => ListsBounded
  BY FS_EmptySet, PageCacheAssumption
     DEF PCInit, ListsBounded, PageCacheAssumption

LEMMA MutexesInit == PCInit => MutexesMatchCalls
<1> SUFFICES ASSUME PCInit PROVE MutexesMatchCalls
  OBVIOUS
<1>1. \A t \in Thread : ~HoldsList(t) /\ ~HoldsLatch(t) /\ t # nobody
  BY PageCacheAssumption
     DEF PCInit, Idle, NewCall, HoldsList, HoldsLatch, PageCacheAssumption
<1>2. QED
  BY <1>1 DEF PCInit, MutexesMatchCalls

-----------------------------------------------------------------------------
(* Theorems *)

LEMMA IInvStep == IInv /\ [AnyStep]_pageCacheVars => IInv'
<1> SUFFICES ASSUME IInv, [AnyStep]_pageCacheVars PROVE IInv'
  OBVIOUS
<1>1. \A t \in Thread : CallKnows(t)
  BY DEF IInv, Places
<1>2. QED
  BY <1>1, TypeInvStep, MutexesStep, ListsBoundedStep, PushesFitStep, PlacesStep DEF IInv

\* The inductive invariant holds in every state of the page cache.
THEOREM InductiveInvariant == PCSpec => []IInv
<1>1. PCInit => IInv
  BY TypeInvInit, MutexesInit, ListsBoundedInit, PushesFitInit, PlacesInit DEF IInv
<1>2. QED
  BY <1>1, IInvStep, NextIsAnyStep, PTL DEF PCSpec

\* Every mutex is held exactly by the call between its lock and its unlock:
\* no call returns with one (page-cache.cpp:13-25, 35-48, 55-65).
THEOREM MutexesCorrect == PCSpec => []MutexesMatchCalls
<1>1. IInv => MutexesMatchCalls
  BY DEF IInv
<1>2. QED
  BY <1>1, InductiveInvariant, PTL

\* Every span is lent, or in the list of its length, or in the hands of one
\* call, and only one of these (page-cache.cpp:13-78).
THEOREM PlacesCorrect == PCSpec => []SpanInOnePlace
<1>1. IInv => SpanInOnePlace
  BY DEF IInv, Places
<1>2. QED
  BY <1>1, InductiveInvariant, PTL

\* No two spans overlap, no page stays mapped without a span and none is
\* another's, although spans are unmapped and their pages mapped again with
\* spans of other lengths (page-cache.cpp:40, 75).
THEOREM PartitionCorrect == PCSpec => []SpansPartitionMapped
<1>1. IInv => SpansPartitionMapped
  BY DEF IInv, Places
<1>2. QED
  BY <1>1, InductiveInvariant, PTL

\* The unlocked lookup finds the span of every page of a lent or cached span
\* (page-cache.h:26), although no entry is ever removed.
THEOREM LookupCorrect == PCSpec => []RegisteredWhole
<1>1. IInv => RegisteredWhole
  BY DEF IInv, Places
<1>2. QED
  BY <1>1, InductiveInvariant, PTL

\* No list grows beyond its bound (page-cache.cpp:58).
THEOREM BoundCorrect == PCSpec => []ListsBounded
<1>1. IInv => ListsBounded
  BY DEF IInv
<1>2. QED
  BY <1>1, InductiveInvariant, PTL

\* What a step does to the spans that are lent.
LEMMA LentStep ==
  ASSUME IInv, [AnyStep]_pageCacheVars, NEW s \in lent
  PROVE  /\ page_num_'[s] = page_num_[s]
         /\ PagesOf(s) \subseteq mapped'
         /\ \A p \in PagesOf(s) : radix_tree_'[p] = radix_tree_[p]
<1> DEFINE Goal == /\ page_num_'[s] = page_num_[s]
                   /\ PagesOf(s) \subseteq mapped'
                   /\ \A p \in PagesOf(s) : radix_tree_'[p] = radix_tree_[p]
<1> SUFFICES Goal
  OBVIOUS
<1>1. /\ s \in Spans /\ s \in Page /\ s \in PagesOf(s) /\ PagesOf(s) \subseteq mapped
      /\ page_num_ \in [Page -> Lists] /\ PagesOf(s) \subseteq Page
      /\ radix_tree_ \in [Page -> Page \cup {null}]
  BY PlacedAreSpans, SpanFacts DEF IInv, Places, TypeInv, SharedTyped
<1>2. \A u \in Spans \ {s} : PagesOf(u) \cap PagesOf(s) = {}
  BY <1>1 DEF IInv, Places, SpansPartitionMapped
<1>3. \A t \in Thread : Moving(t) => call[t].span \in Spans \ {s}
  BY DEF IInv, Places, SpanInOnePlace
<1>4. ASSUME NEW t \in Thread, MapSpan(t) PROVE Goal
  <2>1. PICK u \in MapPlaces(call[t].page_num) :
          /\ mapped' = mapped \cup PagesFrom(u, call[t].page_num)
          /\ page_num_' = [page_num_ EXCEPT ![u] = call[t].page_num]
    BY <1>4 DEF MapSpan, Map
  <2>2. u # s
    <3>1. Working(t) /\ call[t].at = "map"
      BY <1>4 DEF MapSpan, At, Working
    <3>2. call[t].page_num \in Lists /\ call[t].page_num # 0
      BY <3>1 DEF IInv, TypeInv, LocalsTyped, Places, CallKnows
    <3>3. u \in Page /\ PagesFrom(u, call[t].page_num) \cap mapped = {}
      BY DEF MapPlaces
    <3>4. u \in PagesFrom(u, call[t].page_num)
      BY <3>2, <3>3, PageCacheAssumption
         DEF PagesFrom, Page, Lists, PageCacheAssumption
    <3>5. QED
      BY <1>1, <3>3, <3>4
  <2>3. radix_tree_' = radix_tree_
    BY <1>4 DEF MapSpan
  <2>4. QED
    BY <1>1, <2>1, <2>2, <2>3
<1>5. ASSUME NEW t \in Thread, UnmapSpan(t) PROVE Goal
  <2> DEFINE u == call[t].span
  <2>1. /\ mapped' = mapped \ PagesOf(u) /\ radix_tree_' = radix_tree_
        /\ page_num_' = [page_num_ EXCEPT ![u] = 0]
    BY <1>5 DEF UnmapSpan, Unmap, PagesOf
  <2>2. u \in Spans \ {s}
    BY <1>3, <1>5 DEF UnmapSpan, At, Moving
  <2> HIDE DEF u
  <2>3. QED
    BY <1>1, <1>2, <2>1, <2>2
<1>6. ASSUME NEW t \in Thread, Register(t) PROVE Goal
  <2> DEFINE u == call[t].span
             i == call[t].i
  <2>1. /\ radix_tree_' = [radix_tree_ EXCEPT ![u + i] = u]
        /\ mapped' = mapped /\ page_num_' = page_num_
    BY <1>6 DEF Register, Insert
  <2>2. call[t].at = "register" /\ Moving(t)
    BY <1>6 DEF Register, At, Moving
  <2>3. /\ u \in Spans \ {s} /\ u \in Page /\ i \in Nat
        /\ i < call[t].page_num /\ call[t].page_num = page_num_[u]
    BY <1>3, <2>2 DEF IInv, TypeInv, CallRecord, Places, CallKnows, At, Spans
  <2> HIDE DEF u, i
  <2>4. u + i \in PagesOf(u)
    <3>1. page_num_[u] \in Nat
      BY <2>3, SpanFacts DEF IInv, Places
    <3>2. QED
      BY <2>3, <3>1 DEF PagesOf, PagesFrom, Page
  <2>5. \A p \in PagesOf(s) : p # u + i
    BY <1>2, <2>3, <2>4
  <2>6. QED
    BY <1>1, <2>1, <2>5
<1>7. ASSUME page_num_' = page_num_, mapped' = mapped, radix_tree_' = radix_tree_
      PROVE Goal
  BY <1>1, <1>7
<1> HIDE DEF Goal
<1>8. ASSUME NEW t \in Thread, Inside(t) \/ Return(t) PROVE Goal
  BY <1>4, <1>5, <1>6, <1>7, <1>8
     DEF Inside, Return, LockListToDistribute, ListIsEmpty, TakeSpan, LockToMap,
         MapFails, LockListToTakeBack, ListHasRoom, PutBack, LockToUnmap, EndTakeBack
<1>9. ASSUME NEW t \in Thread, \/ \E n \in PageNums : DistributeSpan(t, n)
                               \/ \E u \in lent : TakeBackSpan(t, u)
      PROVE Goal
  BY <1>7, <1>9 DEF DistributeSpan, TakeBackSpan
<1>10. ASSUME OthersMap \/ UNCHANGED pageCacheVars PROVE Goal
  BY <1>7, <1>10 DEF OthersMap, pageCacheVars
<1>11. QED
  BY <1>8, <1>9, <1>10 DEF AnyStep

\* While a span is lent no other call changes its length, unmaps one of its
\* pages or overwrites one of their entries (page-cache.cpp:35-78).
THEOREM LentSpansStable == PCSpec => StableWhileLent
<1>1. IInv /\ [AnyStep]_pageCacheVars =>
        [\A s \in lent :
           /\ page_num_'[s] = page_num_[s]
           /\ PagesOf(s) \subseteq mapped'
           /\ \A p \in PagesOf(s) : radix_tree_'[p] = radix_tree_[p]]_pageCacheVars
  BY LentStep
<1>2. QED
  BY <1>1, InductiveInvariant, NextIsAnyStep, PTL DEF PCSpec, StableWhileLent

-----------------------------------------------------------------------------
(* The page cache implements SpanPool: DistributeSpan asks, TakeSpan or    *)
(* the last Register lends, TakeBackSpan gives back, every other step      *)
(* changes nothing that a caller sees.                                     *)

\* The two variables of SpanPool, as ImplementsSpanPool maps them.
Out == [s \in lent |-> page_num_[s]]

AskedBy(t) == IF t \in Distributing THEN call[t].page_num ELSE 0

Asked == [t \in Thread |-> AskedBy(t)]

LEMMA PoolInit == PCInit => Pool!Init
<1> SUFFICES ASSUME PCInit PROVE Pool!Init
  OBVIOUS
<1>1. lent = {} /\ Distributing = {}
  BY DEF PCInit, Distributing, Idle, NewCall
<1>2. Out = [s \in {} |-> 0]
  BY <1>1 DEF Out
<1>3. Asked = [t \in Thread |-> 0]
  BY <1>1 DEF Asked, AskedBy
<1>4. QED
  BY <1>2, <1>3 DEF Pool!Init, Out, Asked, AskedBy

\* The steps that callers do not see.
LEMMA Stutters ==
  ASSUME lent' = lent, \A s \in lent : page_num_'[s] = page_num_[s],
         \A t \in Thread : AskedBy(t)' = AskedBy(t)
  PROVE  UNCHANGED Pool!vars
<1>1. Out' = Out
  BY DEF Out
<1>2. Asked' = Asked
  BY DEF Asked
<1>3. QED
  BY <1>1, <1>2 DEF Pool!vars, Out, Asked, AskedBy

\* A step of one call, which leaves what the others ask for as it is.
LEMMA AskedStep ==
  ASSUME NEW t \in Thread, OthersStay(t)
  PROVE  \A u \in Thread \ {t} : AskedBy(u)' = AskedBy(u)
  BY DEF AskedBy, Distributing, OthersStay

\* A span of the asked length that was not lent is lent to who asked for it.
LEMMA LendStep ==
  ASSUME IInv, NEW t \in Thread, NEW s \in Spans \ lent, OthersStay(t),
         AskedBy(t) = page_num_[s], AskedBy(t)' = 0,
         lent' = lent \cup {s}, page_num_' = page_num_
  PROVE  Pool!Next
<1>1. s \in Page /\ page_num_[s] # 0 /\ PagesOf(s) \subseteq Page
  BY SpanFacts DEF IInv, Places, TypeInv, SharedTyped
<1>2. Asked[t] = page_num_[s] /\ Asked' = [Asked EXCEPT ![t] = 0]
  BY AskedStep DEF Asked
<1>3. DOMAIN Out = lent /\ \A u \in lent : Out[u] = page_num_[u]
  BY DEF Out
<1>4. Out' = [u \in DOMAIN Out \cup {s} |-> IF u = s THEN Asked[t] ELSE Out[u]]
  BY <1>2, <1>3 DEF Out
<1>5. \A u \in lent : PagesOf(u) \cap PagesOf(s) = {}
  BY PlacedAreSpans DEF IInv, Places, SpansPartitionMapped
<1>6. \A u \in DOMAIN Out : Pool!PagesFrom(u, Out[u]) = PagesOf(u)
  BY <1>3 DEF Pool!PagesFrom, PagesOf, PagesFrom
<1>7. Pool!PagesFrom(s, Asked[t]) = PagesOf(s)
  BY <1>2 DEF Pool!PagesFrom, PagesOf, PagesFrom
<1>8. PagesOf(s) \subseteq Page \ UNION {Pool!PagesFrom(u, Out[u]) : u \in DOMAIN Out}
  BY <1>1, <1>3, <1>5, <1>6
<1>9. Pool!Free = Page \ UNION {Pool!PagesFrom(u, Out[u]) : u \in DOMAIN Out}
  BY DEF Pool!Free, Pool!Page, Page, Out
<1>10. Pool!Lend(t)
  <2>1. Asked[t] # 0
    BY <1>1, <1>2
  <2>2. Pool!PagesFrom(s, Asked[t]) \subseteq Pool!Free
    BY <1>7, <1>8, <1>9
  <2>3. s \in Pool!Page
    BY <1>1 DEF Pool!Page, Page
  <2>4. QED
    BY <1>2, <1>4, <2>1, <2>2, <2>3 DEF Pool!Lend, Out, Asked, AskedBy
<1>11. QED
  BY <1>10 DEF Pool!Next

LEMMA PoolStep ==
  ASSUME IInv, [AnyStep]_pageCacheVars
  PROVE  [Pool!Next]_(Pool!vars)
<1> DEFINE Goal == [Pool!Next]_(Pool!vars)
<1> SUFFICES Goal
  OBVIOUS
<1>1. \A s \in lent : page_num_'[s] = page_num_[s]
  BY LentStep
<1>2. ASSUME lent' = lent, NEW t \in Thread, OthersStay(t), AskedBy(t)' = AskedBy(t)
      PROVE Goal
  <2>1. \A u \in Thread : AskedBy(u)' = AskedBy(u)
    BY <1>2, AskedStep
  <2>2. QED
    BY <1>1, <1>2, <2>1, Stutters
<1>3. call \in [Thread -> CallRecord] /\ TypeInv
  BY DEF IInv, TypeInv
<1> HIDE DEF Goal
<1>4. ASSUME NEW t \in Thread, LockListToDistribute(t) PROVE Goal
  <2>1. /\ OthersStay(t) /\ call[t].at = "lock list"
        /\ call'[t].at = "take span"
        /\ call'[t].page_num = call[t].page_num /\ lent' = lent
    BY <1>3, <1>4, GoToStep DEF LockListToDistribute, At, CallLabels
  <2>2. AskedBy(t)' = AskedBy(t)
    BY <2>1 DEF AskedBy, Distributing
  <2>3. QED
    BY <1>2, <2>1, <2>2
<1>5. ASSUME NEW t \in Thread, ListIsEmpty(t) PROVE Goal
  <2>1. /\ OthersStay(t) /\ call[t].at = "take span"
        /\ call'[t].at = "lock to map"
        /\ call'[t].page_num = call[t].page_num /\ lent' = lent
    BY <1>3, <1>5, GoToStep DEF ListIsEmpty, At, CallLabels
  <2>2. AskedBy(t)' = AskedBy(t)
    BY <2>1 DEF AskedBy, Distributing
  <2>3. QED
    BY <1>2, <2>1, <2>2
<1>6. ASSUME NEW t \in Thread, LockToMap(t) PROVE Goal
  <2>1. /\ OthersStay(t) /\ call[t].at = "lock to map"
        /\ call'[t].at = "map"
        /\ call'[t].page_num = call[t].page_num /\ lent' = lent
    BY <1>3, <1>6, GoToStep DEF LockToMap, At, CallLabels
  <2>2. AskedBy(t)' = AskedBy(t)
    BY <2>1 DEF AskedBy, Distributing
  <2>3. QED
    BY <1>2, <2>1, <2>2
<1>7. ASSUME NEW t \in Thread, MapFails(t) PROVE Goal
  <2>1. /\ OthersStay(t) /\ call[t].at = "map"
        /\ call'[t].at = "killed"
        /\ call'[t].page_num = call[t].page_num /\ lent' = lent
    BY <1>3, <1>7, GoToStep DEF MapFails, At, CallLabels
  <2>2. AskedBy(t)' = AskedBy(t)
    BY <2>1 DEF AskedBy, Distributing
  <2>3. QED
    BY <1>2, <2>1, <2>2
<1>8. ASSUME NEW t \in Thread, LockListToTakeBack(t) PROVE Goal
  <2>1. /\ OthersStay(t) /\ call[t].at = "lock list to take back"
        /\ call'[t].at = "put back"
        /\ call'[t].page_num = call[t].page_num /\ lent' = lent
    BY <1>3, <1>8, GoToStep DEF LockListToTakeBack, At, CallLabels
  <2>2. AskedBy(t)' = AskedBy(t)
    BY <2>1 DEF AskedBy, Distributing
  <2>3. QED
    BY <1>2, <2>1, <2>2
<1>r. ASSUME NEW t \in Thread, ListHasRoom(t) PROVE Goal
  <2>1. /\ OthersStay(t) /\ call[t].at = "put back"
        /\ call'[t].at = "push"
        /\ call'[t].page_num = call[t].page_num /\ lent' = lent
    BY <1>3, <1>r, GoToStep DEF ListHasRoom, At, CallLabels
  <2>2. AskedBy(t)' = AskedBy(t)
    BY <2>1 DEF AskedBy, Distributing
  <2>3. QED
    BY <1>2, <2>1, <2>2
<1>9. ASSUME NEW t \in Thread, PutBack(t) PROVE Goal
  <2>1. /\ OthersStay(t) /\ call[t].at = "push"
        /\ call'[t].at = "unlock list"
        /\ call'[t].page_num = call[t].page_num /\ lent' = lent
    BY <1>3, <1>9, GoToStep DEF PutBack, At, CallLabels
  <2>2. AskedBy(t)' = AskedBy(t)
    BY <2>1 DEF AskedBy, Distributing
  <2>3. QED
    BY <1>2, <2>1, <2>2
<1>10. ASSUME NEW t \in Thread, LockToUnmap(t) PROVE Goal
  <2>1. /\ OthersStay(t) /\ call[t].at = "put back"
        /\ call'[t].at = "unmap"
        /\ call'[t].page_num = call[t].page_num /\ lent' = lent
    BY <1>3, <1>10, GoToStep DEF LockToUnmap, At, CallLabels
  <2>2. AskedBy(t)' = AskedBy(t)
    BY <2>1 DEF AskedBy, Distributing
  <2>3. QED
    BY <1>2, <2>1, <2>2
<1>11. ASSUME NEW t \in Thread, UnmapSpan(t) PROVE Goal
  <2>1. /\ OthersStay(t) /\ call[t].at = "unmap"
        /\ call'[t].at = "unlock list"
        /\ call'[t].page_num = call[t].page_num /\ lent' = lent
    BY <1>3, <1>11, GoToStep DEF UnmapSpan, At, CallLabels
  <2>2. AskedBy(t)' = AskedBy(t)
    BY <2>1 DEF AskedBy, Distributing
  <2>3. QED
    BY <1>2, <2>1, <2>2
<1>12. ASSUME NEW t \in Thread, MapSpan(t) PROVE Goal
  <2>1. PICK s \in MapPlaces(call[t].page_num) :
          call' = [call EXCEPT ![t].at = "register", ![t].span = s, ![t].i = 0]
    BY <1>12 DEF MapSpan
  <2>2. /\ OthersStay(t) /\ call'[t].at = "register"
        /\ call'[t].page_num = call[t].page_num
    BY <1>3, <2>1 DEF OthersStay, CallRecord
  <2>3. lent' = lent /\ call[t].at = "map"
    BY <1>12 DEF MapSpan, At
  <2>4. AskedBy(t)' = AskedBy(t)
    BY <2>2, <2>3 DEF AskedBy, Distributing
  <2>5. QED
    BY <1>2, <2>2, <2>3, <2>4
<1>13. ASSUME NEW t \in Thread, EndTakeBack(t) \/ Return(t) PROVE Goal
  <2>1. /\ call[t].at \in {"unlock list", "distributed", "taken back"} /\ lent' = lent
        /\ \/ call' = [call EXCEPT ![t] = NewCall("taken back", 0, null)]
           \/ call' = [call EXCEPT ![t] = NewCall("idle", 0, null)]
    BY <1>13 DEF EndTakeBack, Return, Returned, Idle, At
  <2>2. OthersStay(t) /\ call'[t].at \in {"taken back", "idle"}
    BY <1>3, <2>1, NewCallStep DEF CallLabels
  <2>3. AskedBy(t)' = AskedBy(t)
    BY <2>1, <2>2 DEF AskedBy, Distributing
  <2>4. QED
    BY <1>2, <2>1, <2>2, <2>3
<1>14. ASSUME NEW t \in Thread, NEW n \in PageNums, DistributeSpan(t, n) PROVE Goal
  <2> DEFINE label == IF n > kPCSpanListNum THEN "distributed" ELSE "lock list"
  <2>1. /\ call[t].at = "idle" /\ lent' = lent
        /\ call' = [call EXCEPT ![t] = NewCall(label, n, null)]
    BY <1>14 DEF DistributeSpan, At
  <2>2. /\ label \in CallLabels /\ n \in Nat /\ n # 0 /\ kPCSpanListNum \in Nat
        /\ label = "lock list" => n <= kPCSpanListNum
        /\ label \in {"distributed", "lock list"}
    BY PageCacheAssumption DEF CallLabels, PageCacheAssumption
  <2> HIDE DEF label
  <2>3. OthersStay(t) /\ call'[t].at = label /\ call'[t].page_num = n
    <3>1. null \in Page \cup {null}
      OBVIOUS
    <3>2. QED
      BY <1>3, <2>1, <2>2, <3>1, NewCallStep
  <2>4. AskedBy(t) = 0
    BY <2>1 DEF AskedBy, Distributing
  <2>5. CASE label = "distributed"
    <3>1. AskedBy(t)' = 0
      BY <2>3, <2>5 DEF AskedBy, Distributing
    <3>2. QED
      BY <1>2, <2>1, <2>3, <2>4, <3>1
  <2>6. CASE label = "lock list"
    <3>1. AskedBy(t)' = n
      BY <2>3, <2>6 DEF AskedBy, Distributing
    <3>2. Asked[t] = 0 /\ Asked' = [Asked EXCEPT ![t] = n]
      BY <2>3, <2>4, <3>1, AskedStep DEF Asked
    <3>3. Out' = Out
      BY <1>1, <2>1 DEF Out
    <3>4. Pool!Ask(t)
      BY <2>2, <2>6, <3>2, <3>3 DEF Pool!Ask, Out, Asked, AskedBy
    <3>5. QED
      BY <3>4 DEF Goal, Pool!Next
  <2>7. QED
    BY <2>2, <2>5, <2>6
<1>15. ASSUME NEW t \in Thread, TakeSpan(t) PROVE Goal
  <2> DEFINE n == call[t].page_num
  <2>1. PICK s \in pc_span_lists_[n] :
          /\ lent' = lent \cup {s}
          /\ call' = [call EXCEPT ![t].at = "distributed", ![t].span = s]
    BY <1>15 DEF TakeSpan
  <2>2. call[t].at = "take span" /\ page_num_' = page_num_
    BY <1>15 DEF TakeSpan, At
  <2>3. n \in Lists
    BY <1>3, <2>2 DEF TypeInv, LocalsTyped, Working
  <2>4. s \in Page /\ page_num_[s] = n /\ s \notin lent
    BY <1>3, <2>3 DEF TypeInv, SharedTyped, IInv, Places, SpanInOnePlace
  <2>5. s \in Spans
    BY <2>3, PlacedAreSpans DEF IInv, Cached
  <2>6. OthersStay(t) /\ call'[t].at = "distributed"
    BY <1>3, <2>1, <2>4, TakeSpanStep
  <2>7. AskedBy(t) = n /\ AskedBy(t)' = 0
    BY <2>2, <2>6 DEF AskedBy, Distributing
  <2>8. Pool!Next
    BY <2>1, <2>2, <2>4, <2>5, <2>6, <2>7, LendStep
  <2>9. QED
    BY <2>8 DEF Goal
<1>16. ASSUME NEW t \in Thread, Register(t) PROVE Goal
  <2> DEFINE s == call[t].span
             last == call[t].i + 1 = call[t].page_num
  <2>1. /\ OthersStay(t) /\ call[t].at = "register"
        /\ call'[t].at = IF last THEN "distributed" ELSE "register"
        /\ call'[t].page_num = call[t].page_num
    BY <1>3, <1>16, RegisterStep
  <2>2. lent' = (IF last THEN lent \cup {s} ELSE lent) /\ page_num_' = page_num_
    BY <1>16 DEF Register
  <2>3. Moving(t)
    BY <2>1 DEF Moving
  <2>4. s \in Spans \ lent /\ call[t].page_num = page_num_[s]
    BY <2>3 DEF IInv, Places, SpanInOnePlace, CallKnows
  <2>5. AskedBy(t) = call[t].page_num
    BY <2>1 DEF AskedBy, Distributing
  <2> HIDE DEF s, last
  <2>6. CASE last
    <3>1. AskedBy(t)' = 0
      BY <2>1, <2>6 DEF AskedBy, Distributing
    <3>2. Pool!Next
      BY <2>1, <2>2, <2>4, <2>5, <2>6, <3>1, LendStep
    <3>3. QED
      BY <3>2 DEF Goal
  <2>7. CASE ~last
    <3>1. AskedBy(t)' = AskedBy(t)
      BY <2>1, <2>7 DEF AskedBy, Distributing
    <3>2. QED
      BY <1>2, <2>1, <2>2, <2>7, <3>1
  <2>8. QED
    BY <2>6, <2>7
<1>17. ASSUME NEW t \in Thread, NEW s \in lent, TakeBackSpan(t, s) PROVE Goal
  <2> DEFINE label == "lock list to take back"
             n == page_num_[s]
  <2>1. /\ call[t].at = "idle" /\ lent' = lent \ {s}
        /\ call' = [call EXCEPT ![t] = NewCall(label, n, s)]
    BY <1>17 DEF TakeBackSpan, At
  <2>2. label \in CallLabels /\ n \in Nat /\ s \in Page \cup {null}
    BY <1>3, PageCacheAssumption
       DEF CallLabels, PageCacheAssumption, TypeInv, SharedTyped, Lists
  <2> HIDE DEF n, label
  <2>3. OthersStay(t) /\ call'[t].at = label
    BY <1>3, <2>1, <2>2, NewCallStep
  <2>4. AskedBy(t)' = 0 /\ AskedBy(t) = 0
    BY <2>1, <2>3 DEF AskedBy, Distributing, label
  <2>5. Asked' = Asked
    BY <2>3, <2>4, AskedStep DEF Asked
  <2>6. Out' = [u \in DOMAIN Out \ {s} |-> Out[u]]
    BY <1>1, <2>1 DEF Out
  <2>7. Pool!GiveBack
    <3>1. s \in DOMAIN Out
      BY DEF Out
    <3>2. QED
      BY <2>5, <2>6, <3>1 DEF Pool!GiveBack, Out, Asked, AskedBy
  <2>8. QED
    BY <2>7 DEF Goal, Pool!Next
<1>18. ASSUME OthersMap \/ UNCHANGED pageCacheVars PROVE Goal
  <2>1. lent' = lent /\ call' = call
    BY <1>18 DEF OthersMap, pageCacheVars
  <2>2. \A t \in Thread : AskedBy(t)' = AskedBy(t)
    BY <2>1 DEF AskedBy, Distributing
  <2>3. QED
    BY <1>1, <2>1, <2>2, Stutters DEF Goal
<1>19. QED
  BY <1>r, <1>4, <1>5, <1>6, <1>7, <1>8, <1>9, <1>10, <1>11, <1>12, <1>13, <1>14,
     <1>15, <1>16, <1>17, <1>18
     DEF AnyStep, Inside

\* What callers see of the page cache is a pool that lends disjoint spans of
\* the length that was asked for (page-cache.cpp:13-78).
THEOREM ImplementsPool == PCSpec => ImplementsSpanPool
<1>1. IInv /\ [PCNext]_pageCacheVars => [Pool!Next]_(Pool!vars)
  BY PoolStep, NextIsAnyStep
<1>2. QED
  BY <1>1, PoolInit, InductiveInvariant, PTL
     DEF PCSpec, ImplementsSpanPool, Pool!Spec
=============================================================================
