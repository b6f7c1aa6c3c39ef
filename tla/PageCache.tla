----------------------------- MODULE PageCache -----------------------------
(***************************************************************************)
(* heap-allocator/src/page-cache: the pool of spans shared by all threads. *)
(*                                                                         *)
(* A span is named by its first page.  DistributeSpan lends one to the     *)
(* caller, TakeBackSpan takes a lent one back.  A call is cut where        *)
(* another thread can come between: at every mutex that it takes or gives  *)
(* back while it holds or wants another one, and, because PageId2Span      *)
(* reads the radix tree without a lock, at every insertion into it.        *)
(*                                                                         *)
(* The lists are sets: which of the spans of one length is lent first is   *)
(* of no concern here.  The radix tree is the map it implements (its       *)
(* nodes are in module RadixTree).                                         *)
(***************************************************************************)
EXTENDS Integers, FiniteSets

CONSTANTS
    Thread,
    NPages,             \* pages that mmap can hand out (bound of the model)
    PageNums,           \* the span lengths that callers ask for
    MaxLent,            \* spans lent at one time (bound of the model)
    MaxForeign,         \* pages others have mapped (bound of the model)
    kPCSpanListNum,     \* lists of the cache, lengths 0 .. kPCSpanListNum - 1
    kSpanMaxListSize,   \* spans a list keeps
    nobody,             \* the holder of a free mutex
    null                \* the null pointer

Page == 0 .. NPages - 1

\* A length equal to kPCSpanListNum passes the guard of DistributeSpan and is
\* no index of the array: that no caller asks for it is IndexInArray of
\* module SizeLaws.
ASSUME PageCacheAssumption ==
    /\ NPages \in Nat
    /\ MaxLent \in Nat
    /\ MaxForeign \in Nat
    /\ PageNums \subseteq Nat \ {0, kPCSpanListNum}
    /\ kPCSpanListNum \in Nat \ {0}
    /\ kSpanMaxListSize \in Nat
    /\ nobody \notin Thread
    /\ null \notin Page
    /\ IsFiniteSet(Thread)

VARIABLES
    pc_span_lists_,     \* length -> the free spans of that length
    list_latch,         \* length -> who holds the mutex of that list
    latch_,             \* who holds PageCache::latch_
    radix_tree_,        \* page -> the span it was last registered for
    page_num_,          \* first page -> length in its header, 0: no span
    mapped,             \* the pages that are mapped for spans
    foreign,            \* the pages that others in the process have mapped
    lent,               \* the spans that are lent (not stored by the code)
    call                \* thread -> its call and the locals of the call

pageCacheVars ==
    <<pc_span_lists_, list_latch, latch_, radix_tree_, page_num_, mapped,
      foreign, lent, call>>

Lists == 0 .. kPCSpanListNum - 1

\* A call at a label, with the length and the span it works on.
NewCall(label, n, s) == [at |-> label, page_num |-> n, span |-> s, i |-> 0]

Idle == NewCall("idle", 0, null)

\* The pages of n pages from page s on, of span s.
PagesFrom(s, n) == s .. s + n - 1
PagesOf(s) == PagesFrom(s, page_num_[s])

At(t, label) == call[t].at = label

\* Thread t goes on at label, with its other locals unchanged.
GoTo(t, label) == call' = [call EXCEPT ![t].at = label]

\* (mutant) the mutex stays locked
KeepLocked(n) == UNCHANGED list_latch

\* (mutant) does not wait for the mutex
LockListAtOnce(n, t) == list_latch' = [list_latch EXCEPT ![n] = t]

LockList(n, t) ==
    /\ list_latch[n] = nobody
    /\ list_latch' = [list_latch EXCEPT ![n] = t]

UnlockList(n) == list_latch' = [list_latch EXCEPT ![n] = nobody]

\* (mutant) the span stays in the list
KeepInList(n, s) == UNCHANGED pc_span_lists_

RemoveFromList(n, s) == pc_span_lists_' = [pc_span_lists_ EXCEPT ![n] = @ \ {s}]

HasRoom(n) == Cardinality(pc_span_lists_[n]) < kSpanMaxListSize

\* (mutant) does not replace an entry that is there
InsertNew(page, s) ==
    radix_tree_' = [radix_tree_ EXCEPT ![page] = IF @ = null THEN s ELSE @]

Insert(page, s) == radix_tree_' = [radix_tree_ EXCEPT ![page] = s]

PCInit ==
    /\ pc_span_lists_ = [n \in Lists |-> {}]
    /\ list_latch = [n \in Lists |-> nobody]
    /\ latch_ = nobody
    /\ radix_tree_ = [p \in Page |-> null]
    /\ page_num_ = [p \in Page |-> 0]
    /\ mapped = {}
    /\ foreign = {}
    /\ lent = {}
    /\ call = [t \in Thread |-> Idle]

-----------------------------------------------------------------------------
(* The kernel: mmap puts n pages at any place where they are free. *)

MapPlaces(n) ==
    {s \in Page : PagesFrom(s, n) \subseteq Page \ (mapped \cup foreign)}

\* (mutant) believes one page more to be mapped
MapMore(s, n) == mapped' = mapped \cup PagesFrom(s, n + 1)

Map(s, n) == mapped' = mapped \cup PagesFrom(s, n)

\* (mutants) one page, one page more
UnmapOne(s, n) == mapped' = mapped \ {s}
UnmapMore(s, n) == mapped' = mapped \ PagesFrom(s, n + 1)

Unmap(s, n) == mapped' = mapped \ PagesFrom(s, n)

\* Others map and unmap pages too: MyMalloc for the longest blocks, and the
\* rest of the process.
ForeignStep ==
    /\ \E F \in SUBSET (Page \ mapped) :
         /\ Cardinality(F) <= MaxForeign
         /\ foreign' = F
    /\ UNCHANGED <<pc_span_lists_, list_latch, latch_, radix_tree_, page_num_,
                   mapped, lent, call>>

-----------------------------------------------------------------------------
(* DistributeSpan and mallocSpan *)

\* The call, with the early return for a length that has no list.
DistributeSpan(t, page_num) ==
    /\ At(t, "idle")
    /\ call' = [call EXCEPT ![t] =
         NewCall(IF page_num > kPCSpanListNum THEN "distributed" ELSE "lock list",
                 page_num, null)]
    /\ UNCHANGED <<pc_span_lists_, list_latch, latch_, radix_tree_, page_num_,
                   mapped, lent, foreign>>

LockListToDistribute(t) ==
    /\ At(t, "lock list")
    /\ LockList(call[t].page_num, t)
    /\ GoTo(t, "take span")
    /\ UNCHANGED <<pc_span_lists_, latch_, radix_tree_, page_num_, mapped,
                   lent, foreign>>

\* An empty list: unlock it, then ask the system.
ListIsEmpty(t) ==
    LET n == call[t].page_num IN
    /\ At(t, "take span")
    /\ pc_span_lists_[n] = {}
    /\ UnlockList(n)
    /\ GoTo(t, "lock to map")
    /\ UNCHANGED <<pc_span_lists_, latch_, radix_tree_, page_num_, mapped,
                   lent, foreign>>

TakeSpan(t) ==
    LET n == call[t].page_num IN
    /\ At(t, "take span")
    /\ \E s \in pc_span_lists_[n] :
         /\ RemoveFromList(n, s)
         /\ lent' = lent \cup {s}
         /\ call' = [call EXCEPT ![t].at = "distributed", ![t].span = s]
    /\ UnlockList(n)
    /\ UNCHANGED <<latch_, radix_tree_, page_num_, mapped, foreign>>

LockToMap(t) ==
    /\ At(t, "lock to map")
    /\ latch_ = nobody
    /\ latch_' = t
    /\ GoTo(t, "map")
    /\ UNCHANGED <<pc_span_lists_, list_latch, radix_tree_, page_num_, mapped,
                   lent, foreign>>

\* mmap and the constructor, which writes the header.
\* The second test for too great a length, which would return with the mutex
\* held, is never true: DistributeSpan has tested it.
MapSpan(t) ==
    LET n == call[t].page_num IN
    /\ At(t, "map")
    /\ \E s \in MapPlaces(n) :
         /\ Map(s, n)
         /\ page_num_' = [page_num_ EXCEPT ![s] = n]
         /\ call' = [call EXCEPT ![t].at = "register", ![t].span = s, ![t].i = 0]
    /\ UNCHANGED <<pc_span_lists_, list_latch, latch_, radix_tree_, lent,
                   foreign>>

\* Nothing tests the result of mmap (page-cache.cpp:40): the constructor writes
\* to MAP_FAILED and the process is killed.
MapFails(t) ==
    /\ At(t, "map")
    /\ MapPlaces(call[t].page_num) = {}
    /\ GoTo(t, "killed")
    /\ UNCHANGED <<pc_span_lists_, list_latch, latch_, radix_tree_, page_num_,
                   mapped, lent, foreign>>

\* One turn of the loop over the pages; the last one ends the call.
Register(t) ==
    LET s == call[t].span
        i == call[t].i
        last == i + 1 = call[t].page_num IN
    /\ At(t, "register")
    /\ Insert(s + i, s)
    /\ call' = [call EXCEPT ![t].i = i + 1,
                            ![t].at = IF last THEN "distributed" ELSE "register"]
    /\ latch_' = IF last THEN nobody ELSE latch_
    /\ lent' = IF last THEN lent \cup {s} ELSE lent
    /\ UNCHANGED <<pc_span_lists_, list_latch, page_num_, mapped, foreign>>

-----------------------------------------------------------------------------
(* TakeBackSpan and deleteSpan *)

\* The length is read before the span may be unmapped: the last unlock needs it.
TakeBackSpan(t, span) ==
    /\ At(t, "idle")
    /\ span \in lent
    /\ lent' = lent \ {span}
    /\ call' = [call EXCEPT ![t] =
         NewCall("lock list to take back", page_num_[span], span)]
    /\ UNCHANGED <<pc_span_lists_, list_latch, latch_, radix_tree_, page_num_,
                   mapped, foreign>>

LockListToTakeBack(t) ==
    /\ At(t, "lock list to take back")
    /\ LockList(page_num_[call[t].span], t)
    /\ GoTo(t, "put back")
    /\ UNCHANGED <<pc_span_lists_, latch_, radix_tree_, page_num_, mapped,
                   lent, foreign>>

\* The size of the list is tested, and the span is inserted in a step of its own.
ListHasRoom(t) ==
    /\ At(t, "put back")
    /\ HasRoom(page_num_[call[t].span])
    /\ GoTo(t, "push")
    /\ UNCHANGED <<pc_span_lists_, list_latch, latch_, radix_tree_, page_num_,
                   mapped, lent, foreign>>

PutBack(t) ==
    LET n == page_num_[call[t].span] IN
    /\ At(t, "push")
    /\ pc_span_lists_' = [pc_span_lists_ EXCEPT ![n] = @ \cup {call[t].span}]
    /\ GoTo(t, "unlock list")
    /\ UNCHANGED <<list_latch, latch_, radix_tree_, page_num_, mapped, lent,
                   foreign>>

\* A full list: deleteSpan takes the second mutex.
LockToUnmap(t) ==
    /\ At(t, "put back")
    /\ ~HasRoom(page_num_[call[t].span])
    /\ latch_ = nobody
    /\ latch_' = t
    /\ GoTo(t, "unmap")
    /\ UNCHANGED <<pc_span_lists_, list_latch, radix_tree_, page_num_, mapped,
                   lent, foreign>>

\* munmap and unlock.  The radix tree keeps the entries of the pages.
UnmapSpan(t) ==
    LET s == call[t].span IN
    /\ At(t, "unmap")
    /\ Unmap(s, page_num_[s])
    /\ page_num_' = [page_num_ EXCEPT ![s] = 0]
    /\ latch_' = nobody
    /\ GoTo(t, "unlock list")
    /\ UNCHANGED <<pc_span_lists_, list_latch, radix_tree_, lent, foreign>>

\* (mutant) reads the length from the header, when the span may be unmapped
LengthInHeader(t) == page_num_[call[t].span]

LengthToUnlock(t) == call[t].page_num

EndTakeBack(t) ==
    /\ At(t, "unlock list")
    /\ UnlockList(LengthToUnlock(t))
    /\ call' = [call EXCEPT ![t] = NewCall("taken back", 0, null)]
    /\ UNCHANGED <<pc_span_lists_, latch_, radix_tree_, page_num_, mapped,
                   lent, foreign>>

-----------------------------------------------------------------------------
\* The steps of a call between its beginning and its return.
Inside(t) ==
    \/ LockListToDistribute(t) \/ ListIsEmpty(t) \/ TakeSpan(t)
    \/ LockToMap(t) \/ MapSpan(t) \/ MapFails(t) \/ Register(t)
    \/ LockListToTakeBack(t) \/ ListHasRoom(t) \/ PutBack(t)
    \/ LockToUnmap(t) \/ UnmapSpan(t) \/ EndTakeBack(t)

Returned(t) == call[t].at \in {"distributed", "taken back"}

Return(t) ==
    /\ Returned(t)
    /\ call' = [call EXCEPT ![t] = Idle]
    /\ UNCHANGED <<pc_span_lists_, list_latch, latch_, radix_tree_, page_num_,
                   mapped, lent, foreign>>

\* Callers stop asking when MaxLent spans are lent or asked for.
Distributing == {t \in Thread : call[t].at \in {"lock list", "take span",
                                  "lock to map", "map", "killed", "register"}}

MayDistribute == Cardinality(lent) + Cardinality(Distributing) < MaxLent

Killed == \E t \in Thread : At(t, "killed")

PCStep ==
    /\ ~Killed
    /\ \/ ForeignStep
       \/ \E t \in Thread :
            \/ \E n \in PageNums : MayDistribute /\ DistributeSpan(t, n)
            \/ \E s \in lent : TakeBackSpan(t, s)
            \/ Inside(t)
            \/ Return(t)

\* A killed process stays as it is.
StayKilled == Killed /\ UNCHANGED pageCacheVars

PCNext == PCStep \/ StayKilled

\* A thread inside a call goes on as long as it can; nobody has to call.
PCFairness ==
    \A t \in Thread : WF_pageCacheVars(~Killed /\ (Inside(t) \/ Return(t)))

PCSpec == PCInit /\ [][PCNext]_pageCacheVars /\ PCFairness

-----------------------------------------------------------------------------
(* Where spans and mutexes are *)

Spans == {s \in Page : page_num_[s] # 0}

Cached == UNION {pc_span_lists_[n] : n \in Lists}

\* The span is in no list and not lent: one call is working on it.
Moving(t) == call[t].at \in {"register", "lock list to take back", "put back",
                             "push", "unmap"}

HoldsList(t) ==
    call[t].at \in {"take span", "put back", "push", "unmap", "unlock list"}

HoldsLatch(t) == call[t].at \in {"map", "killed", "register", "unmap"}

CallLabels ==
    {"idle", "lock list", "take span", "lock to map", "map", "killed",
     "register", "distributed", "lock list to take back", "put back", "push",
     "unmap", "unlock list", "taken back"}

\* The type of every variable.
PCTypeOK ==
    /\ pc_span_lists_ \in [Lists -> SUBSET Page]
    /\ list_latch \in [Lists -> Thread \cup {nobody}]
    /\ latch_ \in Thread \cup {nobody}
    /\ radix_tree_ \in [Page -> Page \cup {null}]
    /\ page_num_ \in [Page -> Nat]
    /\ mapped \in SUBSET Page
    /\ foreign \in SUBSET Page
    /\ lent \in SUBSET Page
    /\ call \in [Thread -> [at : CallLabels, page_num : Nat,
                            span : Page \cup {null}, i : Nat]]

-----------------------------------------------------------------------------
(* Properties *)

\* Every span is in exactly one place: lent to a caller, in the list of its
\* length, or in the hands of one call.  None is lost, none is lent twice.
SpanInOnePlace ==
    /\ \A n \in Lists : \A s \in pc_span_lists_[n] :
          page_num_[s] = n /\ s \notin lent
    /\ \A t \in Thread : Moving(t) =>
          /\ call[t].span \in Spans \ (lent \cup Cached)
          /\ \A u \in Thread \ {t} : Moving(u) => call[u].span # call[t].span
    /\ \A s \in Spans : \/ s \in lent \cup Cached
                        \/ \E t \in Thread : Moving(t) /\ call[t].span = s
    /\ lent \subseteq Spans

\* The spans divide the mapped pages among them: no two of them overlap and
\* no page stays mapped without a span; nor is a page of others in use.
SpansPartitionMapped ==
    /\ \A s, u \in Spans : s # u => PagesOf(s) \cap PagesOf(u) = {}
    /\ mapped = UNION {PagesOf(s) : s \in Spans}
    /\ mapped \cap foreign = {}

\* The lookup that MyFree makes without a lock (page-cache.h:26) finds every
\* page of a span that is lent or cached, although entries are never removed
\* and pages are mapped again with other spans.
RegisteredWhole ==
    \A s \in lent \cup Cached : \A p \in PagesOf(s) : radix_tree_[p] = s

\* "Only 8 spans are kept of a length" (page-cache.cpp:58), although the size
\* is tested first and the span inserted later, and several threads give spans
\* of one length back at once: the mutex of the list is held over both.
ListsBounded ==
    \A n \in Lists : Cardinality(pc_span_lists_[n]) <= kSpanMaxListSize

\* A mutex is held exactly by the call that is between its lock and its
\* unlock: no call returns with one, none unlocks the list of another length
\* although the header that holds the length may be unmapped before
\* (page-cache.cpp:56-64).
MutexesMatchCalls ==
    /\ \A n \in Lists, t \in Thread :
          list_latch[n] = t <=> HoldsList(t) /\ call[t].page_num = n
    /\ \A t \in Thread : latch_ = t <=> HoldsLatch(t)

\* While a span is lent its pages stay mapped, its length and its entries in
\* the radix tree stay what they are, whatever the other calls map and unmap.
StableWhileLent ==
    [][\A s \in lent :
         /\ page_num_'[s] = page_num_[s]
         /\ PagesOf(s) \subseteq mapped'
         /\ \A p \in PagesOf(s) : radix_tree_'[p] = radix_tree_[p]]_pageCacheVars

\* Two mutexes are held at once (list, then latch_) and each is given back:
\* once no more calls begin, all that are under way return, unless the process
\* runs out of memory.
NoPageCallBegins == \A t \in Thread : At(t, "idle") => call'[t].at = "idle"

PageCallsReturn ==
    <>[][NoPageCallBegins]_pageCacheVars
      => <>[](Killed \/ \A t \in Thread : At(t, "idle"))

-----------------------------------------------------------------------------
(* What callers see: module SpanPool *)

Pool == INSTANCE SpanPool WITH
    out <- [s \in lent |-> page_num_[s]],
    asked <- [t \in Thread |->
                IF t \in Distributing THEN call[t].page_num ELSE 0],
    MaxLength <- kPCSpanListNum

\* The page cache lends spans as SpanPool says.
ImplementsSpanPool == Pool!Spec
=============================================================================
